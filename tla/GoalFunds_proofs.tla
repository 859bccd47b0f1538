--------------------------- MODULE GoalFunds_proofs ---------------------------
(***************************************************************************)
(* Proofs about GoalFunds, for any accounts, goals, requests and sessions. *)
(* The ledger operations run beside the goal operations: what the proofs   *)
(* of LedgerMoves show of one of their steps is cited from there.          *)
(***************************************************************************)
EXTENDS GoalProperties, LedgerMoves_proofs, FiniteSums

-----------------------------------------------------------------------------
(* Requests and goal rows *)

\* A contribution or release has its rows in the tables, and its key if any.
LEMMA ReserveRequest ==
    ASSUME NEW r \in Requests, r.op \in ReserveOps
    PROVE  /\ r.goal \in Goals /\ r.goal \in Rows
           /\ r.acct \in Accounts /\ r.acct \in Rows
           /\ r.goal # r.acct
           /\ r.amount \in Nat \ {0}
           /\ Keyed(r) => KeyOf(r) \in Keys /\ KeyOf(r) \in Rows
           /\ r.op \notin MoveOps
           /\ Signed(r) \in Int /\ Signed(r) # 0
<1>1. r.goal \in Goals /\ r.amount \in Nat \ {0} /\ r.cmd \in Commands \cup {NoCmd}
      /\ Goals \subseteq Rows /\ Goals \cap (Accounts \cup Keys) = {}
  BY GoalsAssumption
<1>2. r.acct \in Accounts /\ Accounts \cup Keys \subseteq Rows
  BY RequestsAssumption, AccountsAssumption
<1>3. Keyed(r) => KeyOf(r) \in Keys
  BY <1>1 DEF Keyed, KeyOf, Keys, ReserveOps
<1>4. r.op \notin MoveOps /\ Signed(r) \in Int /\ Signed(r) # 0
  BY <1>1 DEF MoveOps, CashOps, ReserveOps, Signed
<1> QED
  BY <1>1, <1>2, <1>3, <1>4

\* A goal row with a new amount is a goal row.
LEMMA ProgressedRow ==
    ASSUME NEW row \in GoalRow, NEW n \in Int
    PROVE  /\ Progressed(row, n) \in GoalRow
           /\ Progressed(row, n).current = n
           /\ Progressed(row, n).status = IF row.target - n > 0 THEN "active" ELSE "completed"
           /\ Progressed(row, n).target = row.target
           /\ Progressed(row, n).live = row.live
<1> DEFINE status == IF row.target - n > 0 THEN "active" ELSE "completed"
<1>1. [row EXCEPT !.current = n] \in GoalRow
  BY DEF GoalRow
<1>2. status \in {"active", "completed", "cancelled"}
  OBVIOUS
<1> HIDE DEF status
<1>3. [[row EXCEPT !.current = n] EXCEPT !.status = status] \in GoalRow
  BY <1>1, <1>2 DEF GoalRow
<1>4. Progressed(row, n) = [row EXCEPT !.current = n, !.status = status]
  BY DEF Progressed, status
<1> QED
  BY <1>3, <1>4 DEF GoalRow, status

\* The draft of a contribution or release, column by column.
LEMMA ReserveDraftIs ==
    ASSUME GoalTypeOK, NEW r \in Requests, r.op \in ReserveOps
    PROVE  LET seen == goal[r.goal]
               d == ReserveDraft(r)
           IN  /\ d \in Draft
               /\ d.row = Progressed(seen, seen.current + Signed(r))
               /\ d.dirty = {c \in Columns : d.row[c] # seen[c]}
               /\ d.pair = alloc[r.goal][r.acct] + Signed(r)
               /\ d.account = reserved[r.acct] + Signed(r)
<1> DEFINE seen == goal[r.goal]
           row == Progressed(seen, seen.current + Signed(r))
           pair == alloc[r.goal][r.acct] + Signed(r)
           account == reserved[r.acct] + Signed(r)
<1>1. r.goal \in Goals /\ r.acct \in Accounts /\ Signed(r) \in Int
  BY ReserveRequest
<1>2. seen \in GoalRow /\ seen.current + Signed(r) \in Int
  BY <1>1 DEF GoalTypeOK, GoalRow
<1>3. pair \in Int /\ account \in Int
  BY <1>1 DEF GoalTypeOK, TypeOK, LedgerTypeOK
<1>4. row \in GoalRow
  BY <1>2, ProgressedRow
<1>5. ReserveDraft(r) = DraftOf(seen, row, pair, account)
  BY DEF ReserveDraft
<1> HIDE DEF seen, row, pair, account
<1>6. DraftOf(seen, row, pair, account) \in Draft
  BY <1>3, <1>4 DEF DraftOf, Draft
<1> QED
  BY <1>5, <1>6 DEF DraftOf, seen, row, pair, account

\* Writing a draft changes one goal row, in the dirty columns only.
LEMMA WrittenIs ==
    ASSUME goal \in [Goals -> GoalRow], NEW g \in Goals, NEW d \in Draft,
           goal' = Written(g, d)
    PROVE  /\ goal' \in [Goals -> GoalRow]
           /\ \A h \in Goals \ {g} : goal'[h] = goal[h]
           /\ \A c \in Columns : goal'[g][c] = IF c \in d.dirty THEN d.row[c] ELSE goal[g][c]
<1> DEFINE new == [c \in Columns |-> IF c \in d.dirty THEN d.row[c] ELSE goal[g][c]]
<1>1. goal' = [goal EXCEPT ![g] = new]
  BY DEF Written
<1>2. new \in GoalRow
  BY DEF GoalRow, Draft, Columns
<1> QED
  BY <1>1, <1>2

-----------------------------------------------------------------------------
(* Type correctness *)

LEMMA NoDraftType == NoDraft \in Draft
  BY DEF NoDraft, Draft, NewGoal, GoalRow

LEMMA GoalTypeInit == GoalInit => GoalTypeOK
<1>1. Target \in [Goals -> Nat \ {0}]
  BY GoalsAssumption
<1> QED
  BY <1>1, TypeInit, NoDraftType DEF GoalInit, GoalTypeOK, NewGoal, GoalRow

\* The end of a goal transaction keeps sessions and drafts well typed.
LEMMA GoalLeaveType ==
    ASSUME GoalTypeOK, NEW s \in Sessions, Leave(s), DropDraft(s)
    PROVE  SessionTypeOK' /\ draft' \in [Sessions -> Draft]
  BY LeaveType, NoDraftType DEF GoalTypeOK, TypeOK, DropDraft

\* Starting to edit a goal stages a row for it.
LEMMA EditDraftType ==
    ASSUME GoalTypeOK, NEW s \in Sessions, NEW r \in Requests, r.op \in EditOps,
           NEW row \in GoalRow, EditDraft(s, r, row)
    PROVE  GoalTypeOK'
<1>1. DraftOf(goal[r.goal], row, 0, 0) \in Draft
  BY DEF DraftOf, Draft
<1>2. draft' \in [Sessions -> Draft]
  BY <1>1 DEF EditDraft, GoalTypeOK
<1>3. TypeOK'
  BY DEF EditDraft, Enter, ledgerVars, GoalTypeOK, TypeOK, LedgerTypeOK, SessionTypeOK,
         LockTypeOK
<1> QED
  BY <1>2, <1>3 DEF EditDraft, goalRows, GoalTypeOK

LEMMA GoalTypeStep ==
    ASSUME GoalTypeOK, NEW s \in Sessions, GoalStep(s)
    PROVE  GoalTypeOK'
<1> USE DEF GoalTypeOK, TypeOK
<1>1. ASSUME NEW r \in Requests, ReserveEarlyReplay(s, r)
      PROVE  GoalTypeOK'
  BY <1>1, TellType
  DEF ReserveEarlyReplay, LedgerTypeOK, SessionTypeOK, LockTypeOK, sessionVars, goalVars, goalRows
<1>2. ASSUME NEW r \in Requests, BeginReserve(s, r)
      PROVE  GoalTypeOK'
  BY <1>2 DEF BeginReserve, Enter, ledgerVars, goalVars, goalRows, LedgerTypeOK,
              SessionTypeOK, LockTypeOK
<1>3. ASSUME NEW r \in Requests, BeginRetarget(s, r)
      PROVE  GoalTypeOK'
  <2> DEFINE seen == goal[r.goal]
             row == [seen EXCEPT !.target = r.amount,
                                 !.status = IF seen.current >= r.amount THEN "completed" ELSE @]
  <2>1. seen \in GoalRow /\ r.amount \in Nat /\ r.op \in EditOps
    BY <1>3, GoalsAssumption DEF BeginRetarget, EditOps
  <2>2. EditDraft(s, r, row)
    BY <1>3 DEF BeginRetarget
  <2> HIDE DEF seen
  <2>3. row \in GoalRow
    BY <2>1 DEF GoalRow
  <2> HIDE DEF row
  <2> QED
    BY <2>1, <2>2, <2>3, EditDraftType
<1>4. ASSUME NEW r \in Requests, BeginDelete(s, r)
      PROVE  GoalTypeOK'
  <2> DEFINE seen == goal[r.goal]
             row == [seen EXCEPT !.live = FALSE, !.status = "cancelled"]
  <2>1. seen \in GoalRow /\ r.op \in EditOps
    BY <1>4, GoalsAssumption DEF BeginDelete, EditOps
  <2>2. EditDraft(s, r, row)
    BY <1>4 DEF BeginDelete
  <2> HIDE DEF seen
  <2>3. row \in GoalRow
    BY <2>1 DEF GoalRow
  <2> HIDE DEF row
  <2> QED
    BY <2>1, <2>2, <2>3, EditDraftType
<1>5. CASE LockReserve(s)
  <2>1. req[s] \in Requests /\ ReserveRow(req[s], pc[s]) \in Rows
    BY <1>5, ReserveRequest DEF LockReserve, SessionTypeOK, ReserveRow
  <2>2. LockTypeOK'
    BY <1>5, <2>1, LockType DEF LockReserve
  <2> QED
    BY <1>5, <2>1, <2>2
    DEF LockReserve, ledgerVars, goalVars, goalRows, LedgerTypeOK, SessionTypeOK
<1>6. CASE ReserveReplay(s)
  <2>1. req[s] \in Requests
    BY <1>6 DEF ReserveReplay, SessionTypeOK
  <2> QED
    BY <1>6, <2>1, TellType, GoalLeaveType DEF ReserveReplay, goalRows, LedgerTypeOK
<1>7. CASE StageReserve(s)
  <2>1. req[s] \in Requests /\ req[s].op \in ReserveOps
    BY <1>7 DEF StageReserve, SessionTypeOK
  <2>2. LockTypeOK'
    BY <1>7, <2>1, ReserveRequest, LockType DEF StageReserve, SessionTypeOK, LockTypeOK
  <2>3. draft' \in [Sessions -> Draft]
    BY <1>7, <2>1, ReserveDraftIs DEF StageReserve
  <2> QED
    BY <1>7, <2>1, <2>2, <2>3 DEF StageReserve, ledgerVars, goalRows, LedgerTypeOK, SessionTypeOK
<1>8. CASE RefuseReserve(s)
  BY <1>8, GoalLeaveType DEF RefuseReserve, ledgerVars, goalRows, LedgerTypeOK
<1>9. CASE CommitReserve(s)
  <2> DEFINE r == req[s]
             zero == [a \in Accounts |-> 0]
  <2>1. r \in Requests /\ r.op \in ReserveOps /\ draft[s] \in Draft
    BY <1>9 DEF CommitReserve, SessionTypeOK
  <2>2. r.goal \in Goals /\ r.acct \in Accounts /\ Signed(r) \in Int
    BY <2>1, ReserveRequest
  <2>3. goal' \in [Goals -> GoalRow]
    BY <1>9, <2>1, <2>2, WrittenIs DEF CommitReserve
  <2>4. alloc' \in [Goals -> [Accounts -> Int]]
    <3>1. \A n \in Int : [alloc[r.goal] EXCEPT ![r.acct] = n] \in [Accounts -> Int]
      BY <2>2
    <3>2. alloc[r.goal][r.acct] + Signed(r) \in Int
      BY <2>2
    <3>3. alloc' = [alloc EXCEPT ![r.goal] =
                      [alloc[r.goal] EXCEPT ![r.acct] = alloc[r.goal][r.acct] + Signed(r)]]
      BY <1>9 DEF CommitReserve
    <3> QED
      BY <2>2, <3>1, <3>2, <3>3
  <2>5. progress' \in [Goals -> Int] /\ reserved' \in [Accounts -> Int]
    BY <1>9, <2>2 DEF CommitReserve, LedgerTypeOK
  <2>6. [req |-> r, post |-> zero] \in Row
    BY <2>1 DEF Row
  <2>7. recorded' \in [Keys -> Row \cup {Nothing}]
    BY <1>9, <2>6 DEF CommitReserve, LedgerTypeOK
  <2>8. told' \in [Keys -> SUBSET Requests]
    BY <1>9, <2>1, TellType DEF CommitReserve, LedgerTypeOK
  <2> QED
    BY <1>9, <2>3, <2>4, <2>5, <2>7, <2>8, GoalLeaveType DEF CommitReserve, LedgerTypeOK
<1>10. CASE WriteGoal(s)
  <2>1. req[s] \in Requests /\ req[s].goal \in Goals /\ draft[s] \in Draft
    BY <1>10, GoalsAssumption DEF WriteGoal, SessionTypeOK
  <2>2. goal' \in [Goals -> GoalRow]
    BY <1>10, <2>1, WrittenIs DEF WriteGoal
  <2> QED
    BY <1>10, <2>2, GoalLeaveType DEF WriteGoal, ledgerVars, LedgerTypeOK
<1>11. CASE AnswerRelease(s)
  <2>1. told' \in [Keys -> SUBSET Requests]
    BY <1>11, TellType DEF AnswerRelease, LedgerTypeOK, SessionTypeOK
  <2> QED
    BY <1>11, <2>1
    DEF AnswerRelease, goalVars, goalRows, sessionVars, LedgerTypeOK, SessionTypeOK, LockTypeOK
<1> QED
  BY <1>1, <1>2, <1>3, <1>4, <1>5, <1>6, <1>7, <1>8, <1>9, <1>10, <1>11
  DEF GoalStep, DecideReserve

LEMMA LedgerTypeStep ==
    ASSUME GoalTypeOK, NEW s \in Sessions, LedgerStep(s)
    PROVE  GoalTypeOK'
<1>1. TypeOK'
  BY TypeStep DEF GoalTypeOK, LedgerStep
<1> QED
  BY <1>1, NoDraftType DEF GoalTypeOK, LedgerStep, DropDraft, goalRows

(***************************************************************************)
(* Goals, sums and drafts keep their types beside the ledger's.            *)
(***************************************************************************)
THEOREM GoalTypeCorrect == GoalSpec => []GoalTypeOK
<1>1. GoalTypeOK /\ UNCHANGED allVars => GoalTypeOK'
  BY DEF GoalTypeOK, TypeOK, LedgerTypeOK, SessionTypeOK, LockTypeOK, allVars, vars,
         ledgerVars, sessionVars, goalVars, goalRows
<1>2. GoalTypeOK /\ [GoalNext]_allVars => GoalTypeOK'
  BY <1>1, GoalTypeStep, LedgerTypeStep DEF GoalNext
<1> QED
  BY GoalTypeInit, <1>2, PTL DEF GoalSpec

-----------------------------------------------------------------------------
(* What the locks protect *)

AnyStep(s) == GoalStep(s) \/ LedgerStep(s)

\* The answer to a release changes nothing but what its client was told.
LEMMA AnswerOnlyTells ==
    ASSUME NEW s \in Sessions, AnswerRelease(s)
    PROVE  /\ UNCHANGED <<balance, active, reserved, recorded, lock, pc, req, plan>>
           /\ UNCHANGED <<goal, alloc, progress, draft>>
           /\ pc[s] = "commit" /\ req[s].op = "release" /\ Tell(req[s])
  BY DEF AnswerRelease, sessionVars, goalVars, goalRows

\* A goal step of one session leaves the others, and the rows they hold, alone.
LEMMA GoalOthersKept ==
    ASSUME GoalTypeOK, NEW s \in Sessions, AnyStep(s), NEW t \in Sessions \ {s}
    PROVE  /\ pc'[t] = pc[t] /\ req'[t] = req[t] /\ plan'[t] = plan[t] /\ draft'[t] = draft[t]
           /\ \A row \in Rows : lock[row] = t => lock'[row] = t
<1> USE DEF GoalTypeOK, TypeOK, SessionTypeOK, LockTypeOK
<1>1. CASE LedgerStep(s)
  BY <1>1, OthersKept DEF LedgerStep, DropDraft
<1>2. CASE Leave(s) /\ DropDraft(s)
  BY <1>2 DEF Leave, ReleaseAll, DropDraft
<1>3. ASSUME NEW r \in Requests,
             \/ ReserveEarlyReplay(s, r) \/ BeginReserve(s, r)
             \/ BeginRetarget(s, r) \/ BeginDelete(s, r)
      PROVE  /\ pc'[t] = pc[t] /\ req'[t] = req[t] /\ plan'[t] = plan[t] /\ draft'[t] = draft[t]
             /\ lock' = lock
  BY <1>3 DEF ReserveEarlyReplay, BeginReserve, BeginRetarget, BeginDelete, EditDraft, Enter,
              sessionVars, goalVars
<1>4. CASE LockReserve(s)
  BY <1>4, NobodyAssumption DEF LockReserve, Available, Take, goalVars
<1>5. CASE StageReserve(s)
  BY <1>5, NobodyAssumption DEF StageReserve, CanInsert, Available, Take
<1>6. CASE AnswerRelease(s)
  BY <1>6, AnswerOnlyTells
<1> QED
  BY <1>1, <1>2, <1>3, <1>4, <1>5, <1>6
  DEF AnyStep, GoalStep, DecideReserve, ReserveReplay, RefuseReserve, CommitReserve, WriteGoal

\* A goal step moves no balance, and reserves only of the account it commits.
LEMMA GoalStepAccounts ==
    ASSUME NEW s \in Sessions, GoalStep(s)
    PROVE  /\ balance' = balance /\ active' = active
           /\ ~CommitReserve(s) => reserved' = reserved /\ recorded' = recorded
  BY Zenon DEF GoalStep, DecideReserve, ReserveEarlyReplay, BeginReserve, BeginRetarget, BeginDelete,
         EditDraft, LockReserve, ReserveReplay, StageReserve, RefuseReserve, AnswerRelease,
         CommitReserve, WriteGoal, ledgerVars

\* An account row that another session holds keeps its columns and reserves.
LEMMA GoalAccountKept ==
    ASSUME GoalTypeOK, HoldsItsRows, HoldsItsGoal, NEW s \in Sessions, AnyStep(s),
           NEW t \in Sessions \ {s}, NEW a \in Accounts, lock[a] = t
    PROVE  balance'[a] = balance[a] /\ active'[a] = active[a] /\ reserved'[a] = reserved[a]
<1>1. CASE LedgerStep(s)
  BY <1>1, AccountKept DEF LedgerStep, GoalTypeOK
<1>2. CASE CommitReserve(s)
  <2>1. req[s] \in Requests /\ req[s] # Nothing
    BY <1>2, RowIsSomething DEF CommitReserve, GoalTypeOK, TypeOK, SessionTypeOK
  <2>2. req[s].acct # a
    BY <1>2, <2>1 DEF CommitReserve, HoldsItsGoal
  <2> QED
    BY <1>2, <2>2 DEF CommitReserve, GoalTypeOK, TypeOK, LedgerTypeOK
<1>3. CASE GoalStep(s) /\ ~CommitReserve(s)
  BY <1>3, GoalStepAccounts
<1> QED
  BY <1>1, <1>2, <1>3 DEF AnyStep

\* A goal row that another session holds keeps its columns and its sums.
LEMMA GoalRowKept ==
    ASSUME GoalTypeOK, HoldsItsGoal, NEW s \in Sessions, AnyStep(s),
           NEW t \in Sessions \ {s}, NEW g \in Goals, lock[g] = t
    PROVE  goal'[g] = goal[g] /\ alloc'[g] = alloc[g] /\ progress'[g] = progress[g]
<1>1. CASE CommitReserve(s)
  <2>1. req[s] \in Requests /\ req[s] # Nothing /\ draft[s] \in Draft
    BY <1>1, RowIsSomething DEF CommitReserve, GoalTypeOK, TypeOK, SessionTypeOK
  <2>2. req[s].goal # g /\ req[s].goal \in Goals
    BY <1>1, <2>1, ReserveRequest DEF CommitReserve, HoldsItsGoal
  <2>3. goal'[g] = goal[g]
    BY <1>1, <2>1, <2>2, WrittenIs DEF CommitReserve, GoalTypeOK
  <2> QED
    BY <1>1, <2>2, <2>3 DEF CommitReserve, GoalTypeOK
<1>2. CASE WriteGoal(s)
  <2>1. req[s] \in Requests /\ draft[s] \in Draft
    BY <1>2 DEF WriteGoal, GoalTypeOK, TypeOK, SessionTypeOK
  <2>2. req[s].goal # g /\ req[s].goal \in Goals
    BY <1>2, <2>1, GoalsAssumption, NobodyAssumption DEF WriteGoal, Available
  <2>3. goal'[g] = goal[g]
    BY <1>2, <2>1, <2>2, WrittenIs DEF WriteGoal, GoalTypeOK
  <2> QED
    BY <1>2, <2>3 DEF WriteGoal
<1> QED
  BY <1>1, <1>2, Zenon
  DEF AnyStep, LedgerStep, GoalStep, DecideReserve, ReserveEarlyReplay, BeginReserve,
      BeginRetarget, BeginDelete, EditDraft, LockReserve, ReserveReplay, StageReserve,
      RefuseReserve, AnswerRelease, goalVars, goalRows

\* A recorded key is never written again, and one that another session has
\* inserted stays as it is.
LEMMA GoalKeyKept ==
    ASSUME GoalTypeOK, StagedIsCurrent, StagedReserveIsCurrent, NEW s \in Sessions, AnyStep(s),
           NEW k \in Keys, recorded[k] # Nothing \/ lock[k] # s
    PROVE  recorded'[k] = recorded[k]
<1>1. CASE LedgerStep(s)
  BY <1>1, KeyKept DEF LedgerStep, GoalTypeOK
<1>2. CASE CommitReserve(s)
  <2>1. ReserveStaged(s)
    BY <1>2 DEF CommitReserve, StagedReserveIsCurrent
  <2>2. Keyed(req[s]) => k # KeyOf(req[s])
    BY <2>1 DEF ReserveStaged, Fresh
  <2> QED
    BY <1>2, <2>2 DEF CommitReserve, GoalTypeOK, TypeOK, LedgerTypeOK
<1>3. CASE GoalStep(s) /\ ~CommitReserve(s)
  BY <1>3, GoalStepAccounts
<1> QED
  BY <1>1, <1>2, <1>3 DEF AnyStep

-----------------------------------------------------------------------------
(* The inductive invariant *)

GoalInv == GoalTypeOK /\ StagedIsCurrent /\ StagedReserveIsCurrent

\* After its own step a session holds what its stage says, or is not there.
LEMMA OwnGoalStep ==
    ASSUME GoalTypeOK, HoldsItsGoal, NEW s \in Sessions, GoalStep(s)
    PROVE  \/ pc'[s] \in {"idle", "first", "write"}
           \/ LockReserve(s) \/ StageReserve(s) \/ AnswerRelease(s)
<1> USE DEF GoalTypeOK, TypeOK, SessionTypeOK
<1>1. Leave(s) => pc'[s] = "idle"
  BY DEF Leave
<1>2. ASSUME NEW r \in Requests,
             \/ ReserveEarlyReplay(s, r) \/ BeginReserve(s, r)
             \/ BeginRetarget(s, r) \/ BeginDelete(s, r)
      PROVE  pc'[s] \in {"idle", "first", "write"}
  BY <1>2 DEF ReserveEarlyReplay, BeginReserve, BeginRetarget, BeginDelete, EditDraft, Enter,
              sessionVars
<1> QED
  BY <1>1, <1>2 DEF GoalStep, DecideReserve, ReserveReplay, RefuseReserve, CommitReserve, WriteGoal

\* A ledger step leaves no reserve operation past its first lock.
LEMMA OwnLedgerStep ==
    ASSUME GoalTypeOK, NEW s \in Sessions, LedgerStep(s)
    PROVE  /\ pc'[s] \in {"second", "ready", "commit"} => req'[s].op \notin ReserveOps
           /\ draft'[s] = NoDraft
<1> USE DEF GoalTypeOK, TypeOK, SessionTypeOK
<1>1. Leave(s) => pc'[s] = "idle"
  BY DEF Leave
<1>2. ASSUME NEW r \in Requests, EarlyReplay(s, r) \/ Begin(s, r) \/ BeginFlip(s, r)
      PROVE  pc'[s] \in {"idle", "first", "write"}
  BY <1>2 DEF EarlyReplay, Begin, BeginFlip, Enter, sessionVars
<1>3. LockFirst(s) \/ LockSecond(s) \/ Execute(s) \/ Adjust(s) => req'[s].op \notin ReserveOps
  BY DEF LockFirst, LockSecond, Execute, Adjust, Stage, MoveOps, CashOps, ReserveOps
<1> QED
  BY <1>1, <1>2, <1>3
  DEF LedgerStep, DropDraft, SessionStep, Serve, Decide, AdjustNothing, Replay, Refuse, Commit,
      Flip, Fail

LEMMA GoalHoldsRowsStep ==
    ASSUME GoalInv, NEW s \in Sessions, AnyStep(s)
    PROVE  HoldsItsRows'
<1> USE DEF GoalInv, GoalTypeOK, TypeOK, SessionTypeOK
<1>1. CASE LedgerStep(s)
  BY <1>1, HoldsItsRowsStep DEF LedgerStep, StagedIsCurrent
<1>2. CASE GoalStep(s)
  <2> SUFFICES ASSUME NEW t \in Sessions
               PROVE  /\ pc'[t] = "second" /\ req'[t].op = "transfer" =>
                           lock'[FirstRow(req'[t])] = t
                      /\ pc'[t] \in {"ready", "commit"} /\ req'[t].op \in MoveOps =>
                           \A a \in Touched(req'[t]) : lock'[a] = t
    BY DEF HoldsItsRows
  <2>1. CASE t # s
    <3>1. pc'[t] = pc[t] /\ req'[t] = req[t] /\ \A row \in Rows : lock[row] = t => lock'[row] = t
      BY <2>1, <1>2, GoalOthersKept DEF AnyStep
    <3>2. CASE pc[t] # "idle" /\ req[t].op \in MoveOps
      <4>1. FirstRow(req[t]) \in Rows /\ Touched(req[t]) \subseteq Rows
        BY <3>2, MoveRequest, AccountsAssumption
      <4> QED
        BY <3>1, <4>1 DEF HoldsItsRows, StagedIsCurrent
    <3>3. CASE ~(pc[t] # "idle" /\ req[t].op \in MoveOps)
      BY <3>1, <3>3 DEF MoveOps
    <3> QED
      BY <3>2, <3>3
  <2>2. CASE t = s
    <3>1. pc'[s] \in {"idle", "first", "write"} \/ req'[s].op \in ReserveOps
      BY <1>2, OwnGoalStep, AnswerOnlyTells
      DEF StagedReserveIsCurrent, LockReserve, StageReserve, ReserveOps
    <3> QED
      BY <2>2, <3>1 DEF ReserveOps, MoveOps, CashOps
  <2> QED
    BY <2>1, <2>2
<1> QED
  BY <1>1, <1>2 DEF AnyStep

LEMMA HoldsItsGoalStep ==
    ASSUME GoalInv, NEW s \in Sessions, AnyStep(s)
    PROVE  HoldsItsGoal'
<1> USE DEF GoalInv, GoalTypeOK, TypeOK, SessionTypeOK, LockTypeOK
<1> SUFFICES ASSUME NEW t \in Sessions, req'[t] # Nothing, req'[t].op \in ReserveOps
             PROVE  /\ pc'[t] \in {"second", "ready", "commit"} => lock'[req'[t].acct] = t
                    /\ pc'[t] \in {"ready", "commit"} => lock'[req'[t].goal] = t
  BY DEF HoldsItsGoal
<1>1. CASE t # s
  <2>1. pc'[t] = pc[t] /\ req'[t] = req[t] /\ \A row \in Rows : lock[row] = t => lock'[row] = t
    BY <1>1, GoalOthersKept
  <2>2. req[t] \in Requests /\ req[t].acct \in Rows /\ req[t].goal \in Rows
    BY <2>1, ReserveRequest
  <2> QED
    BY <2>1, <2>2 DEF StagedReserveIsCurrent, HoldsItsGoal
<1>2. CASE t = s /\ LedgerStep(s)
  BY <1>2, OwnLedgerStep
<1>3. CASE t = s /\ LockReserve(s)
  <2>1. req'[s] = req[s] /\ req[s] \in Requests /\ req[s] # Nothing /\ req[s].op \in ReserveOps
    BY <1>3, RowIsSomething DEF LockReserve
  <2>2. req[s].acct \in Rows /\ req[s].goal \in Rows /\ req[s].acct # req[s].goal
    BY <2>1, ReserveRequest
  <2>3. CASE pc[s] = "first"
    BY <1>3, <2>1, <2>2, <2>3 DEF LockReserve, Take, ReserveRow
  <2>4. CASE pc[s] = "second"
    BY <1>3, <2>1, <2>2, <2>4
    DEF LockReserve, Take, ReserveRow, HoldsItsGoal, StagedReserveIsCurrent
  <2> QED
    BY <1>3, <2>3, <2>4 DEF LockReserve
<1>4. CASE t = s /\ StageReserve(s)
  <2>1. req'[s] = req[s] /\ req[s] \in Requests /\ req[s] # Nothing /\ req[s].op \in ReserveOps
    BY <1>4, RowIsSomething DEF StageReserve
  <2>2. req[s].acct \in Rows /\ req[s].goal \in Rows
    BY <2>1, ReserveRequest
  <2>3. lock[req[s].acct] = s /\ lock[req[s].goal] = s
    BY <1>4, <2>1 DEF StageReserve, HoldsItsGoal, StagedReserveIsCurrent
  <2> QED
    BY <1>4, <2>1, <2>2, <2>3 DEF StageReserve, Take
<1>5. CASE t = s /\ AnswerRelease(s)
  BY <1>5, AnswerOnlyTells DEF StagedReserveIsCurrent, HoldsItsGoal
<1>6. CASE t = s /\ GoalStep(s) /\ ~LockReserve(s) /\ ~StageReserve(s) /\ ~AnswerRelease(s)
  BY <1>6, OwnGoalStep DEF StagedReserveIsCurrent
<1> QED
  BY <1>1, <1>2, <1>3, <1>4, <1>5, <1>6 DEF AnyStep

\* Goal operations leave what the ledger operations have staged current.
LEMMA GoalStagedStep ==
    ASSUME GoalInv, NEW s \in Sessions, AnyStep(s)
    PROVE  StagedIsCurrent'
<1> USE DEF GoalInv
<1>1. CASE LedgerStep(s)
  BY <1>1, StagedIsCurrentStep DEF LedgerStep, GoalTypeOK
<1>2. CASE GoalStep(s)
  <2>1. ASSUME NEW t \in Sessions \ {s}, pc'[t] = "commit", req'[t].op \in MoveOps
        PROVE  Staged(t)'
    <3> DEFINE r == req[t]
    <3>1. /\ pc[t] = "commit" /\ req'[t] = r /\ plan'[t] = plan[t]
          /\ r \in Requests /\ r.op \in MoveOps
      BY <1>2, <2>1, GoalOthersKept DEF AnyStep, GoalTypeOK, TypeOK, SessionTypeOK
    <3>2. Staged(t)
      BY <3>1 DEF StagedIsCurrent
    <3>3. Touched(r) \subseteq Accounts /\ KeyOf(r) \in Keys /\ KeyOf(r) \in Rows
      BY <3>1, MoveRequest, AccountsAssumption
    <3>4. ASSUME NEW a \in Touched(r)
          PROVE  balance'[a] = balance[a] /\ active'[a] = active[a] /\ reserved'[a] = reserved[a]
      <4>1. a \in Accounts /\ lock[a] = t
        BY <3>1, <3>3 DEF StagedIsCurrent, HoldsItsRows
      <4> QED
        BY <4>1, GoalAccountKept DEF StagedIsCurrent, StagedReserveIsCurrent
    <3>5. recorded[KeyOf(r)] # Nothing \/ lock[KeyOf(r)] # s
      BY <3>2 DEF Staged, Fresh
    <3>6. recorded'[KeyOf(r)] = recorded[KeyOf(r)]
      BY <3>3, <3>5, GoalKeyKept
    <3>7. lock[KeyOf(r)] = t => lock'[KeyOf(r)] = t
      BY <3>3, GoalOthersKept
    <3> QED
      BY <3>1, <3>2, <3>4, <3>6, <3>7, StagedKept
  <2>2. pc'[s] = "commit" => req'[s].op \notin MoveOps
    BY <1>2, OwnGoalStep, AnswerOnlyTells
    DEF StagedReserveIsCurrent, LockReserve, StageReserve, ReserveOps, MoveOps, CashOps
  <2> QED
    BY <2>1, <2>2, GoalHoldsRowsStep DEF StagedIsCurrent
<1> QED
  BY <1>1, <1>2 DEF AnyStep

\* What a contribution or release has staged stays current while its account,
\* its goal and its key are left alone.
LEMMA ReserveStagedKept ==
    ASSUME NEW t \in Sessions, req[t] \in Requests, req[t].op \in ReserveOps, ReserveStaged(t),
           req'[t] = req[t], draft'[t] = draft[t],
           balance'[req[t].acct] = balance[req[t].acct],
           active'[req[t].acct] = active[req[t].acct],
           reserved'[req[t].acct] = reserved[req[t].acct],
           goal'[req[t].goal] = goal[req[t].goal],
           alloc'[req[t].goal] = alloc[req[t].goal],
           progress'[req[t].goal] = progress[req[t].goal],
           Keyed(req[t]) => /\ recorded'[KeyOf(req[t])] = recorded[KeyOf(req[t])]
                            /\ lock'[KeyOf(req[t])] = lock[KeyOf(req[t])]
    PROVE  ReserveStaged(t)'
<1>1. Allowed(req[t])' <=> Allowed(req[t])
  BY DEF Allowed, CanContribute, CanRelease, Coherent
<1>2. ReserveDraft(req[t])' = ReserveDraft(req[t])
  BY DEF ReserveDraft
<1>3. Keyed(req[t]) => (Fresh(req[t])' <=> Fresh(req[t]))
  BY DEF Fresh
<1> QED
  BY <1>1, <1>2, <1>3 DEF ReserveStaged

LEMMA OthersReserveStaged ==
    ASSUME GoalInv, NEW s \in Sessions, AnyStep(s), NEW t \in Sessions \ {s},
           pc'[t] = "commit", req'[t].op \in ReserveOps
    PROVE  ReserveStaged(t)'
<1> USE DEF GoalInv
<1> DEFINE r == req[t]
<1>1. /\ pc[t] = "commit" /\ req'[t] = r /\ draft'[t] = draft[t]
      /\ r \in Requests /\ r # Nothing /\ r.op \in ReserveOps
  BY GoalOthersKept, RowIsSomething DEF GoalTypeOK, TypeOK, SessionTypeOK
<1>2. ReserveStaged(t) /\ lock[r.acct] = t /\ lock[r.goal] = t
  BY <1>1 DEF StagedReserveIsCurrent, HoldsItsGoal
<1>3. r.acct \in Accounts /\ r.goal \in Goals
  BY <1>1, ReserveRequest
<1>4. balance'[r.acct] = balance[r.acct] /\ active'[r.acct] = active[r.acct]
      /\ reserved'[r.acct] = reserved[r.acct]
  BY <1>2, <1>3, GoalAccountKept DEF StagedIsCurrent, StagedReserveIsCurrent
<1>5. goal'[r.goal] = goal[r.goal] /\ alloc'[r.goal] = alloc[r.goal]
      /\ progress'[r.goal] = progress[r.goal]
  BY <1>2, <1>3, GoalRowKept DEF StagedReserveIsCurrent
<1>6. ASSUME Keyed(r)
      PROVE  recorded'[KeyOf(r)] = recorded[KeyOf(r)] /\ lock'[KeyOf(r)] = lock[KeyOf(r)]
  <2>1. KeyOf(r) \in Keys /\ KeyOf(r) \in Rows /\ lock[KeyOf(r)] = t
    BY <1>1, <1>2, <1>6, ReserveRequest DEF ReserveStaged
  <2> QED
    BY <2>1, GoalKeyKept, GoalOthersKept
<1> HIDE DEF r
<1> QED
  BY <1>1, <1>2, <1>4, <1>5, <1>6, ReserveStagedKept DEF r

\* StageReserve stages what is current.
LEMMA OwnReserveStaged ==
    ASSUME GoalInv, NEW s \in Sessions, StageReserve(s)
    PROVE  ReserveStaged(s)'
<1> DEFINE r == req[s]
<1>1. r \in Requests /\ r.op \in ReserveOps /\ req' = req
  BY DEF StageReserve, GoalInv, GoalTypeOK, TypeOK, SessionTypeOK
<1>2. UNCHANGED <<balance, active, reserved, recorded, goal, alloc, progress>>
  BY DEF StageReserve, ledgerVars, goalRows
<1>3. Allowed(r)' <=> Allowed(r)
  BY <1>1, <1>2 DEF Allowed, CanContribute, CanRelease, Coherent
<1>4. ReserveDraft(r)' = ReserveDraft(r)
  BY <1>1, <1>2 DEF ReserveDraft
<1>5. Fresh(r)' <=> Fresh(r)
  BY <1>1, <1>2 DEF Fresh
<1>6. draft'[s] = ReserveDraft(r)
  BY DEF StageReserve, GoalInv, GoalTypeOK
<1>7. Keyed(r) => lock'[KeyOf(r)] = s
  BY <1>1, ReserveRequest
  DEF StageReserve, Take, GoalInv, GoalTypeOK, TypeOK, SessionTypeOK, LockTypeOK
<1> QED
  BY <1>1, <1>3, <1>4, <1>5, <1>6, <1>7 DEF ReserveStaged, StageReserve

\* An edit never has the amount of the goal among its dirty columns.
LEMMA OwnEdit ==
    ASSUME GoalInv, NEW s \in Sessions, AnyStep(s), pc'[s] = "write"
    PROVE  "current" \notin draft'[s].dirty
<1> USE DEF GoalInv, GoalTypeOK, TypeOK, SessionTypeOK
<1>1. CASE LedgerStep(s)
  BY <1>1, OwnLedgerStep DEF NoDraft
<1>2. ASSUME NEW r \in Requests, BeginRetarget(s, r)
      PROVE  "current" \notin draft'[s].dirty
  <2> DEFINE seen == goal[r.goal]
             status == IF seen.current >= r.amount THEN "completed" ELSE seen.status
             row == [seen EXCEPT !.target = r.amount, !.status = status]
  <2>1. seen \in GoalRow
    BY <1>2, GoalsAssumption DEF BeginRetarget, EditOps
  <2>2. draft'[s] = DraftOf(seen, row, 0, 0)
    BY <1>2 DEF BeginRetarget, EditDraft
  <2> HIDE DEF seen, status
  <2>3. row["current"] = seen["current"]
    BY <2>1 DEF GoalRow
  <2> HIDE DEF row
  <2> QED
    BY <2>2, <2>3 DEF DraftOf
<1>3. ASSUME NEW r \in Requests, BeginDelete(s, r)
      PROVE  "current" \notin draft'[s].dirty
  <2> DEFINE seen == goal[r.goal]
             row == [seen EXCEPT !.live = FALSE, !.status = "cancelled"]
  <2>1. seen \in GoalRow
    BY <1>3, GoalsAssumption DEF BeginDelete, EditOps
  <2>2. draft'[s] = DraftOf(seen, row, 0, 0)
    BY <1>3 DEF BeginDelete, EditDraft
  <2> HIDE DEF seen
  <2>3. row["current"] = seen["current"]
    BY <2>1 DEF GoalRow
  <2> HIDE DEF row
  <2> QED
    BY <2>2, <2>3 DEF DraftOf
<1>4. ASSUME GoalStep(s), \A r \in Requests : ~BeginRetarget(s, r) /\ ~BeginDelete(s, r)
      PROVE  FALSE
  BY <1>4
  DEF GoalStep, DecideReserve, ReserveEarlyReplay, BeginReserve, Enter, LockReserve,
      ReserveReplay, StageReserve, RefuseReserve, AnswerRelease, CommitReserve, WriteGoal, Leave,
      sessionVars
<1> QED
  BY <1>1, <1>2, <1>3, <1>4 DEF AnyStep

LEMMA StagedReserveStep ==
    ASSUME GoalInv, NEW s \in Sessions, AnyStep(s)
    PROVE  StagedReserveIsCurrent'
<1>1. HoldsItsGoal'
  BY HoldsItsGoalStep
<1>2. ASSUME NEW t \in Sessions, pc'[t] = "commit", req'[t].op \in ReserveOps
      PROVE  ReserveStaged(t)'
  <2>1. CASE t # s
    BY <1>2, <2>1, OthersReserveStaged
  <2>2. CASE t = s
    <3>1. GoalStep(s)
      BY <1>2, <2>2, OwnLedgerStep DEF AnyStep, GoalInv
    <3>2. StageReserve(s) \/ AnswerRelease(s)
      BY <1>2, <2>2, <3>1, OwnGoalStep
      DEF GoalInv, StagedReserveIsCurrent, LockReserve, GoalTypeOK, TypeOK, SessionTypeOK
    <3>3. ASSUME AnswerRelease(s)
          PROVE  ReserveStaged(s)'
      <4>1. ReserveStaged(s)
        BY <3>3, AnswerOnlyTells DEF GoalInv, StagedReserveIsCurrent, ReserveOps
      <4> QED
        BY <3>3, <4>1, AnswerOnlyTells
        DEF ReserveStaged, Allowed, CanContribute, CanRelease, Coherent, ReserveDraft, Fresh
    <3> QED
      BY <2>2, <3>2, <3>3, OwnReserveStaged
  <2> QED
    BY <2>1, <2>2
<1>3. ASSUME NEW t \in Sessions, pc'[t] = "write"
      PROVE  "current" \notin draft'[t].dirty
  <2>1. CASE t # s
    BY <1>3, <2>1, GoalOthersKept DEF GoalInv, StagedReserveIsCurrent
  <2>2. CASE t = s
    BY <1>3, <2>2, OwnEdit
  <2> QED
    BY <2>1, <2>2
<1> QED
  BY <1>1, <1>2, <1>3 DEF StagedReserveIsCurrent

LEMMA GoalUnchanged ==
    ASSUME GoalInv, UNCHANGED allVars
    PROVE  GoalInv'
<1> USE DEF allVars, goalVars, goalRows
<1>1. UNCHANGED vars
  OBVIOUS
<1>2. StagedIsCurrent' /\ TypeOK'
  BY <1>1, UnchangedVars DEF GoalInv, GoalTypeOK
<1>3. GoalTypeOK'
  BY <1>2 DEF GoalInv, GoalTypeOK
<1>4. \A s \in Sessions : ReserveStaged(s)' <=> ReserveStaged(s)
  BY <1>1 DEF vars, ledgerVars, sessionVars, ReserveStaged, Allowed, CanContribute, CanRelease,
              Coherent, ReserveDraft, Fresh
<1> QED
  BY <1>1, <1>2, <1>3, <1>4
  DEF GoalInv, StagedReserveIsCurrent, HoldsItsGoal, vars, ledgerVars, sessionVars

LEMMA GoalInvCorrect == GoalSpec => []GoalInv
<1>1. GoalInit => GoalInv
  BY GoalTypeInit, StagedInit
  DEF GoalInv, GoalInit, Init, StagedReserveIsCurrent, HoldsItsGoal
<1>2. GoalInv /\ [GoalNext]_allVars => GoalInv'
  <2>1. ASSUME GoalInv, NEW s \in Sessions, AnyStep(s)
        PROVE  GoalInv'
    BY <2>1, GoalTypeStep, LedgerTypeStep, GoalStagedStep, StagedReserveStep
    DEF GoalInv, AnyStep
  <2> QED
    BY <2>1, GoalUnchanged DEF GoalNext, AnyStep
<1> QED
  BY <1>1, <1>2, PTL DEF GoalSpec

(***************************************************************************)
(* What a contribution or release decided still holds when it commits, for *)
(* any number of sessions, accounts and goals.                             *)
(***************************************************************************)
THEOREM ReserveStaysCurrent == GoalSpec => []StagedReserveIsCurrent
  BY GoalInvCorrect, PTL DEF GoalInv

-----------------------------------------------------------------------------
(* The sums *)

\* What a commit of a contribution or release writes.
LEMMA CommitReserveIs ==
    ASSUME GoalInv, NEW s \in Sessions, CommitReserve(s)
    PROVE  LET r == req[s] IN
           /\ r \in Requests /\ r.op \in ReserveOps /\ Allowed(r)
           /\ r.goal \in Goals /\ r.acct \in Accounts /\ Signed(r) \in Int /\ Signed(r) # 0
           /\ goal'[r.goal] \in GoalRow
           /\ \A h \in Goals \ {r.goal} : goal'[h] = goal[h]
           /\ goal'[r.goal].current = goal[r.goal].current + Signed(r)
           /\ goal'[r.goal].target = goal[r.goal].target
           /\ goal'[r.goal].status = IF goal[r.goal].target - goal'[r.goal].current > 0
                                     THEN "active" ELSE "completed"
<1> DEFINE r == req[s]
           seen == goal[r.goal]
           row == Progressed(seen, seen.current + Signed(r))
           d == draft[s]
<1>1. r \in Requests /\ r.op \in ReserveOps /\ d \in Draft
  BY DEF CommitReserve, GoalInv, GoalTypeOK, TypeOK, SessionTypeOK
<1>2. r.goal \in Goals /\ r.acct \in Accounts /\ Signed(r) \in Int /\ Signed(r) # 0
  BY <1>1, ReserveRequest
<1>3. Allowed(r) /\ d = ReserveDraft(r)
  BY <1>1 DEF CommitReserve, GoalInv, StagedReserveIsCurrent, ReserveStaged
<1>4. d.row = row /\ d.dirty = {c \in Columns : d.row[c] # seen[c]}
  BY <1>1, <1>3, ReserveDraftIs DEF GoalInv
<1>5. seen \in GoalRow /\ seen.current + Signed(r) \in Int
  BY <1>2 DEF GoalInv, GoalTypeOK, GoalRow
<1>6. /\ goal' \in [Goals -> GoalRow]
      /\ \A h \in Goals \ {r.goal} : goal'[h] = goal[h]
      /\ \A c \in Columns : goal'[r.goal][c] = IF c \in d.dirty THEN d.row[c] ELSE seen[c]
  BY <1>1, <1>2, WrittenIs DEF CommitReserve, GoalInv, GoalTypeOK
<1>7. \A c \in Columns : goal'[r.goal][c] = row[c]
  BY <1>4, <1>6
<1>8. /\ row.current = seen.current + Signed(r)
      /\ row.target = seen.target
      /\ row.status = IF seen.target - row.current > 0 THEN "active" ELSE "completed"
  BY <1>5, ProgressedRow
<1> HIDE DEF row, seen, d, r
<1>9. goal'[r.goal].current = row.current /\ goal'[r.goal].target = row.target
      /\ goal'[r.goal].status = row.status
  BY <1>7 DEF Columns
<1> QED
  BY <1>1, <1>2, <1>3, <1>6, <1>8, <1>9 DEF r, seen

\* An edit changes no goal's amount.
LEMMA EditKeepsCurrent ==
    ASSUME GoalInv, NEW s \in Sessions, WriteGoal(s), NEW g \in Goals
    PROVE  goal'[g].current = goal[g].current
<1>1. req[s].goal \in Goals /\ draft[s] \in Draft /\ "current" \notin draft[s].dirty
  BY GoalsAssumption
  DEF WriteGoal, GoalInv, GoalTypeOK, TypeOK, SessionTypeOK, StagedReserveIsCurrent
<1>2. /\ \A h \in Goals \ {req[s].goal} : goal'[h] = goal[h]
      /\ \A c \in Columns : goal'[req[s].goal][c] =
           IF c \in draft[s].dirty THEN draft[s].row[c] ELSE goal[req[s].goal][c]
  BY <1>1, WrittenIs DEF WriteGoal, GoalInv, GoalTypeOK
<1> QED
  BY <1>1, <1>2 DEF Columns

\* Every other step leaves goals, sums and reserves alone.
LEMMA OtherStepsKeepGoals ==
    ASSUME NEW s \in Sessions, AnyStep(s), ~CommitReserve(s)
    PROVE  /\ alloc' = alloc /\ progress' = progress /\ reserved' = reserved
           /\ ~WriteGoal(s) => goal' = goal
<1>1. CASE LedgerStep(s)
  BY <1>1
  DEF LedgerStep, goalRows, SessionStep, Serve, Decide, Execute, Adjust, AdjustNothing, Replay,
      Refuse, Stage, Fail, Commit, Flip, EarlyReplay, Begin, BeginFlip, LockFirst, LockSecond,
      ledgerVars
<1>2. CASE GoalStep(s)
  <2>1. reserved' = reserved
    BY <1>2, GoalStepAccounts
  <2> QED
    BY <1>2, <2>1, Zenon
    DEF GoalStep, DecideReserve, ReserveEarlyReplay, BeginReserve, BeginRetarget, BeginDelete,
        EditDraft, LockReserve, ReserveReplay, StageReserve, RefuseReserve, AnswerRelease,
        WriteGoal, goalVars, goalRows
<1> QED
  BY <1>1, <1>2 DEF AnyStep

(***************************************************************************)
(* The cached amount of every goal is the sum of its transactions.         *)
(***************************************************************************)
THEOREM CurrentStaysProgress == GoalSpec => []CurrentIsProgress
<1>1. GoalInit => CurrentIsProgress
  BY DEF GoalInit, NewGoal, CurrentIsProgress
<1>2. ASSUME GoalInv, CurrentIsProgress, NEW s \in Sessions, AnyStep(s)
      PROVE  CurrentIsProgress'
  <2> USE DEF CurrentIsProgress
  <2>1. CASE CommitReserve(s)
    <3>1. /\ req[s].goal \in Goals
          /\ \A h \in Goals \ {req[s].goal} : goal'[h] = goal[h]
          /\ goal'[req[s].goal].current = goal[req[s].goal].current + Signed(req[s])
      BY <1>2, <2>1, CommitReserveIs
    <3>2. progress' = [progress EXCEPT ![req[s].goal] = progress[req[s].goal] + Signed(req[s])]
      BY <2>1 DEF CommitReserve
    <3> QED
      BY <1>2, <3>1, <3>2 DEF GoalInv, GoalTypeOK
  <2>2. CASE WriteGoal(s)
    BY <1>2, <2>2, EditKeepsCurrent DEF WriteGoal
  <2>3. CASE ~CommitReserve(s) /\ ~WriteGoal(s)
    BY <1>2, <2>3, OtherStepsKeepGoals
  <2> QED
    BY <2>1, <2>2, <2>3
<1>3. CurrentIsProgress /\ UNCHANGED allVars => CurrentIsProgress'
  BY DEF CurrentIsProgress, allVars, goalVars, goalRows
<1>4. GoalInv /\ CurrentIsProgress /\ [GoalNext]_allVars => CurrentIsProgress'
  BY <1>2, <1>3 DEF GoalNext, AnyStep
<1> QED
  BY GoalInvCorrect, <1>1, <1>4, PTL DEF GoalSpec

(***************************************************************************)
(* The checks that create_release repeats after its writes never fail.     *)
(***************************************************************************)
THEOREM PostVerificationAlwaysHolds == GoalSpec => []PostVerificationHolds
<1>1. ASSUME GoalInv, CurrentIsProgress
      PROVE  PostVerificationHolds
  <2> SUFFICES ASSUME NEW s \in Sessions, pc[s] = "commit", req[s].op = "release"
               PROVE  LET r == req[s]
                          d == draft[s]
                      IN  /\ alloc[r.goal][r.acct] + Signed(r) = d.pair
                          /\ reserved[r.acct] + Signed(r) = d.account
                          /\ progress[r.goal] + Signed(r) = d.row.current
    BY DEF PostVerificationHolds
  <2> DEFINE r == req[s]
  <2>1. r \in Requests /\ r.op \in ReserveOps
    BY <1>1 DEF GoalInv, GoalTypeOK, TypeOK, SessionTypeOK, ReserveOps
  <2>2. draft[s] = ReserveDraft(r)
    BY <1>1, <2>1 DEF GoalInv, StagedReserveIsCurrent, ReserveStaged
  <2>3. r.goal \in Goals /\ Signed(r) \in Int
    BY <2>1, ReserveRequest
  <2>4. goal[r.goal] \in GoalRow /\ goal[r.goal].current = progress[r.goal]
    BY <1>1, <2>3 DEF GoalInv, GoalTypeOK, CurrentIsProgress
  <2> HIDE DEF r
  <2>5. draft[s].row.current = progress[r.goal] + Signed(r)
    <3> DEFINE n == goal[r.goal].current + Signed(r)
    <3>1. draft[s].row = Progressed(goal[r.goal], n)
      BY <1>1, <2>1, <2>2, ReserveDraftIs DEF GoalInv
    <3>2. n \in Int /\ n = progress[r.goal] + Signed(r)
      BY <2>3, <2>4 DEF GoalRow
    <3> HIDE DEF n
    <3> QED
      BY <2>4, <3>1, <3>2, ProgressedRow
  <2> QED
    BY <1>1, <2>1, <2>2, <2>5, ReserveDraftIs DEF GoalInv, r
<1> QED
  BY <1>1, GoalInvCorrect, CurrentStaysProgress, PTL

\* A commit leaves its account, its goal and their pair not below zero.
LEMMA CommitReserveFits ==
    ASSUME GoalInv, CurrentIsProgress, NoNegativeReserve, NEW s \in Sessions, CommitReserve(s)
    PROVE  LET r == req[s] IN
           /\ alloc[r.goal][r.acct] + Signed(r) >= 0
           /\ progress[r.goal] + Signed(r) >= 0
           /\ reserved[r.acct] + Signed(r) >= 0
<1> DEFINE r == req[s]
<1>1. r \in Requests /\ r.op \in ReserveOps /\ Allowed(r) /\ r.goal \in Goals /\ r.acct \in Accounts
  BY CommitReserveIs
<1>2. r.amount \in Nat
  BY <1>1, ReserveRequest
<1>3. /\ alloc[r.goal][r.acct] \in Int /\ progress[r.goal] \in Int /\ reserved[r.acct] \in Int
      /\ balance[r.acct] \in Int
      /\ alloc[r.goal][r.acct] >= 0 /\ progress[r.goal] >= 0 /\ reserved[r.acct] >= 0
  BY <1>1 DEF GoalInv, GoalTypeOK, TypeOK, LedgerTypeOK, NoNegativeReserve
<1>4. CASE r.op = "contribute"
  BY <1>2, <1>3, <1>4 DEF Signed
<1>5. CASE r.op # "contribute"
  <2>1. /\ r.amount <= alloc[r.goal][r.acct]
        /\ alloc[r.goal][r.acct] <= reserved[r.acct]
        /\ alloc[r.goal][r.acct] <= progress[r.goal]
    BY <1>1, <1>5 DEF Allowed, CanRelease, Coherent
  <2> QED
    BY <1>2, <1>3, <1>5, <2>1 DEF Signed
<1> QED
  BY <1>4, <1>5

(***************************************************************************)
(* No goal, no account and no pair of them ever holds a negative reserve.  *)
(***************************************************************************)
THEOREM ReservesNeverNegative == GoalSpec => []NoNegativeReserve
<1>1. GoalInit => NoNegativeReserve
  BY NoReserveAssumption DEF GoalInit, Init, NoNegativeReserve
<1>2. ASSUME GoalInv, CurrentIsProgress, NoNegativeReserve, NEW s \in Sessions, AnyStep(s)
      PROVE  NoNegativeReserve'
  <2>1. CASE CommitReserve(s)
    <3> DEFINE r == req[s]
               g == r.goal
               n == alloc[g][r.acct] + Signed(r)
    <3>1. /\ g \in Goals /\ r.acct \in Accounts
          /\ n >= 0 /\ progress[g] + Signed(r) >= 0 /\ reserved[r.acct] + Signed(r) >= 0
      BY <1>2, <2>1, CommitReserveIs, CommitReserveFits
    <3>2. alloc' = [alloc EXCEPT ![g] = [alloc[g] EXCEPT ![r.acct] = n]]
      BY <2>1 DEF CommitReserve
    <3>3. /\ progress' = [progress EXCEPT ![g] = progress[g] + Signed(r)]
          /\ reserved' = [reserved EXCEPT ![r.acct] = reserved[r.acct] + Signed(r)]
      BY <2>1 DEF CommitReserve
    <3> HIDE DEF n, g, r
    <3>4. \A h \in Goals, a \in Accounts : alloc'[h][a] >= 0
      BY <1>2, <3>1, <3>2 DEF GoalInv, GoalTypeOK, NoNegativeReserve
    <3>5. /\ \A h \in Goals : progress'[h] >= 0
          /\ \A a \in Accounts : reserved'[a] >= 0
      BY <1>2, <3>1, <3>3 DEF GoalInv, GoalTypeOK, TypeOK, LedgerTypeOK, NoNegativeReserve
    <3> QED
      BY <3>4, <3>5 DEF NoNegativeReserve
  <2>2. CASE ~CommitReserve(s)
    BY <1>2, <2>2, OtherStepsKeepGoals DEF NoNegativeReserve
  <2> QED
    BY <2>1, <2>2
<1>3. NoNegativeReserve /\ UNCHANGED allVars => NoNegativeReserve'
  BY DEF NoNegativeReserve, allVars, vars, ledgerVars, goalVars, goalRows
<1>4. GoalInv /\ CurrentIsProgress /\ NoNegativeReserve /\ [GoalNext]_allVars => NoNegativeReserve'
  BY <1>2, <1>3 DEF GoalNext, AnyStep
<1> QED
  BY GoalInvCorrect, CurrentStaysProgress, <1>1, <1>4, PTL DEF GoalSpec

(***************************************************************************)
(* A step that reserves more of an account leaves its reserves within its  *)
(* balance, whatever it raced with.                                        *)
(***************************************************************************)
THEOREM ReservesAlwaysGrowFunded == GoalSpec => ReservesGrowFunded
<1> DEFINE Funding == \A a \in Accounts : reserved'[a] > reserved[a] => reserved'[a] <= balance'[a]
<1>1. ASSUME GoalInv, NEW s \in Sessions, AnyStep(s)
      PROVE  Funding
  <2>1. CASE CommitReserve(s)
    <3> DEFINE r == req[s]
    <3>1. r \in Requests /\ r.op \in ReserveOps /\ Allowed(r) /\ r.acct \in Accounts
      BY <1>1, <2>1, CommitReserveIs
    <3>2. r.amount \in Nat \ {0}
      BY <3>1, ReserveRequest
    <3>3. reserved' = [reserved EXCEPT ![r.acct] = reserved[r.acct] + Signed(r)]
          /\ balance' = balance
      BY <2>1 DEF CommitReserve
    <3>4. reserved \in [Accounts -> Int] /\ balance \in [Accounts -> Int]
      BY <1>1 DEF GoalInv, GoalTypeOK, TypeOK, LedgerTypeOK
    <3>5. CASE r.op = "contribute"
      <4>1. r.amount <= balance[r.acct] - reserved[r.acct] /\ Signed(r) = r.amount
        BY <3>1, <3>5 DEF Allowed, CanContribute, Signed
      <4> HIDE DEF r
      <4> QED
        BY <3>1, <3>2, <3>3, <3>4, <4>1
    <3>6. CASE r.op # "contribute"
      <4>1. Signed(r) = -r.amount
        BY <3>6 DEF Signed
      <4> HIDE DEF r
      <4> QED
        BY <3>1, <3>2, <3>3, <3>4, <4>1
    <3> QED
      BY <3>5, <3>6
  <2>2. CASE ~CommitReserve(s)
    <3>1. reserved' = reserved /\ reserved \in [Accounts -> Int]
      BY <1>1, <2>2, OtherStepsKeepGoals DEF GoalInv, GoalTypeOK, TypeOK, LedgerTypeOK
    <3> QED
      BY <3>1
  <2> QED
    BY <2>1, <2>2
<1>2. GoalInv /\ [GoalNext]_allVars => [Funding]_allVars
  BY <1>1 DEF GoalNext, AnyStep
<1> QED
  BY GoalInvCorrect, <1>2, PTL DEF GoalSpec, ReservesGrowFunded

(***************************************************************************)
(* A goal is never filled beyond its target, and the step that changes its *)
(* amount completes it exactly when it reaches the target.                 *)
(***************************************************************************)
THEOREM AlwaysFillsWithinTarget == GoalSpec => FillsWithinTarget
<1> DEFINE Filling ==
        \A g \in Goals :
          goal'[g].current # goal[g].current =>
            /\ goal'[g].current > goal[g].current => goal'[g].current <= goal'[g].target
            /\ goal'[g].status = "completed" <=> goal'[g].current >= goal'[g].target
<1>1. ASSUME GoalInv, NEW s \in Sessions, AnyStep(s)
      PROVE  Filling
  <2>1. CASE CommitReserve(s)
    <3> DEFINE r == req[s]
               old == goal[r.goal]
               new == goal'[r.goal]
    <3>1. /\ r \in Requests /\ r.op \in ReserveOps /\ Allowed(r)
          /\ r.goal \in Goals /\ Signed(r) \in Int
          /\ new \in GoalRow
          /\ \A h \in Goals \ {r.goal} : goal'[h] = goal[h]
          /\ new.current = old.current + Signed(r)
          /\ new.target = old.target
          /\ new.status = IF old.target - new.current > 0 THEN "active" ELSE "completed"
      BY <1>1, <2>1, CommitReserveIs
    <3>2. r.amount \in Nat \ {0} /\ old \in GoalRow
      BY <1>1, <3>1, ReserveRequest DEF GoalInv, GoalTypeOK
    <3>3. new.current > old.current => new.current <= new.target
      <4>1. CASE r.op = "contribute"
        <5>1. r.amount <= old.target - old.current /\ Signed(r) = r.amount
          BY <3>1, <4>1 DEF Allowed, CanContribute, Signed
        <5> HIDE DEF r, old, new
        <5> QED
          BY <3>1, <3>2, <5>1 DEF GoalRow
      <4>2. CASE r.op # "contribute"
        <5>1. Signed(r) = -r.amount
          BY <4>2 DEF Signed
        <5> HIDE DEF r, old, new
        <5> QED
          BY <3>1, <3>2, <5>1 DEF GoalRow
      <4> QED
        BY <4>1, <4>2
    <3>4. new.status = "completed" <=> new.current >= new.target
      <4> HIDE DEF r, old, new
      <4> QED
        BY <3>1, <3>2 DEF GoalRow
    <3> QED
      BY <3>1, <3>3, <3>4
  <2>2. CASE WriteGoal(s)
    BY <1>1, <2>2, EditKeepsCurrent
  <2>3. CASE ~CommitReserve(s) /\ ~WriteGoal(s)
    BY <1>1, <2>3, OtherStepsKeepGoals
  <2> QED
    BY <2>1, <2>2, <2>3
<1>2. GoalInv /\ [GoalNext]_allVars => [Filling]_allVars
  BY <1>1 DEF GoalNext, AnyStep
<1> QED
  BY GoalInvCorrect, <1>2, PTL DEF GoalSpec, FillsWithinTarget

-----------------------------------------------------------------------------
(* Answers *)

\* A new answer to a contribution is about its own record.
LEMMA NewContributionAnswer ==
    ASSUME GoalInv, NEW s \in Sessions, AnyStep(s),
           NEW k \in Keys, NEW r \in told'[k], r \notin told[k], r.op = "contribute"
    PROVE  recorded'[k] # Nothing /\ recorded'[k].req = r
<1> USE DEF GoalInv, GoalTypeOK, TypeOK, LedgerTypeOK, SessionTypeOK
<1>1. ASSUME NEW q \in Requests, ReserveEarlyReplay(s, q)
      PROVE  recorded'[k] # Nothing /\ recorded'[k].req = r
  BY <1>1 DEF ReserveEarlyReplay, Tell, Known, Same, Fresh
<1>2. CASE ReserveReplay(s)
  BY <1>2 DEF ReserveReplay, Tell, Known, Same, Fresh
<1>3. CASE CommitReserve(s)
  <2> DEFINE zero == [a \in Accounts |-> 0]
             row == [req |-> req[s], post |-> zero]
  <2>1. req[s] \in Requests /\ row \in Row /\ row # Nothing
    BY <1>3, RowIsSomething DEF CommitReserve, Row
  <2>2. /\ r = req[s] /\ k = KeyOf(r)
        /\ recorded' = [recorded EXCEPT ![KeyOf(req[s])] = row]
    BY <1>3 DEF CommitReserve, Tell
  <2> QED
    BY <2>1, <2>2
<1>4. ASSUME LedgerStep(s)
      PROVE  FALSE
  <2>1. ASSUME NEW q \in Requests, q.op \in MoveOps, Tell(q)
        PROVE  FALSE
    BY <2>1 DEF Tell, MoveOps, CashOps
  <2>2. ASSUME UNCHANGED told
        PROVE  FALSE
    BY <2>2
  <2>3. ~AdjustNothing(s) /\ ~Replay(s) /\ ~Commit(s)
    BY <2>1 DEF AdjustNothing, Replay, Commit, MoveOps
  <2>4. \A q \in Requests : ~EarlyReplay(s, q)
    BY <2>1 DEF EarlyReplay, MoveOps
  <2> QED
    BY <1>4, <2>2, <2>3, <2>4
    DEF LedgerStep, SessionStep, Serve, Decide, Execute, Adjust, Refuse, Stage, Fail, Flip,
        Begin, BeginFlip, LockFirst, LockSecond, ledgerVars
<1>5. told' # told
  OBVIOUS
<1>6. ~AnswerRelease(s)
  BY AnswerOnlyTells DEF Tell
<1> QED
  BY <1>1, <1>2, <1>3, <1>4, <1>5, <1>6, Zenon
  DEF AnyStep, GoalStep, DecideReserve, BeginReserve, BeginRetarget, BeginDelete, EditDraft,
      LockReserve, StageReserve, RefuseReserve, WriteGoal, ledgerVars

(***************************************************************************)
(* A client told that its contribution is done finds its key recorded for  *)
(* that very command.                                                      *)
(***************************************************************************)
THEOREM ContributionSuccessStaysOwn == GoalSpec => []ContributionSuccessIsOwn
<1>1. GoalInit => ContributionSuccessIsOwn
  BY DEF GoalInit, Init, ContributionSuccessIsOwn
<1>2. ASSUME GoalInv, ContributionSuccessIsOwn, NEW s \in Sessions, AnyStep(s)
      PROVE  ContributionSuccessIsOwn'
  <2> SUFFICES ASSUME NEW k \in Keys, NEW r \in told'[k], r.op = "contribute"
               PROVE  recorded'[k] # Nothing /\ recorded'[k].req = r
    BY DEF ContributionSuccessIsOwn
  <2>1. CASE r \in told[k]
    <3>1. recorded[k] # Nothing /\ recorded[k].req = r
      BY <1>2, <2>1 DEF ContributionSuccessIsOwn
    <3>2. recorded'[k] = recorded[k]
      BY <1>2, <3>1, GoalKeyKept DEF GoalInv
    <3> QED
      BY <3>1, <3>2
  <2>2. CASE r \notin told[k]
    BY <1>2, <2>2, NewContributionAnswer
  <2> QED
    BY <2>1, <2>2
<1>3. ContributionSuccessIsOwn /\ UNCHANGED allVars => ContributionSuccessIsOwn'
  BY DEF ContributionSuccessIsOwn, allVars, vars, ledgerVars
<1>4. GoalInv /\ ContributionSuccessIsOwn /\ [GoalNext]_allVars => ContributionSuccessIsOwn'
  BY <1>2, <1>3 DEF GoalNext, AnyStep
<1> QED
  BY GoalInvCorrect, <1>1, <1>4, PTL DEF GoalSpec

-----------------------------------------------------------------------------
(* The order of the locks *)

(***************************************************************************)
(* A session that waits for its second row holds its first account only,   *)
(* one that waits for a key holds no key, and one that waits for its first *)
(* row, or for the row of an edit, holds nothing.                          *)
(***************************************************************************)
HeldInOrder(t, row) ==
    \/ pc[t] = "second" /\ row = FirstRow(req[t])
    \/ pc[t] = "ready" /\ row \notin Keys
    \/ pc[t] = "commit"

HoldsInOrder(t) ==
    /\ pc[t] = "second" => req[t].op \in {"transfer"} \cup ReserveOps
    /\ \A row \in Rows : lock[row] = t => HeldInOrder(t, row)

LocksInOrder == \A t \in Sessions : HoldsInOrder(t)

GoalWaitInv == GoalInv /\ LocksInOrder

\* A step of one session gives no row to another.
LEMMA NoRowForOthers ==
    ASSUME GoalTypeOK, NEW s \in Sessions, AnyStep(s), NEW t \in Sessions \ {s}, NEW row \in Rows,
           lock'[row] = t
    PROVE  lock[row] = t
<1> USE DEF GoalTypeOK, TypeOK, SessionTypeOK, LockTypeOK
<1>1. CASE UNCHANGED lock
  BY <1>1
<1>2. CASE ReleaseAll(s)
  BY <1>2, NobodyAssumption DEF ReleaseAll
<1>3. ASSUME NEW x, Take(s, x)
      PROVE  lock[row] = t
  BY <1>3 DEF Take
<1>4. GoalStep(s) => UNCHANGED lock \/ ReleaseAll(s) \/ \E x : Take(s, x)
  BY Zenon DEF GoalStep, DecideReserve, ReserveEarlyReplay, BeginReserve, BeginRetarget, BeginDelete,
         EditDraft, Enter, LockReserve, ReserveReplay, StageReserve, RefuseReserve, AnswerRelease,
         CommitReserve, WriteGoal, Leave, sessionVars
<1>5. SessionStep(s) => UNCHANGED lock \/ ReleaseAll(s) \/ \E x : Take(s, x)
  BY DEF SessionStep, Serve, Decide, Execute, Adjust, AdjustNothing, Replay, Refuse, Stage, Fail,
         Commit, Flip, EarlyReplay, Begin, BeginFlip, Enter, LockFirst, LockSecond, Leave,
         sessionVars
<1> QED
  BY <1>1, <1>2, <1>3, <1>4, <1>5 DEF AnyStep, LedgerStep

\* What the session that steps holds afterwards.
LEMMA OwnLocksInOrder ==
    ASSUME GoalInv, LocksInOrder, NEW s \in Sessions, AnyStep(s)
    PROVE  HoldsInOrder(s)'
<1> USE DEF GoalInv, GoalTypeOK, TypeOK, SessionTypeOK, LockTypeOK
<1>1. HoldsInOrder(s)
  BY DEF LocksInOrder
<1>2. ASSUME Leave(s) PROVE HoldsInOrder(s)'
  BY <1>2, NobodyAssumption DEF Leave, ReleaseAll, HoldsInOrder
<1>3. ASSUME NEW r, NEW stage \in {"first", "write"}, Enter(s, r, stage), UNCHANGED lock PROVE HoldsInOrder(s)'
  <2>1. pc'[s] = stage /\ pc[s] = "idle"
    BY <1>3 DEF Enter
  <2> QED
    BY <1>1, <1>3, <2>1 DEF HoldsInOrder, HeldInOrder
<1>4. ASSUME UNCHANGED <<lock, pc, req>> PROVE HoldsInOrder(s)'
  BY <1>1, <1>4 DEF HoldsInOrder, HeldInOrder
<1>5. ASSUME pc'[s] = "commit" PROVE HoldsInOrder(s)'
  BY <1>5 DEF HoldsInOrder, HeldInOrder
<1>6. ASSUME NEW row \in Rows, row \notin Keys, Take(s, row), UNCHANGED req,
             \/ pc[s] = "first" /\ pc'[s] = "ready"
             \/ /\ pc[s] = "first" /\ pc'[s] = "second" /\ row = FirstRow(req[s])
                /\ req[s].op \in {"transfer"} \cup ReserveOps
             \/ /\ pc[s] = "second" /\ pc'[s] = "ready"
      PROVE  HoldsInOrder(s)'
  <2>1. \A x \in Rows : lock'[x] = s => x = row \/ lock[x] = s
    BY <1>6 DEF Take
  <2>2. pc[s] = "second" => FirstRow(req[s]) \notin Keys
    <3> SUFFICES ASSUME pc[s] = "second" PROVE FirstRow(req[s]) \notin Keys
      OBVIOUS
    <3>1. req[s] \in Requests
      OBVIOUS
    <3>2. req[s].acct \in Accounts /\ (req[s].op = "transfer" => req[s].to \in Accounts)
      BY <3>1, RequestsAssumption
    <3> QED
      BY <3>2, AccountsAssumption DEF FirstRow
  <2> QED
    BY <1>1, <1>6, <2>1, <2>2 DEF HoldsInOrder, HeldInOrder
<1>7. CASE LockFirst(s) \/ LockSecond(s)
  <2> DEFINE row == IF pc[s] = "first" THEN FirstRow(req[s]) ELSE SecondRow(req[s])
  <2>1. req[s] \in Requests /\ req[s].op \in MoveOps
    BY <1>7 DEF LockFirst, LockSecond, MoveOps
  <2>2. row \in Accounts
    BY <2>1, <1>7, RequestsAssumption DEF FirstRow, SecondRow, LockFirst, LockSecond
  <2>3. row \in Rows /\ row \notin Keys
    BY <2>2, AccountsAssumption
  <2>4. Take(s, row) /\ UNCHANGED req
    BY <1>7 DEF LockFirst, LockSecond
  <2>5. \/ pc[s] = "first" /\ pc'[s] = "ready"
        \/ pc[s] = "first" /\ pc'[s] = "second" /\ req[s].op = "transfer"
        \/ pc[s] = "second" /\ pc'[s] = "ready"
    BY <1>7 DEF LockFirst, LockSecond
  <2>6. pc[s] = "first" => row = FirstRow(req[s])
    OBVIOUS
  <2> HIDE DEF row
  <2> QED
    BY <1>6, <2>3, <2>4, <2>5, <2>6
<1>8. CASE LockReserve(s)
  <2> DEFINE row == ReserveRow(req[s], pc[s])
  <2>1. req[s] \in Requests /\ req[s].op \in ReserveOps
    BY <1>8 DEF LockReserve
  <2>2. row \in Rows /\ row \notin Keys
    BY <2>1, ReserveRequest, GoalsAssumption, AccountsAssumption DEF ReserveRow
  <2>3. Take(s, row) /\ UNCHANGED req
    BY <1>8 DEF LockReserve
  <2>4. \/ pc[s] = "first" /\ pc'[s] = "second"
        \/ pc[s] = "second" /\ pc'[s] = "ready"
    BY <1>8 DEF LockReserve
  <2>5. pc[s] = "first" => row = FirstRow(req[s])
    BY <2>1 DEF ReserveRow, FirstRow, ReserveOps
  <2> HIDE DEF row
  <2> QED
    BY <1>6, <2>1, <2>2, <2>3, <2>4, <2>5
<1>9. ASSUME NEW r \in Requests,
             \/ ReserveEarlyReplay(s, r) \/ BeginReserve(s, r)
             \/ BeginRetarget(s, r) \/ BeginDelete(s, r)
             \/ EarlyReplay(s, r) \/ Begin(s, r) \/ BeginFlip(s, r)
      PROVE  HoldsInOrder(s)'
  <2>1. \/ UNCHANGED <<lock, pc, req>>
        \/ (Enter(s, r, "first") \/ Enter(s, r, "write")) /\ UNCHANGED lock
    BY <1>9 DEF ReserveEarlyReplay, BeginReserve, BeginRetarget, BeginDelete, EditDraft,
                EarlyReplay, Begin, BeginFlip, sessionVars
  <2> QED
    BY <1>3, <1>4, <2>1
<1>10. CASE Execute(s) \/ Adjust(s) \/ StageReserve(s)
  <2>1. pc'[s] = "commit"
    BY <1>10 DEF Execute, Adjust, Stage, StageReserve
  <2> QED
    BY <1>5, <2>1
<1>11. CASE AnswerRelease(s)
  <2>1. UNCHANGED <<lock, pc, req>>
    BY <1>11, AnswerOnlyTells
  <2> QED
    BY <1>4, <2>1
<1> QED
  BY <1>2, <1>7, <1>8, <1>9, <1>10, <1>11
  DEF AnyStep, LedgerStep, SessionStep, Serve, Decide, AdjustNothing, Replay, Refuse, Commit,
      Flip, Fail, GoalStep, DecideReserve, ReserveReplay, RefuseReserve, CommitReserve, WriteGoal

LEMMA LocksInOrderKept ==
    ASSUME GoalInv, LocksInOrder, NEW s \in Sessions, AnyStep(s)
    PROVE  LocksInOrder'
<1>1. ASSUME NEW t \in Sessions \ {s}
      PROVE  HoldsInOrder(t)'
  <2>1. pc'[t] = pc[t] /\ req'[t] = req[t]
    BY GoalOthersKept DEF GoalInv
  <2>2. \A row \in Rows : lock'[row] = t => lock[row] = t
    BY NoRowForOthers DEF GoalInv
  <2> QED
    BY <2>1, <2>2 DEF LocksInOrder, HoldsInOrder, HeldInOrder
<1> QED
  BY <1>1, OwnLocksInOrder DEF LocksInOrder

\* A transfer locks the account with the smaller id first.
LEMMA SecondRanksHigher ==
    ASSUME NEW r \in Requests, r.op = "transfer"
    PROVE  Rank[FirstRow(r)] < Rank[SecondRow(r)]
<1> DEFINE a == r.acct
           b == r.to
<1>1. a # b /\ Rank[a] \in Nat /\ Rank[b] \in Nat /\ Rank[a] # Rank[b]
  BY RequestsAssumption, AccountsAssumption
<1>2. /\ FirstRow(r) = IF Rank[b] < Rank[a] THEN b ELSE a
      /\ SecondRow(r) = IF FirstRow(r) = a THEN b ELSE a
  BY DEF FirstRow, SecondRow
<1> HIDE DEF a, b
<1>3. Rank[a] < Rank[b] \/ Rank[b] < Rank[a]
  BY <1>1
<1> QED
  BY <1>1, <1>2, <1>3

\* Of the sessions that wait, the one for the last account is held up by one
\* that waits for nothing.
LEMMA NobodyInCircle == GoalWaitInv => NoGoalCircularWait
<1> SUFFICES ASSUME GoalWaitInv, NEW S \in SUBSET Sessions, S # {},
                    \A s \in S : \E t \in S : GoalWaitsFor(s, t)
             PROVE  FALSE
  BY DEF NoGoalCircularWait
<1> USE DEF GoalWaitInv, GoalInv, GoalTypeOK, TypeOK, SessionTypeOK, LockTypeOK
<1>1. ASSUME NEW s \in S
      PROVE  /\ pc[s] \in {"first", "second", "ready", "write"}
             /\ req[s] \in Requests /\ req[s].acct \in Accounts
             /\ req[s].op = "transfer" => req[s].to \in Accounts /\ req[s].to # req[s].acct
             /\ FirstRow(req[s]) \in Accounts
  <2>1. pc[s] \in {"first", "second", "ready", "write"}
    BY DEF GoalWaitsFor
  <2>2. req[s] \in Requests
    BY <2>1
  <2>3. req[s].acct \in Accounts
        /\ (req[s].op = "transfer" => req[s].to \in Accounts /\ req[s].to # req[s].acct)
    BY <2>2, RequestsAssumption
  <2> QED
    BY <2>1, <2>2, <2>3 DEF FirstRow
<1>2. ASSUME NEW s \in S, NEW t \in S, NEW row \in Rows, lock[row] = t
      PROVE  /\ pc[t] \in {"second", "ready"} /\ row \notin Keys
             /\ pc[t] = "second" => row = FirstRow(req[t])
  <2>1. HeldInOrder(t, row)
    BY <1>2 DEF LocksInOrder, HoldsInOrder
  <2> QED
    BY <2>1, <1>1, AccountsAssumption DEF HeldInOrder
<1>3. ASSUME NEW s \in S PROVE pc[s] # "ready"
  <2> SUFFICES ASSUME pc[s] = "ready" PROVE FALSE
    OBVIOUS
  <2>1. PICK t \in S : GoalWaitsFor(s, t)
    OBVIOUS
  <2>2. KeyOf(req[s]) \in Keys /\ lock[KeyOf(req[s])] = t
    BY <2>1 DEF GoalWaitsFor, GoalWanted
  <2> QED
    BY <2>2, <1>2, AccountsAssumption
<1>4. ASSUME NEW s \in S, pc[s] = "second" PROVE req[s].op = "transfer"
  <2> SUFFICES ASSUME req[s].op \in ReserveOps PROVE FALSE
    BY <1>4 DEF LocksInOrder, HoldsInOrder
  <2>1. PICK t \in S : GoalWaitsFor(s, t)
    OBVIOUS
  <2>2. lock[req[s].goal] = t
    BY <2>1, <1>4 DEF GoalWaitsFor, GoalWanted, ReserveRow
  <2>3. req[s].goal \in Goals /\ req[s].goal \in Rows
    BY <1>1, ReserveRequest
  <2>4. pc[t] = "second" /\ req[s].goal = FirstRow(req[t])
    BY <1>2, <1>3, <2>2, <2>3
  <2> QED
    BY <1>1, <2>3, <2>4, GoalsAssumption
<1> DEFINE held == {FirstRow(req[s]) : s \in {u \in S : pc[u] = "second"}}
<1>5. ASSUME NEW s \in S
      PROVE  \E t \in S : pc[t] = "second" /\ lock[GoalWanted(s)] = t /\ FirstRow(req[t]) = GoalWanted(s)
  <2>1. PICK t \in S : GoalWaitsFor(s, t)
    OBVIOUS
  <2>2. lock[GoalWanted(s)] = t /\ pc[s] \in {"first", "second", "write"}
    BY <2>1, <1>1, <1>3 DEF GoalWaitsFor
  <2>3. GoalWanted(s) \in Rows
    <3>1. req[s].op \in ReserveOps => ReserveRow(req[s], pc[s]) \in Rows
      BY <1>1, ReserveRequest DEF ReserveRow
    <3>2. req[s].op \in EditOps => req[s].goal \in Rows
      BY <1>1, GoalsAssumption
    <3>3. pc[s] = "second" => SecondRow(req[s]) \in Accounts
      BY <1>1, <1>4 DEF SecondRow
    <3>4. Wanted(s) \in Accounts
      BY <1>1, <2>2, <3>3 DEF Wanted
    <3>5. Wanted(s) \in Rows
      BY <3>4, AccountsAssumption
    <3> QED
      BY <2>2, <3>1, <3>2, <3>5 DEF GoalWanted, ReserveOps, EditOps
  <2> QED
    BY <1>2, <1>3, <2>2, <2>3
<1>6. held # {}
  BY <1>5 DEF held
<1>7. held \subseteq Accounts
  BY <1>1 DEF held
<1>8. IsFiniteSet(held) /\ \A a \in held : Rank[a] \in Int
  <2>1. IsFiniteSet(held)
    BY <1>7, FS_Subset, FiniteLedger
  <2> QED
    BY <1>7, <2>1, AccountsAssumption
<1> HIDE DEF held
<1>9. PICK last \in held : \A a \in held : Rank[a] <= Rank[last]
  BY <1>6, <1>8, LastExists
<1>10. PICK s \in S : pc[s] = "second" /\ FirstRow(req[s]) = last
  BY DEF held
<1>11. GoalWanted(s) = SecondRow(req[s]) /\ Rank[last] < Rank[SecondRow(req[s])]
  <2>1. req[s].op = "transfer"
    BY <1>4, <1>10
  <2>2. GoalWanted(s) = SecondRow(req[s])
    BY <1>10, <2>1 DEF GoalWanted, Wanted, ReserveOps, EditOps
  <2>3. Rank[FirstRow(req[s])] < Rank[SecondRow(req[s])]
    BY <1>1, <2>1, SecondRanksHigher
  <2> QED
    BY <1>10, <2>2, <2>3
<1>12. GoalWanted(s) \in held
  BY <1>5 DEF held
<1> QED
  BY <1>8, <1>9, <1>11, <1>12

LEMMA LocksInOrderInit == GoalInit => LocksInOrder
<1> SUFFICES ASSUME GoalInit PROVE LocksInOrder
  OBVIOUS
<1>1. /\ \A row \in Rows : lock[row] = Nobody
      /\ \A t \in Sessions : pc[t] = "idle"
  BY DEF GoalInit, Init, LockInit
<1> QED
  BY <1>1, NobodyAssumption DEF LocksInOrder, HoldsInOrder

(***************************************************************************)
(* Goal operations, edits of goals and the operations of the ledger never  *)
(* wait for each other in a circle, whatever the number of sessions and    *)
(* accounts: the account with the last id is followed by a goal, and a     *)
(* goal by a key, which its session holds only to commit.                  *)
(***************************************************************************)
THEOREM NoGoalCircle == GoalSpec => []NoGoalCircularWait
<1>1. GoalInv /\ LocksInOrder /\ [GoalNext]_allVars => LocksInOrder'
  <2>1. UNCHANGED allVars /\ LocksInOrder => LocksInOrder'
    BY DEF allVars, vars, sessionVars, LocksInOrder, HoldsInOrder, HeldInOrder
  <2> QED
    BY <2>1, LocksInOrderKept DEF GoalNext, AnyStep
<1> QED
  BY <1>1, LocksInOrderInit, GoalInvCorrect, NobodyInCircle, PTL DEF GoalSpec, GoalWaitInv

-----------------------------------------------------------------------------
(* Exactly once *)

LEMMA KeysAreFinite == IsFiniteSet(Keys)
<1>1. IsFiniteSet({} \cup {"event"})
  BY FS_EmptySet, FS_AddElement
<1>2. IsFiniteSet(({} \cup {"event"}) \cup {"transfer"})
  BY <1>1, FS_AddElement
<1>3. ({} \cup {"event"}) \cup {"transfer"} = {"event", "transfer"}
  OBVIOUS
<1>4. IsFiniteSet({"event", "transfer"})
  BY <1>2, <1>3
<1> QED
  BY <1>4, FS_Product, FiniteLedger DEF Keys

\* What one key contributes to the reserve of a goal in an account.
Counted(row, g, a) ==
    IF row # Nothing /\ row.req.op \in ReserveOps /\ row.req.goal = g /\ row.req.acct = a
    THEN Signed(row.req)
    ELSE 0

Counts(rows, g, a) == [k \in Keys |-> Counted(rows[k], g, a)]

LEMMA CountsAreIntegers ==
    ASSUME NEW g, NEW a, NEW rows \in [Keys -> Row \cup {Nothing}]
    PROVE  \A k \in Keys : Counts(rows, g, a)[k] \in Int
<1> SUFFICES ASSUME NEW k \in Keys PROVE Counted(rows[k], g, a) \in Int
  BY DEF Counts
<1>1. rows[k] # Nothing /\ rows[k].req.op \in ReserveOps => Signed(rows[k].req) \in Int
  BY ReserveRequest DEF Row
<1> QED
  BY <1>1 DEF Counted

LEMMA ShareIs ==
    ASSUME NEW g, NEW a
    PROVE  /\ SumFunction(Share(g, a)) = SumFunctionOnSet(Counts(recorded, g, a), Keys)
           /\ SumFunction(Share(g, a)') = SumFunctionOnSet(Counts(recorded', g, a), Keys)
<1>1. Share(g, a) = Counts(recorded, g, a) /\ Share(g, a)' = Counts(recorded', g, a)
  BY DEF Share, Counts, Counted
<1>2. DOMAIN Counts(recorded, g, a) = Keys /\ DOMAIN Counts(recorded', g, a) = Keys
  BY DEF Counts
<1> QED
  BY <1>1, <1>2 DEF SumFunction

\* A ledger operation that is recorded counts for no goal.
LEMMA CommitCountsNothing ==
    ASSUME GoalInv, NEW s \in Sessions, Commit(s), NEW g, NEW a, NEW k \in Keys
    PROVE  Counted(recorded'[k], g, a) = Counted(recorded[k], g, a)
<1> DEFINE r == req[s]
<1>1. r.op \in MoveOps /\ Staged(s)
  BY DEF Commit, GoalInv, StagedIsCurrent
<1>2. CASE recorded'[k] = recorded[k]
  BY <1>2
<1>3. CASE recorded'[k] # recorded[k]
  <2>1. plan[s].row # Nothing /\ k = KeyOf(r) /\ recorded'[k] = plan[s].row
    BY <1>3 DEF Commit, GoalInv, GoalTypeOK, TypeOK, LedgerTypeOK
  <2>2. recorded[k] = Nothing /\ recorded'[k].req = r
    BY <1>1, <2>1 DEF Staged, Fresh
  <2>3. r.op \notin ReserveOps
    BY <1>1 DEF MoveOps, CashOps, ReserveOps
  <2> QED
    BY <2>2, <2>3 DEF Counted
<1> QED
  BY <1>2, <1>3

\* Only the commit of a contribution or release changes what is counted.
LEMMA OtherStepsCountNothing ==
    ASSUME GoalInv, NEW s \in Sessions, AnyStep(s), ~CommitReserve(s), NEW g, NEW a, NEW k \in Keys
    PROVE  Counted(recorded'[k], g, a) = Counted(recorded[k], g, a)
<1>1. CASE GoalStep(s)
  BY <1>1, GoalStepAccounts
<1>2. CASE Commit(s)
  BY <1>2, CommitCountsNothing
<1>3. CASE SessionStep(s) /\ ~Commit(s)
  <2>1. recorded' = recorded
    BY <1>3 DEF SessionStep, Serve, Decide, Execute, Adjust, AdjustNothing, Replay, Refuse, Stage,
                Fail, Flip, EarlyReplay, Begin, BeginFlip, LockFirst, LockSecond, ledgerVars
  <2> QED
    BY <2>1
<1> QED
  BY <1>1, <1>2, <1>3 DEF AnyStep, LedgerStep

\* The commit counts its amount once, under a key that counted nothing.
LEMMA CommitReserveCounts ==
    ASSUME GoalInv, NEW s \in Sessions, CommitReserve(s), NEW g \in Goals, NEW a \in Accounts
    PROVE  LET r == req[s] IN
           /\ \A k \in Keys : ~(Keyed(r) /\ k = KeyOf(r)) =>
                Counted(recorded'[k], g, a) = Counted(recorded[k], g, a)
           /\ Keyed(r) =>
                /\ KeyOf(r) \in Keys
                /\ Counted(recorded[KeyOf(r)], g, a) = 0
                /\ Counted(recorded'[KeyOf(r)], g, a)
                     = IF r.goal = g /\ r.acct = a THEN Signed(r) ELSE 0
<1> DEFINE r == req[s]
           row == [req |-> r, post |-> [x \in Accounts |-> 0]]
<1>1. r \in Requests /\ r.op \in ReserveOps
  BY CommitReserveIs
<1>2. ReserveStaged(s)
  BY <1>1 DEF CommitReserve, GoalInv, StagedReserveIsCurrent
<1>3. recorded \in [Keys -> Row \cup {Nothing}]
  BY DEF GoalInv, GoalTypeOK, TypeOK, LedgerTypeOK
<1>4. recorded' = IF ~Keyed(r) THEN recorded ELSE [recorded EXCEPT ![KeyOf(r)] = row]
  BY DEF CommitReserve
<1>5. Keyed(r) => KeyOf(r) \in Keys /\ recorded[KeyOf(r)] = Nothing
  BY <1>1, <1>2, ReserveRequest DEF ReserveStaged, Fresh
<1>6. row.req = r /\ row \in Row
  BY <1>1 DEF Row
<1>7. row # Nothing
  BY <1>6, RowIsSomething
<1> HIDE DEF row, r
<1>8. \A k \in Keys : ~(Keyed(r) /\ k = KeyOf(r)) => recorded'[k] = recorded[k]
  BY <1>3, <1>4
<1>9. Keyed(r) => recorded'[KeyOf(r)] = row
  BY <1>3, <1>4, <1>5
<1> QED
  BY <1>1, <1>5, <1>6, <1>7, <1>8, <1>9 DEF Counted, r

LEMMA RecordedStep ==
    ASSUME GoalInv, GoalTypeOK', ReservesAreRecorded, NEW s \in Sessions, AnyStep(s)
    PROVE  ReservesAreRecorded'
<1> SUFFICES ASSUME NEW g \in Goals, NEW a \in Accounts, AllKeyed(g, a)
             PROVE  alloc'[g][a] = SumFunction(Share(g, a)')
  BY DEF ReservesAreRecorded
<1> DEFINE old == Counts(recorded, g, a)
           new == Counts(recorded', g, a)
<1>1. /\ recorded \in [Keys -> Row \cup {Nothing}] /\ recorded' \in [Keys -> Row \cup {Nothing}]
      /\ alloc \in [Goals -> [Accounts -> Int]]
  BY DEF GoalInv, GoalTypeOK, TypeOK, LedgerTypeOK
<1>2. \A k \in Keys : old[k] = Counted(recorded[k], g, a) /\ old[k] \in Int
  BY <1>1, CountsAreIntegers DEF Counts
<1>3. \A k \in Keys : new[k] = Counted(recorded'[k], g, a) /\ new[k] \in Int
  BY <1>1, CountsAreIntegers DEF Counts
<1>4. alloc[g][a] = SumFunctionOnSet(old, Keys)
  BY ShareIs DEF ReservesAreRecorded
<1> SUFFICES alloc'[g][a] = SumFunctionOnSet(new, Keys)
  BY ShareIs
<1> HIDE DEF old, new
<1>5. CASE ~CommitReserve(s)
  <2>1. alloc' = alloc
    BY <1>5, OtherStepsKeepGoals
  <2>2. \A k \in Keys : old[k] = new[k]
    BY <1>2, <1>3, <1>5, OtherStepsCountNothing
  <2>3. SumFunctionOnSet(old, Keys) = SumFunctionOnSet(new, Keys)
    BY <2>2, KeysAreFinite, SumCongruence
  <2> QED
    BY <1>4, <2>1, <2>3
<1>6. CASE CommitReserve(s)
  <2> DEFINE r == req[s]
             here == r.goal = g /\ r.acct = a
  <2>1. r \in Requests /\ r.op \in ReserveOps /\ r.goal \in Goals /\ r.acct \in Accounts
        /\ Signed(r) \in Int
    BY <1>6, CommitReserveIs
  <2>2. alloc'[g][a] = IF here THEN alloc[g][a] + Signed(r) ELSE alloc[g][a]
    <3>1. alloc' = [alloc EXCEPT ![r.goal][r.acct] = @ + Signed(r)]
      BY <1>6 DEF CommitReserve
    <3> QED
      BY <1>1, <2>1, <3>1
  <2>3. here => Keyed(r)
    BY <2>1 DEF AllKeyed
  <2>4. /\ \A k \in Keys : ~(Keyed(r) /\ k = KeyOf(r)) => old[k] = new[k]
        /\ Keyed(r) => /\ KeyOf(r) \in Keys
                       /\ old[KeyOf(r)] = 0
                       /\ new[KeyOf(r)] = IF here THEN Signed(r) ELSE 0
    BY <1>2, <1>3, <1>6, CommitReserveCounts
  <2> HIDE DEF r, here
  <2>5. CASE Keyed(r)
    <3> DEFINE key == KeyOf(r)
    <3>1. /\ key \in Keys /\ \A k \in Keys \ {key} : old[k] = new[k]
          /\ old[key] = 0 /\ new[key] = IF here THEN Signed(r) ELSE 0
      BY <2>4, <2>5
    <3> HIDE DEF key
    <3>2. \A k \in Keys : old[k] \in Int /\ new[k] \in Int
      BY <1>2, <1>3
    <3>3. SumFunctionOnSet(new, Keys)
            = SumFunctionOnSet(old, Keys) - old[key] + new[key]
      BY <3>1, <3>2, KeysAreFinite, SumUpdate
    <3>4. SumFunctionOnSet(old, Keys) \in Int
      BY <3>2, KeysAreFinite, SumType
    <3> QED
      BY <1>4, <2>1, <2>2, <3>1, <3>3, <3>4
  <2>6. CASE ~Keyed(r)
    <3>1. SumFunctionOnSet(old, Keys) = SumFunctionOnSet(new, Keys)
      BY <2>4, <2>6, KeysAreFinite, SumCongruence
    <3> QED
      BY <1>4, <2>2, <2>3, <2>6, <3>1
  <2> QED
    BY <2>5, <2>6
<1> QED
  BY <1>5, <1>6

LEMMA RecordedInit == GoalInit => ReservesAreRecorded
<1> SUFFICES ASSUME GoalInit, NEW g \in Goals, NEW a \in Accounts
             PROVE  alloc[g][a] = SumFunction(Share(g, a))
  BY DEF ReservesAreRecorded
<1>1. recorded = [k \in Keys |-> Nothing] /\ alloc[g][a] = 0
  BY DEF GoalInit, Init
<1> DEFINE zero == Counts(recorded, g, a)
<1>2. \A k \in Keys : zero[k] = 0
  BY <1>1 DEF Counts, Counted
<1> HIDE DEF zero
<1>3. SumFunctionOnSet(zero, Keys) = SumFunctionOnSet(zero, {})
  BY <1>2, KeysAreFinite, SumRestrict
<1>4. SumFunctionOnSet(zero, Keys) = 0
  BY <1>3, SumEmpty
<1> QED
  BY <1>1, <1>4, ShareIs DEF zero

(***************************************************************************)
(* The reserve of a goal in an account is the sum of its recorded          *)
(* contributions and releases, each counted once, for any number of keys,  *)
(* sessions and retries.                                                   *)
(***************************************************************************)
THEOREM ReservesStayRecorded == GoalSpec => []ReservesAreRecorded
<1>1. GoalInv /\ GoalInv' /\ ReservesAreRecorded /\ [GoalNext]_allVars => ReservesAreRecorded'
  <2>1. UNCHANGED allVars /\ ReservesAreRecorded => ReservesAreRecorded'
    BY DEF allVars, vars, ledgerVars, goalVars, goalRows, ReservesAreRecorded, Share
  <2> QED
    BY <2>1, RecordedStep DEF GoalNext, AnyStep, GoalInv
<1> QED
  BY <1>1, RecordedInit, GoalInvCorrect, PTL DEF GoalSpec

=============================================================================
