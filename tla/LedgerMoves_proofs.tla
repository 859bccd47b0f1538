-------------------------- MODULE LedgerMoves_proofs --------------------------
(***************************************************************************)
(* Proofs about LedgerMoves, for any accounts, requests and sessions.      *)
(***************************************************************************)
EXTENDS LedgerProperties, TLAPS

-----------------------------------------------------------------------------
(* Requests *)

\* A request that moves money has its key and its rows in the tables.
LEMMA MoveRequest ==
    ASSUME NEW r \in Requests, r.op \in MoveOps
    PROVE  /\ r.amount \in Nat
           /\ KeyOf(r) \in Keys
           /\ r.acct \in Accounts
           /\ Touched(r) \subseteq Accounts
           /\ FirstRow(r) \in Touched(r)
           /\ r.op = "transfer" => /\ SecondRow(r) \in Touched(r)
                                   /\ Touched(r) = {FirstRow(r), SecondRow(r)}
           /\ r.op # "transfer" => Touched(r) = {FirstRow(r)}
  BY RequestsAssumption DEF MoveOps, CashOps, KeyOf, Keys, Touched, FirstRow, SecondRow

\* What a request posts is a number for every account.
LEMMA PostingType ==
    ASSUME NEW r \in Requests, r.op \in MoveOps, NEW bal \in [Accounts -> Int]
    PROVE  Posting(r, bal) \in [Accounts -> Int]
  BY MoveRequest DEF Posting

\* A row that is recorded is not the null row.
LEMMA RowIsSomething == Nothing \notin Row /\ Nothing \notin Requests
  BY AccountsAssumption

-----------------------------------------------------------------------------
(* Type correctness *)

LEMMA TypeInit == Init => TypeOK
  BY AccountsAssumption
  DEF Init, TypeOK, LedgerTypeOK, SessionTypeOK, LockTypeOK, LockInit, Plan, NoPlan

\* The end of a transaction keeps the sessions well typed.
LEMMA LeaveType ==
    ASSUME SessionTypeOK, NEW s \in Sessions, Leave(s)
    PROVE  SessionTypeOK'
  BY DEF SessionTypeOK, Leave, ReleaseAll, LockTypeOK, Plan, NoPlan

\* Answering a client keeps the record of the answers well typed.
LEMMA TellType ==
    ASSUME LedgerTypeOK, NEW r \in Requests, Tell(r)
    PROVE  told' \in [Keys -> SUBSET Requests]
  BY DEF LedgerTypeOK, Tell

LEMMA LockType ==
    ASSUME SessionTypeOK, NEW s \in Sessions, NEW row \in Rows, Take(s, row)
    PROVE  LockTypeOK'
  BY DEF SessionTypeOK, LockTypeOK, Take

\* One session's step keeps every type.
LEMMA TypeStep ==
    ASSUME TypeOK, NEW s \in Sessions, SessionStep(s)
    PROVE  TypeOK'
<1> USE DEF TypeOK
<1>1. ASSUME NEW r \in Requests, EarlyReplay(s, r)
      PROVE  TypeOK'
  BY <1>1, TellType DEF EarlyReplay, LedgerTypeOK, SessionTypeOK, LockTypeOK, sessionVars
<1>2. ASSUME NEW r \in Requests, Begin(s, r)
      PROVE  TypeOK'
  BY <1>2 DEF Begin, Enter, ledgerVars, LedgerTypeOK, SessionTypeOK, LockTypeOK
<1>3. ASSUME NEW r \in Requests, BeginFlip(s, r)
      PROVE  TypeOK'
  <2>1. LedgerTypeOK'
    BY <1>3 DEF BeginFlip, ledgerVars, LedgerTypeOK
  <2>2. plan' \in [Sessions -> Plan]
    BY <1>3 DEF BeginFlip, SessionTypeOK, LedgerTypeOK, Plan
  <2> QED
    BY <1>3, <2>1, <2>2 DEF BeginFlip, Enter, SessionTypeOK, LockTypeOK
<1>4. CASE LockFirst(s)
  <2>1. req[s] \in Requests /\ FirstRow(req[s]) \in Rows
    BY <1>4, MoveRequest, AccountsAssumption DEF LockFirst, SessionTypeOK
  <2>2. LockTypeOK'
    BY <1>4, <2>1, LockType DEF LockFirst
  <2> QED
    BY <1>4, <2>1, <2>2 DEF LockFirst, ledgerVars, LedgerTypeOK, SessionTypeOK
<1>5. CASE LockSecond(s)
  <2>1. req[s] \in Requests /\ SecondRow(req[s]) \in Rows
    BY <1>5, MoveRequest, AccountsAssumption DEF LockSecond, SessionTypeOK, MoveOps
  <2>2. LockTypeOK'
    BY <1>5, <2>1, LockType DEF LockSecond
  <2> QED
    BY <1>5, <2>1, <2>2 DEF LockSecond, ledgerVars, LedgerTypeOK, SessionTypeOK
<1>6. ASSUME Stage(s), pc[s] = "ready", req[s].op \in MoveOps
      PROVE  TypeOK'
  <2> DEFINE r == req[s]
             post == Posting(r, balance)
  <2>1. r \in Requests
    BY <1>6 DEF SessionTypeOK
  <2>2. post \in [Accounts -> Int]
    BY <1>6, <2>1, PostingType DEF LedgerTypeOK
  <2>3. KeyOf(r) \in Rows
    BY <1>6, <2>1, MoveRequest, AccountsAssumption
  <2>4. LockTypeOK'
    BY <1>6, <2>3, LockType DEF Stage, SessionTypeOK, LockTypeOK
  <2>5. [a \in Accounts |-> IF a \in Touched(r) THEN balance[a] + post[a] ELSE 0]
           \in [Accounts -> Int]
    BY <2>2 DEF LedgerTypeOK
  <2>6. (IF Fresh(r) THEN [req |-> r, post |-> post] ELSE Nothing) \in Row \cup {Nothing}
    BY <2>1, <2>2 DEF Row
  <2>7. plan' \in [Sessions -> Plan]
    BY <1>6, <2>5, <2>6 DEF Stage, SessionTypeOK, Plan
  <2> QED
    BY <1>6, <2>1, <2>4, <2>7 DEF Stage, ledgerVars, LedgerTypeOK, SessionTypeOK
<1>7. CASE Execute(s)
  BY <1>6, <1>7 DEF Execute, MoveOps
<1>8. CASE Adjust(s)
  BY <1>6, <1>8 DEF Adjust, MoveOps
<1>9. CASE AdjustNothing(s) \/ Replay(s)
  <2>1. req[s] \in Requests
    BY <1>9 DEF AdjustNothing, Replay, SessionTypeOK
  <2> QED
    BY <1>9, <2>1, LeaveType, TellType DEF AdjustNothing, Replay, LedgerTypeOK
<1>10. CASE Refuse(s) \/ Fail(s)
  BY <1>10, LeaveType DEF Refuse, Fail, ledgerVars, LedgerTypeOK
<1>11. CASE Commit(s)
  <2>1. req[s] \in Requests /\ plan[s] \in Plan
    BY <1>11 DEF Commit, SessionTypeOK
  <2>2. balance' \in [Accounts -> Int]
    BY <1>11, <2>1 DEF Commit, LedgerTypeOK, Plan
  <2>3. recorded' \in [Keys -> Row \cup {Nothing}]
    BY <1>11, <2>1 DEF Commit, LedgerTypeOK, Plan
  <2> QED
    BY <1>11, <2>1, <2>2, <2>3, LeaveType, TellType DEF Commit, LedgerTypeOK
<1>12. CASE Flip(s)
  <2>1. active' \in [Accounts -> BOOLEAN]
    BY <1>12 DEF Flip, LedgerTypeOK, Flipped
  <2> QED
    BY <1>12, <2>1, LeaveType DEF Flip, LedgerTypeOK
<1> QED
  BY <1>1, <1>2, <1>3, <1>4, <1>5, <1>7, <1>8, <1>9, <1>10, <1>11, <1>12
  DEF SessionStep, Serve, Decide

(***************************************************************************)
(* Every row, key and session of LedgerMoves keeps its type.               *)
(***************************************************************************)
THEOREM TypeCorrect == Spec => []TypeOK
<1>1. TypeOK /\ UNCHANGED vars => TypeOK'
  BY DEF TypeOK, LedgerTypeOK, SessionTypeOK, LockTypeOK, vars, ledgerVars, sessionVars
<1>2. TypeOK /\ [Next]_vars => TypeOK'
  BY <1>1, TypeStep DEF Next
<1> QED
  BY TypeInit, <1>2, PTL DEF Spec

-----------------------------------------------------------------------------
(* What the locks protect *)

\* A step of one session leaves the others, and the rows they hold, alone.
LEMMA OthersKept ==
    ASSUME TypeOK, NEW s \in Sessions, SessionStep(s), NEW t \in Sessions \ {s}
    PROVE  /\ pc'[t] = pc[t] /\ req'[t] = req[t] /\ plan'[t] = plan[t]
           /\ \A row \in Rows : lock[row] = t => lock'[row] = t
<1> USE DEF TypeOK, SessionTypeOK, LockTypeOK
<1>1. CASE Leave(s)
  BY <1>1 DEF Leave, ReleaseAll
<1>2. ASSUME NEW r \in Requests, EarlyReplay(s, r) \/ Begin(s, r) \/ BeginFlip(s, r)
      PROVE  /\ pc'[t] = pc[t] /\ req'[t] = req[t] /\ plan'[t] = plan[t]
             /\ lock' = lock
  BY <1>2 DEF EarlyReplay, Begin, BeginFlip, Enter, sessionVars
<1>3. CASE LockFirst(s) \/ LockSecond(s)
  BY <1>3, NobodyAssumption DEF LockFirst, LockSecond, Available, Take, ledgerVars
<1>4. ASSUME Stage(s), CanInsert(s)
      PROVE  /\ pc'[t] = pc[t] /\ req'[t] = req[t] /\ plan'[t] = plan[t]
             /\ \A row \in Rows : lock[row] = t => lock'[row] = t
  BY <1>4, NobodyAssumption DEF Stage, CanInsert, Available, Take
<1> QED
  BY <1>1, <1>2, <1>3, <1>4
  DEF SessionStep, Serve, Decide, Execute, Adjust, AdjustNothing, Replay, Refuse,
      Commit, Flip, Fail

\* An account row that another session holds keeps its columns.
LEMMA AccountKept ==
    ASSUME TypeOK, HoldsItsRows, NEW s \in Sessions, SessionStep(s),
           NEW t \in Sessions \ {s}, NEW a \in Accounts, lock[a] = t
    PROVE  balance'[a] = balance[a] /\ active'[a] = active[a] /\ reserved'[a] = reserved[a]
<1>1. CASE Commit(s)
  <2>1. a \notin Touched(req[s])
    BY <1>1 DEF HoldsItsRows, Commit
  <2> QED
    BY <1>1, <2>1 DEF Commit
<1>2. CASE Flip(s)
  <2>1. a # req[s].acct
    BY <1>2, NobodyAssumption DEF Flip, Available
  <2> QED
    BY <1>2, <2>1 DEF Flip, TypeOK, LedgerTypeOK
<1> QED
  BY <1>1, <1>2
  DEF SessionStep, Serve, Decide, Execute, Adjust, AdjustNothing, Replay, Refuse,
      Stage, Fail, EarlyReplay, Begin, BeginFlip, LockFirst, LockSecond, ledgerVars

\* A recorded key is never written again, and one that another session has
\* inserted stays as it is.
LEMMA KeyKept ==
    ASSUME TypeOK, StagedIsCurrent, NEW s \in Sessions, SessionStep(s), NEW k \in Keys,
           recorded[k] # Nothing \/ lock[k] # s
    PROVE  recorded'[k] = recorded[k]
<1>1. CASE Commit(s)
  <2>1. Staged(s)
    BY <1>1 DEF StagedIsCurrent, Commit
  <2>2. plan[s].row # Nothing /\ k = KeyOf(req[s]) =>
          recorded[k] = Nothing /\ lock[k] = s
    BY <2>1 DEF Staged, Fresh
  <2> QED
    BY <1>1, <2>2 DEF Commit, TypeOK, LedgerTypeOK
<1> QED
  BY <1>1
  DEF SessionStep, Serve, Decide, Execute, Adjust, AdjustNothing, Replay, Refuse,
      Stage, Fail, Flip, EarlyReplay, Begin, BeginFlip, LockFirst, LockSecond, ledgerVars

\* What is staged stays current while the rows and the key it is about do.
LEMMA StagedKept ==
    ASSUME NEW t \in Sessions, req[t] \in Requests, req[t].op \in MoveOps, Staged(t),
           req'[t] = req[t], plan'[t] = plan[t],
           \A a \in Touched(req[t]) : /\ balance'[a] = balance[a]
                                      /\ active'[a] = active[a]
                                      /\ reserved'[a] = reserved[a],
           recorded'[KeyOf(req[t])] = recorded[KeyOf(req[t])],
           lock[KeyOf(req[t])] = t => lock'[KeyOf(req[t])] = t
    PROVE  Staged(t)'
<1> DEFINE r == req[t]
<1>1. r.acct \in Touched(r) /\ Touched(r) \subseteq Accounts
  BY MoveRequest DEF Touched
<1>2. Posting(r, balance') = Posting(r, balance)
  BY <1>1 DEF Posting
<1>3. Funded(r, balance') <=> Funded(r, balance)
  BY <1>1 DEF Funded
<1>4. Fresh(r)' <=> Fresh(r)
  BY DEF Fresh
<1> QED
  BY <1>1, <1>2, <1>3, <1>4 DEF Staged

-----------------------------------------------------------------------------
(* The inductive invariant *)

LEMMA HoldsItsRowsStep ==
    ASSUME TypeOK, HoldsItsRows, NEW s \in Sessions, SessionStep(s)
    PROVE  HoldsItsRows'
<1> SUFFICES ASSUME NEW t \in Sessions
             PROVE  /\ pc'[t] = "second" /\ req'[t].op = "transfer" =>
                         lock'[FirstRow(req'[t])] = t
                    /\ pc'[t] \in {"ready", "commit"} /\ req'[t].op \in MoveOps =>
                         \A a \in Touched(req'[t]) : lock'[a] = t
  BY DEF HoldsItsRows
<1>1. CASE t # s
  <2>1. pc'[t] = pc[t] /\ req'[t] = req[t]
    BY <1>1, OthersKept
  <2>2. \A row \in Rows : lock[row] = t => lock'[row] = t
    BY <1>1, OthersKept
  <2>3. CASE pc[t] # "idle" /\ req[t].op \in MoveOps
    <3>1. req[t] \in Requests
      BY <2>3 DEF TypeOK, SessionTypeOK
    <3>2. FirstRow(req[t]) \in Rows /\ Touched(req[t]) \subseteq Rows
      BY <3>1, <2>3, MoveRequest, AccountsAssumption
    <3> QED
      BY <2>1, <2>2, <3>2 DEF HoldsItsRows
  <2>4. CASE ~(pc[t] # "idle" /\ req[t].op \in MoveOps)
    BY <2>1, <2>4 DEF MoveOps
  <2> QED
    BY <2>3, <2>4
<1>2. CASE t = s
  <2> USE <1>2 DEF TypeOK, SessionTypeOK, LockTypeOK
  <2>1. CASE Leave(s)
    BY <2>1 DEF Leave
  <2>2. ASSUME NEW r \in Requests, EarlyReplay(s, r) \/ Begin(s, r) \/ BeginFlip(s, r)
        PROVE  pc'[s] \in {"idle", "first", "write"}
    BY <2>2 DEF EarlyReplay, Begin, BeginFlip, Enter, sessionVars
  <2>3. CASE LockFirst(s)
    <3>1. req[s] \in Requests /\ req'[s] = req[s]
      BY <2>3 DEF LockFirst
    <3>2. FirstRow(req[s]) \in Rows
      BY <2>3, <3>1, MoveRequest, AccountsAssumption DEF LockFirst
    <3>3. lock'[FirstRow(req[s])] = s
      BY <2>3, <3>2 DEF LockFirst, Take
    <3>4. req[s].op # "transfer" => Touched(req[s]) = {FirstRow(req[s])}
      BY <2>3, <3>1, MoveRequest DEF LockFirst
    <3>5. pc'[s] = IF req[s].op = "transfer" THEN "second" ELSE "ready"
      BY <2>3 DEF LockFirst
    <3> QED
      BY <3>1, <3>3, <3>4, <3>5
  <2>4. CASE LockSecond(s)
    <3>1. req[s] \in Requests /\ req'[s] = req[s] /\ req[s].op = "transfer"
      BY <2>4 DEF LockSecond
    <3>2. SecondRow(req[s]) \in Rows /\ Touched(req[s]) = {FirstRow(req[s]), SecondRow(req[s])}
      BY <3>1, MoveRequest, AccountsAssumption DEF MoveOps
    <3>3. lock[FirstRow(req[s])] = s
      BY <2>4, <3>1 DEF LockSecond, HoldsItsRows
    <3>4. \A a \in Touched(req[s]) : lock'[a] = s
      BY <2>4, <3>2, <3>3 DEF LockSecond, Take
    <3> QED
      BY <2>4, <3>1, <3>4 DEF LockSecond
  <2>5. ASSUME Stage(s), pc[s] = "ready", req[s].op \in MoveOps
        PROVE  /\ pc'[s] = "commit" /\ req'[s] = req[s]
               /\ \A a \in Touched(req[s]) : lock'[a] = s
    <3>1. Touched(req[s]) \subseteq Rows
      BY <2>5, MoveRequest, AccountsAssumption
    <3> QED
      BY <2>5, <3>1 DEF Stage, Take, HoldsItsRows
  <2>6. CASE Execute(s) \/ Adjust(s)
    BY <2>5, <2>6 DEF Execute, Adjust, MoveOps
  <2> QED
    BY <2>1, <2>2, <2>3, <2>4, <2>6
    DEF SessionStep, Serve, Decide, AdjustNothing, Replay, Refuse, Commit, Flip, Fail
<1> QED
  BY <1>1, <1>2

\* What Execute and Adjust stage is current.
LEMMA StageIsCurrent ==
    ASSUME TypeOK, HoldsItsRows, NEW s \in Sessions, Stage(s), pc[s] = "ready",
           req[s].op \in MoveOps, Usable(req[s]), Funded(req[s], balance),
           req[s].op = "adjust" => reserved[req[s].acct] <= req[s].amount,
           Fresh(req[s]) \/ req[s].op = "adjust"
    PROVE  Staged(s)'
<1> DEFINE r == req[s]
           post == Posting(r, balance)
<1>1. r \in Requests /\ r' = r
  BY DEF Stage, TypeOK, SessionTypeOK
<1>2. KeyOf(r) \in Rows /\ Touched(r) \subseteq Accounts /\ r.acct \in Accounts /\ r.amount \in Int
  BY <1>1, MoveRequest, AccountsAssumption
<1>3. plan'[s] = [bal |-> [a \in Accounts |-> IF a \in Touched(r) THEN balance[a] + post[a] ELSE 0],
                  row |-> IF Fresh(r) THEN [req |-> r, post |-> post] ELSE Nothing]
  BY DEF Stage, TypeOK, SessionTypeOK
<1>4. Fresh(r)' <=> Fresh(r)
  BY <1>1 DEF Fresh, Stage, ledgerVars
<1>5. Posting(r, balance)' = post /\ (Funded(r, balance)' <=> Funded(r, balance))
  BY <1>1 DEF Posting, Funded, Stage, ledgerVars
<1>6. \A a \in Touched(r) : active'[a] /\ plan'[s].bal[a] = balance'[a] + post[a]
  BY <1>2, <1>3 DEF Usable, Stage, ledgerVars
<1>7. r.op = "adjust" => r.amount >= reserved'[r.acct]
  BY <1>2 DEF Stage, ledgerVars, TypeOK, LedgerTypeOK
<1>8. Fresh(r) => lock'[KeyOf(r)] = s
  BY <1>2 DEF Stage, Take, TypeOK, SessionTypeOK, LockTypeOK
<1> QED
  BY <1>1, <1>3, <1>4, <1>5, <1>6, <1>7, <1>8 DEF Staged

LEMMA StagedIsCurrentStep ==
    ASSUME TypeOK, StagedIsCurrent, NEW s \in Sessions, SessionStep(s)
    PROVE  StagedIsCurrent'
<1>1. HoldsItsRows'
  BY HoldsItsRowsStep DEF StagedIsCurrent
<1>2. ASSUME NEW t \in Sessions \ {s}, pc'[t] = "commit", req'[t].op \in MoveOps
      PROVE  Staged(t)'
  <2> DEFINE r == req[t]
  <2>1. pc[t] = "commit" /\ req'[t] = r /\ plan'[t] = plan[t] /\ r \in Requests /\ r.op \in MoveOps
    BY <1>2, OthersKept DEF TypeOK, SessionTypeOK
  <2>2. Staged(t)
    BY <2>1 DEF StagedIsCurrent
  <2>3. Touched(r) \subseteq Accounts /\ KeyOf(r) \in Keys /\ KeyOf(r) \in Rows
    BY <2>1, MoveRequest, AccountsAssumption
  <2>4. \A a \in Touched(r) :
          balance'[a] = balance[a] /\ active'[a] = active[a] /\ reserved'[a] = reserved[a]
    <3> SUFFICES ASSUME NEW a \in Touched(r)
                 PROVE  balance'[a] = balance[a] /\ active'[a] = active[a] /\ reserved'[a] = reserved[a]
      OBVIOUS
    <3>1. a \in Accounts /\ lock[a] = t
      BY <2>1, <2>3 DEF StagedIsCurrent, HoldsItsRows
    <3> QED
      BY <3>1, AccountKept DEF StagedIsCurrent
  <2>5. recorded[KeyOf(r)] # Nothing \/ lock[KeyOf(r)] # s
    BY <2>2 DEF Staged, Fresh
  <2>6. recorded'[KeyOf(r)] = recorded[KeyOf(r)]
    BY <2>3, <2>5, KeyKept
  <2>7. lock[KeyOf(r)] = t => lock'[KeyOf(r)] = t
    BY <2>3, OthersKept
  <2> QED
    BY <2>1, <2>2, <2>4, <2>6, <2>7, StagedKept
<1>3. ASSUME pc'[s] = "commit", req'[s].op \in MoveOps
      PROVE  Staged(s)'
  <2> USE DEF TypeOK, SessionTypeOK
  <2>1. ~Leave(s)
    BY <1>3 DEF Leave
  <2>2. ~LockFirst(s) /\ ~LockSecond(s)
    BY <1>3 DEF LockFirst, LockSecond
  <2>3. ASSUME NEW r \in Requests, EarlyReplay(s, r) \/ Begin(s, r) \/ BeginFlip(s, r)
        PROVE  FALSE
    BY <1>3, <2>3 DEF EarlyReplay, Begin, BeginFlip, Enter, sessionVars
  <2>4. CASE Execute(s)
    BY <2>4, StageIsCurrent DEF Execute, StagedIsCurrent, MoveOps, CashOps
  <2>5. CASE Adjust(s)
    BY <2>5, StageIsCurrent DEF Adjust, StagedIsCurrent, MoveOps, Funded
  <2> QED
    BY <2>1, <2>2, <2>3, <2>4, <2>5
    DEF SessionStep, Serve, Decide, AdjustNothing, Replay, Refuse, Commit, Flip, Fail
<1> QED
  BY <1>1, <1>2, <1>3 DEF StagedIsCurrent

LEMMA StagedInit == Init => StagedIsCurrent
  BY DEF Init, StagedIsCurrent, HoldsItsRows

LEMMA UnchangedVars ==
    ASSUME UNCHANGED vars
    PROVE  /\ TypeOK => TypeOK'
           /\ StagedIsCurrent => StagedIsCurrent'
<1> USE DEF vars, ledgerVars, sessionVars
<1>1. TypeOK => TypeOK'
  BY DEF TypeOK, LedgerTypeOK, SessionTypeOK, LockTypeOK
<1>2. \A s \in Sessions : Staged(s)' <=> Staged(s)
  BY DEF Staged, Fresh
<1> QED
  BY <1>1, <1>2 DEF StagedIsCurrent, HoldsItsRows

(***************************************************************************)
(* What a session is about to commit fits the rows it will write, for any  *)
(* number of sessions: the invariant from which the rest follows.          *)
(***************************************************************************)
THEOREM StagedStaysCurrent == Spec => []StagedIsCurrent
<1>1. TypeOK /\ StagedIsCurrent /\ [Next]_vars => StagedIsCurrent'
  BY StagedIsCurrentStep, UnchangedVars DEF Next
<1> QED
  BY TypeCorrect, StagedInit, <1>1, PTL DEF Spec

-----------------------------------------------------------------------------
(* The services as atomic operations *)

\* A commit is one atomic movement, or an adjustment under a used key.
LEMMA CommitIsAtomic ==
    ASSUME TypeOK, StagedIsCurrent, NEW s \in Sessions, Commit(s)
    PROVE  Atomic!Move(req[s]) \/ Atomic!AdjustAgain(req[s])
<1> DEFINE r == req[s]
           post == Posting(r, balance)
<1>1. r \in Requests /\ r.op \in MoveOps /\ Staged(s)
  BY DEF Commit, TypeOK, SessionTypeOK, StagedIsCurrent
<1>2. r.acct \in Touched(r) /\ Touched(r) \subseteq Accounts /\ r.amount \in Nat /\ KeyOf(r) \in Keys
  BY <1>1, MoveRequest DEF Touched
<1>3. post \in [Accounts -> Int]
  BY <1>1, PostingType DEF TypeOK, LedgerTypeOK
<1>4. \A a \in Accounts \ Touched(r) : post[a] = 0
  BY <1>1 DEF Posting, Touched, MoveOps, CashOps
<1>5. balance' = [a \in Accounts |-> balance[a] + post[a]]
  BY <1>1, <1>2, <1>3, <1>4 DEF Commit, Staged, TypeOK, LedgerTypeOK
<1>6. Atomic!Posting(r, balance) = post /\ (Atomic!Funded(r, balance) <=> Funded(r, balance))
  BY DEF Posting, Atomic!Posting, Funded, Atomic!Funded
<1>7. Atomic!KeyOf(r) = KeyOf(r) /\ Atomic!Touched(r) = Touched(r) /\ Atomic!MoveOps = MoveOps
  BY DEF KeyOf, Atomic!KeyOf, Touched, Atomic!Touched, MoveOps, Atomic!MoveOps,
         CashOps, Atomic!CashOps
<1>8. CASE Fresh(r)
  <2>1. plan[s].row = [req |-> r, post |-> post] /\ plan[s].row # Nothing
    BY <1>1, <1>3, <1>8, RowIsSomething DEF Staged, Row
  <2>2. recorded' = [recorded EXCEPT ![KeyOf(r)] = [req |-> r, post |-> post]]
    BY <2>1 DEF Commit
  <2> QED
    BY <1>1, <1>5, <1>6, <1>7, <1>8, <2>2 DEF Commit, Staged, Fresh, Atomic!Move
<1>9. CASE ~Fresh(r)
  <2>1. plan[s].row = Nothing /\ r.op = "adjust"
    BY <1>1, <1>9 DEF Staged
  <2>2. recorded' = recorded
    BY <2>1 DEF Commit
  <2>3. Touched(r) = {r.acct} /\ post[r.acct] = r.amount - balance[r.acct]
    BY <1>2, <2>1 DEF Touched, Posting
  <2>4. balance' = [balance EXCEPT ![r.acct] = r.amount]
    <3> HIDE DEF r, post
    <3>1. ASSUME NEW a \in Accounts
          PROVE  balance[a] + post[a] = IF a = r.acct THEN r.amount ELSE balance[a]
      <4>1. balance[a] \in Int /\ r.amount \in Int
        BY <1>2 DEF TypeOK, LedgerTypeOK
      <4>2. CASE a = r.acct
        BY <2>3, <4>1, <4>2
      <4>3. CASE a # r.acct
        BY <1>4, <2>3, <4>1, <4>3
      <4> QED
        BY <4>2, <4>3
    <3>2. balance' = [a \in Accounts |-> IF a = r.acct THEN r.amount ELSE balance[a]]
      BY <1>5, <3>1
    <3> QED
      BY <3>2 DEF TypeOK, LedgerTypeOK
  <2> QED
    BY <1>1, <1>2, <1>7, <1>9, <2>1, <2>2, <2>4 DEF Commit, Staged, Fresh, Atomic!AdjustAgain
<1> QED
  BY <1>8, <1>9

\* Every other step is an archive, a restore, or changes no table.
LEMMA StepIsAtomic ==
    ASSUME TypeOK, StagedIsCurrent, NEW s \in Sessions, SessionStep(s)
    PROVE  Atomic!Next \/ UNCHANGED <<balance, active, reserved, recorded>>
<1>1. CASE Commit(s)
  BY <1>1, CommitIsAtomic DEF Atomic!Next, Commit, TypeOK, SessionTypeOK
<1>2. CASE Flip(s)
  <2> DEFINE a == req[s].acct
  <2>1. a \in Accounts
    BY <1>2, RequestsAssumption DEF Flip, TypeOK, SessionTypeOK
  <2>2. active' = active \/ active' = [active EXCEPT ![a] = ~active[a]]
    BY <1>2, <2>1 DEF Flip, Flipped, TypeOK, LedgerTypeOK
  <2> QED
    BY <1>2, <2>1, <2>2 DEF Flip, Atomic!Next, Atomic!Flip
<1> QED
  BY <1>1, <1>2
  DEF SessionStep, Serve, Decide, Execute, Adjust, AdjustNothing, Replay, Refuse,
      Stage, Fail, EarlyReplay, Begin, BeginFlip, LockFirst, LockSecond, ledgerVars

(***************************************************************************)
(* The sessions of LedgerMoves, with their locks, their waits, their       *)
(* retries and their losses, implement AtomicLedger: one step per request. *)
(***************************************************************************)
THEOREM ImplementsAtomicLedger == Spec => AtomicSpec
<1>1. Init => Atomic!Init
  BY DEF Init, Atomic!Init, Keys, Atomic!Keys
<1>2. TypeOK /\ StagedIsCurrent /\ [Next]_vars => [Atomic!Next]_<<balance, active, reserved, recorded>>
  BY StepIsAtomic DEF Next, vars, ledgerVars
<1> QED
  BY TypeCorrect, StagedStaysCurrent, <1>1, <1>2, PTL
  DEF Spec, AtomicSpec, Atomic!Spec, Atomic!vars

-----------------------------------------------------------------------------
(* Funds and answers *)

\* A movement that finds its funds leaves no account below zero.
LEMMA AtomicOverdraft ==
    ASSUME TypeOK, NoOverdraft, NEW r \in Requests, Atomic!Move(r) \/ Atomic!AdjustAgain(r)
    PROVE  NoOverdraft'
<1> USE RequestsAssumption DEF TypeOK, LedgerTypeOK, NoOverdraft
<1>1. CASE Atomic!Move(r)
  <2> SUFFICES ASSUME NEW a \in Accounts
               PROVE  balance[a] + Atomic!Posting(r, balance)[a] >= 0
    BY <1>1 DEF Atomic!Move
  <2>1. r.amount \in Nat /\ Atomic!Funded(r, balance)
    BY <1>1 DEF Atomic!Move, Atomic!MoveOps, Atomic!CashOps, MoveOps, CashOps
  <2> QED
    BY <2>1 DEF Atomic!Posting, Atomic!Funded
<1>2. CASE Atomic!AdjustAgain(r)
  BY <1>2 DEF Atomic!AdjustAgain, MoveOps, CashOps
<1> QED
  BY <1>1, <1>2

(***************************************************************************)
(* No account is ever overdrawn, for any number of racing sessions.        *)
(***************************************************************************)
THEOREM NeverOverdrawn == Spec => []NoOverdraft
<1>1. Init => NoOverdraft
  <2>1. Opening \in [Accounts -> Nat]
    BY AccountsAssumption
  <2>2. Init => balance = Opening
    BY DEF Init
  <2> QED
    BY <2>1, <2>2 DEF NoOverdraft
<1>2. ASSUME TypeOK, StagedIsCurrent, NoOverdraft, NEW s \in Sessions, SessionStep(s)
      PROVE  NoOverdraft'
  <2>1. CASE Commit(s)
    BY <1>2, <2>1, CommitIsAtomic, AtomicOverdraft DEF Commit, TypeOK, SessionTypeOK
  <2>2. CASE ~Commit(s)
    BY <1>2, <2>2
    DEF NoOverdraft, SessionStep, Serve, Decide, Execute, Adjust, AdjustNothing, Replay,
        Refuse, Stage, Fail, Flip, EarlyReplay, Begin, BeginFlip, LockFirst, LockSecond,
        ledgerVars
  <2> QED
    BY <2>1, <2>2
<1>3. NoOverdraft /\ UNCHANGED vars => NoOverdraft'
  BY DEF NoOverdraft, vars, ledgerVars
<1>4. TypeOK /\ StagedIsCurrent /\ NoOverdraft /\ [Next]_vars => NoOverdraft'
  BY <1>2, <1>3 DEF Next
<1> QED
  BY TypeCorrect, StagedStaysCurrent, <1>1, <1>4, PTL DEF Spec

\* What a client was told so far stays true: recorded keys stay as they are.
LEMMA AnswersStand ==
    ASSUME TypeOK, SuccessIsRecorded, NEW k \in Keys, NEW r \in told[k],
           recorded[k] # Nothing => recorded'[k] = recorded[k]
    PROVE  /\ r.op \in CashOps \cup {"transfer"} => recorded'[k] # Nothing
           /\ r.op = "transfer" => recorded'[k].req = r
  BY DEF SuccessIsRecorded

\* A new answer is about a key that is recorded, for a transfer by itself.
LEMMA NewAnswer ==
    ASSUME TypeOK, StagedIsCurrent, NEW s \in Sessions, SessionStep(s),
           NEW k \in Keys, NEW r \in told'[k], r \notin told[k]
    PROVE  /\ r.op \in CashOps \cup {"transfer"} => recorded'[k] # Nothing
           /\ r.op = "transfer" => recorded'[k].req = r
<1> USE DEF TypeOK, LedgerTypeOK
<1>1. ASSUME NEW q \in Requests, EarlyReplay(s, q)
      PROVE  r = q /\ k = KeyOf(q) /\ recorded'[k] # Nothing /\ recorded'[k].req = r
  BY <1>1 DEF EarlyReplay, Tell
<1>2. CASE AdjustNothing(s)
  BY <1>2 DEF AdjustNothing, Tell, CashOps
<1>3. CASE Replay(s)
  BY <1>3 DEF Replay, Tell, Fresh
<1>4. CASE Commit(s)
  <2>1. r = req[s] /\ k = KeyOf(r) /\ r \in Requests /\ Staged(s)
    BY <1>4 DEF Commit, Tell, StagedIsCurrent, SessionTypeOK
  <2>2. CASE Fresh(r)
    <3>1. plan[s].row = [req |-> r, post |-> Posting(r, balance)] /\ plan[s].row # Nothing
      BY <1>4, <2>1, <2>2, PostingType, RowIsSomething DEF Staged, Row, Commit
    <3> QED
      BY <1>4, <2>1, <3>1 DEF Commit
  <2>3. CASE ~Fresh(r)
    BY <2>1, <2>3 DEF Staged, CashOps
  <2> QED
    BY <2>2, <2>3
<1>5. CASE UNCHANGED told
  BY <1>5
<1> QED
  BY <1>1, <1>2, <1>3, <1>4, <1>5
  DEF SessionStep, Serve, Decide, Execute, Adjust, Refuse, Stage, Fail, Flip,
      Begin, BeginFlip, LockFirst, LockSecond, ledgerVars

(***************************************************************************)
(* A client that was told its cash movement or transfer is done finds it   *)
(* recorded, now and ever after, whatever its retries raced with.          *)
(***************************************************************************)
THEOREM SuccessStaysRecorded == Spec => []SuccessIsRecorded
<1>1. Init => SuccessIsRecorded
  BY DEF Init, SuccessIsRecorded
<1>2. ASSUME TypeOK, StagedIsCurrent, SuccessIsRecorded, NEW s \in Sessions, SessionStep(s)
      PROVE  SuccessIsRecorded'
  <2> SUFFICES ASSUME NEW k \in Keys, NEW r \in told'[k]
               PROVE  /\ r.op \in CashOps \cup {"transfer"} => recorded'[k] # Nothing
                      /\ r.op = "transfer" => recorded'[k].req = r
    BY DEF SuccessIsRecorded
  <2>1. CASE r \in told[k]
    BY <1>2, <2>1, AnswersStand, KeyKept
  <2>2. CASE r \notin told[k]
    BY <1>2, <2>2, NewAnswer
  <2> QED
    BY <2>1, <2>2
<1>3. SuccessIsRecorded /\ UNCHANGED vars => SuccessIsRecorded'
  BY DEF SuccessIsRecorded, vars, ledgerVars
<1>4. TypeOK /\ StagedIsCurrent /\ SuccessIsRecorded /\ [Next]_vars => SuccessIsRecorded'
  BY <1>2, <1>3 DEF Next
<1> QED
  BY TypeCorrect, StagedStaysCurrent, <1>1, <1>4, PTL DEF Spec

=============================================================================
