---------------------------- MODULE GoalProperties ----------------------------
(***************************************************************************)
(* What GoalFunds must satisfy.                                            *)
(***************************************************************************)
EXTENDS GoalFunds, LedgerProperties

(***************************************************************************)
(* The cached progress of a goal is what its transactions reserve for it,  *)
(* over all accounts (get_goal answers 409 when it is not).  Contributions *)
(* from different accounts, releases and target edits all write the same   *)
(* row from values they read earlier.                                      *)
(***************************************************************************)
CurrentIsProgress == \A g \in Goals : goal[g].current = progress[g]

(***************************************************************************)
(* What a contribution or release decided still holds when it commits: the *)
(* account can still give or take back the amount, the goal row is still   *)
(* the one that was read, the key is still the session's own; and an edit  *)
(* of a goal, which holds no lock, never writes its amount.  The order     *)
(* account, goal, key of the locks is what makes it so, against every      *)
(* operation of the ledger and of other goals.                             *)
(***************************************************************************)
HoldsItsGoal ==
    \A s \in Sessions : req[s] # Nothing /\ req[s].op \in ReserveOps =>
        /\ pc[s] \in {"second", "ready", "commit"} => lock[req[s].acct] = s
        /\ pc[s] \in {"ready", "commit"} => lock[req[s].goal] = s

ReserveStaged(s) ==
    LET r == req[s] IN
    /\ Allowed(r)
    /\ draft[s] = ReserveDraft(r)
    /\ Keyed(r) => Fresh(r) /\ lock[KeyOf(r)] = s

StagedReserveIsCurrent ==
    /\ HoldsItsGoal
    /\ \A s \in Sessions :
         /\ pc[s] = "commit" /\ req[s].op \in ReserveOps => ReserveStaged(s)
         /\ pc[s] = "write" => "current" \notin draft[s].dirty

(***************************************************************************)
(* The checks create_release repeats after its writes never fail: what it  *)
(* finds when it commits is what it computed before it wrote.              *)
(***************************************************************************)
PostVerificationHolds ==
    \A s \in Sessions :
        pc[s] = "commit" /\ req[s].op = "release" =>
            LET r == req[s]
                d == draft[s]
            IN  /\ alloc[r.goal][r.acct] + Signed(r) = d.pair
                /\ reserved[r.acct] + Signed(r) = d.account
                /\ progress[r.goal] + Signed(r) = d.row.current

(***************************************************************************)
(* A step that reserves more of an account leaves its reserves within its  *)
(* balance, however the contribution raced with expenses, transfers,       *)
(* adjustments and other contributions from the same account.              *)
(***************************************************************************)
ReservesGrowFunded ==
    [][\A a \in Accounts :
         reserved'[a] > reserved[a] => reserved'[a] <= balance'[a]]_allVars

(***************************************************************************)
(* A goal never takes more than its target, and it is completed by the     *)
(* step that fills it and by no step that leaves it short: create_         *)
(* contribution and create_release write amount and status together, under *)
(* the goal's lock, while update_goal moves the target without it.         *)
(***************************************************************************)
FillsWithinTarget ==
    [][\A g \in Goals :
         goal'[g].current # goal[g].current =>
             /\ goal'[g].current > goal[g].current => goal'[g].current <= goal'[g].target
             /\ goal'[g].status = "completed" <=> goal'[g].current >= goal'[g].target
      ]_allVars

(***************************************************************************)
(* Nobody takes back more than was put in: no goal holds a negative        *)
(* reserve in any account, and no account or goal a negative total.        *)
(***************************************************************************)
NoNegativeReserve ==
    /\ \A g \in Goals, a \in Accounts : alloc[g][a] >= 0
    /\ \A g \in Goals : progress[g] >= 0
    /\ \A a \in Accounts : reserved[a] >= 0

(***************************************************************************)
(* Exactly once: when every contribution to a goal from an account and     *)
(* every release back carries a key, that reserve is the sum of the        *)
(* recorded commands, each counted once, whatever was retried, lost or     *)
(* sent twice at a time.                                                   *)
(***************************************************************************)
Share(g, a) ==
    [k \in Keys |->
        IF /\ recorded[k] # Nothing
           /\ recorded[k].req.op \in ReserveOps
           /\ recorded[k].req.goal = g
           /\ recorded[k].req.acct = a
        THEN Signed(recorded[k].req)
        ELSE 0]

AllKeyed(g, a) ==
    \A r \in Requests : r.op \in ReserveOps /\ r.goal = g /\ r.acct = a => Keyed(r)

ReservesAreRecorded ==
    \A g \in Goals, a \in Accounts :
        AllKeyed(g, a) => alloc[g][a] = SumFunction(Share(g, a))

(***************************************************************************)
(* A client told that its contribution is done finds its key recorded for  *)
(* that very command, never for another operation that used the same key:  *)
(* the fingerprints tell commands apart, and the route of contributions    *)
(* commits before it answers.                                              *)
(***************************************************************************)
ContributionSuccessIsOwn ==
    \A k \in Keys : \A r \in told[k] :
        r.op = "contribute" => recorded[k] # Nothing /\ recorded[k].req = r

\* The row or key a session waits for.
Wanted(s) ==
    CASE pc[s] = "first"  -> FirstRow(req[s])
      [] pc[s] = "second" -> SecondRow(req[s])
      [] pc[s] = "ready"  -> KeyOf(req[s])
      [] pc[s] = "write"  -> req[s].acct

(***************************************************************************)
(* No circular wait between goal operations and ledger operations.         *)
(***************************************************************************)
GoalWanted(s) ==
    LET r == req[s] IN
    IF pc[s] = "ready" THEN KeyOf(r)
    ELSE CASE r.op \in ReserveOps -> ReserveRow(r, pc[s])
           [] r.op \in EditOps -> r.goal
           [] OTHER -> Wanted(s)

GoalWaitsFor(s, t) ==
    /\ s # t
    /\ pc[s] \in {"first", "second", "ready", "write"}
    /\ pc[s] = "ready" => KeyOf(req[s]) \in Keys
    /\ lock[GoalWanted(s)] = t

NoGoalCircularWait ==
    \A S \in SUBSET Sessions :
        S # {} => \E s \in S : \A t \in S : ~GoalWaitsFor(s, t)

-----------------------------------------------------------------------------
(* What the code's own checks and documents say, and concurrency breaks *)

(***************************************************************************)
(* "No se puede archivar una meta con fondos reservados", "El nuevo        *)
(* objetivo no puede ser menor al monto actual": a cancelled goal holds no *)
(* reserve, and no goal has gathered more than its target, as delete_goal  *)
(* and update_goal check before they write.                                *)
(***************************************************************************)
EditsFitProgress ==
    \A g \in Goals :
        /\ goal[g].status = "cancelled" => progress[g] = 0
        /\ goal[g].current <= goal[g].target

=============================================================================
