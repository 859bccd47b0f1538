------------------------ MODULE AutoContributions_proofs ------------------------
(***************************************************************************)
(* Proofs about AutoContributions, for any schedules, sessions, owners,    *)
(* batches, periods and clocks.                                            *)
(***************************************************************************)
EXTENDS AutoProperties, FiniteSetTheorems, WellFoundedInduction, TLAPS

Holding == {"selected", "account", "goal", "decide"}

(***************************************************************************)
(* What an execution works on: a schedule that exists and, once it goes on *)
(* to contribute, was active when it was locked.                           *)
(***************************************************************************)
JobsFit ==
    \A p \in Sessions :
        /\ pc[p] = "byid" => job[p].id \in Schedules /\ schedule[job[p].id] # Nothing
        /\ pc[p] \in Holding => job[p].id \in Schedules /\ job[p].seen \in ScheduleRow

AutoInv == AutoTypeOK /\ JobsFit /\ StagedRunIsCurrent /\ RunsMatchMoney

-----------------------------------------------------------------------------
(* Occurrences *)

LEMMA ProductNat ==
    ASSUME NEW m \in Nat, NEW n \in Nat
    PROVE  m * n \in Nat
  OBVIOUS

\* The next occurrence is a date.
LEMMA FollowingDate ==
    ASSUME NEW day \in 0 .. Period - 1, NEW now \in Nat
    PROVE  Following(day, now) \in Nat
<1>1. Period \in Nat \ {0}
  BY AutoAssumption
<1>2. (day - now) % Period \in 0 .. Period - 1
  BY <1>1
<1> QED
  BY <1>1, <1>2 DEF Following

\* The occurrence an invocation selects is a date, and misses a number of them.
LEMMA MissedDate ==
    ASSUME NEW row, row.next \in Nat, NEW now \in Days, row.next <= now
    PROVE  Missed(row, now) \in Nat /\ row.next + Missed(row, now) * Period \in Days
<1>1. Period \in Nat \ {0} /\ now \in Nat
  BY AutoAssumption DEF Days
<1> DEFINE missed == (now - row.next) \div Period
<1>2. missed \in Nat
  BY <1>1
<1>3. missed * Period \in Nat
  BY <1>1, <1>2, ProductNat
<1>4. missed * Period <= now - row.next
  BY <1>1
<1> HIDE DEF missed
<1>5. Missed(row, now) = missed
  BY DEF Missed, missed
<1> QED
  BY <1>1, <1>2, <1>3, <1>4, <1>5, AutoAssumption DEF Days

\* A schedule has a next occurrence exactly while it is active.
Dated(row) == row.status = "active" <=> row.next # Nothing

LEMMA DatedRows ==
    ASSUME NEW row \in ScheduleRow, Dated(row), NEW now \in Nat
    PROVE  /\ Paused(row) \in ScheduleRow /\ Dated(Paused(row))
           /\ Cancelled(row) \in ScheduleRow /\ Dated(Cancelled(row))
           /\ Advanced(row, now) \in ScheduleRow /\ Dated(Advanced(row, now))
<1>1. Following(row.day, now) \in Nat
  BY FollowingDate DEF ScheduleRow
<1> QED
  BY <1>1, NothingAssumption DEF Paused, Cancelled, Advanced, ScheduleRow, Dated

LEMMA AfterRow ==
    ASSUME NEW row \in ScheduleRow, Dated(row), NEW now \in Nat, NEW code \in Codes,
           NEW stopped \in BOOLEAN
    PROVE  After(row, code, now, stopped) \in ScheduleRow /\ Dated(After(row, code, now, stopped))
  BY DatedRows DEF After, Codes

-----------------------------------------------------------------------------
(* The earliest of some schedules that are due *)

\* A nonempty set of natural numbers has a least one.
LEMMA LeastNatural ==
    ASSUME NEW S \in SUBSET Nat, S # {}
    PROVE  \E m \in S : \A n \in S : m <= n
<1>1. \E m \in S : \A n \in S : <<n, m>> \notin OpToRel(<, Nat)
  BY WFMin, NatLessThanWellFounded, Zenon
<1>2. PICK m \in S : \A n \in S : <<n, m>> \notin OpToRel(<, Nat)
  BY <1>1
<1>3. \A n \in S : ~(n < m)
  BY <1>2, Zenon DEF OpToRel
<1> QED
  BY <1>3

LEMMA EarliestIn ==
    ASSUME NEW S \in SUBSET Schedules, S # {}, \A s \in S : schedule[s].next \in Nat
    PROVE  Earliest(S) \in S
<1> DEFINE dates == {schedule[s].next : s \in S}
<1>1. PICK d \in dates : \A e \in dates : d <= e
  <2>1. dates \in SUBSET Nat /\ dates # {}
    OBVIOUS
  <2> QED
    BY <2>1, LeastNatural
<1> DEFINE first == {s \in S : schedule[s].next = d}
           ids == {IdOrder[s] : s \in first}
<1>2. PICK i \in ids : \A j \in ids : i <= j
  <2>1. first # {} /\ first \subseteq Schedules
    BY <1>1
  <2>2. PICK s \in first : TRUE
    BY <2>1
  <2>3. IdOrder[s] \in ids
    BY <2>2
  <2>4. ids \in SUBSET Nat
    BY <2>1, AutoAssumption
  <2> QED
    BY <2>3, <2>4, LeastNatural
<1>3. PICK s \in first : IdOrder[s] = i
  OBVIOUS
<1>4. \A t \in S : \/ schedule[s].next < schedule[t].next
                   \/ schedule[s].next = schedule[t].next /\ IdOrder[s] <= IdOrder[t]
  <2> SUFFICES ASSUME NEW t \in S, ~(schedule[s].next < schedule[t].next)
               PROVE  schedule[s].next = schedule[t].next /\ IdOrder[s] <= IdOrder[t]
    OBVIOUS
  <2>1. schedule[t].next \in dates /\ schedule[s].next = d
    OBVIOUS
  <2> HIDE DEF dates
  <2>2. schedule[t].next = d
    <3>1. d <= schedule[t].next
      BY <1>1, <2>1
    <3>2. schedule[s].next \in Nat /\ schedule[t].next \in Nat
      OBVIOUS
    <3> QED
      BY <2>1, <3>1, <3>2
  <2>3. IdOrder[t] \in ids
    BY <2>2
  <2> HIDE DEF ids
  <2>4. i <= IdOrder[t]
    BY <1>2, <2>3
  <2> QED
    BY <1>3, <2>1, <2>2, <2>4
<1> QED
  BY <1>3, <1>4 DEF Earliest

\* What an invocation selects is due, and nobody holds it.
LEMMA SelectedDue ==
    ASSUME AutoTypeOK, NEW p \in Sessions, MoreToDo(p)
    PROVE  LET s == Earliest(Selectable(p)) IN
           /\ s \in Schedules /\ lock[s] = Nobody
           /\ schedule[s] \in ScheduleRow /\ schedule[s].next \in Nat
           /\ schedule[s].next <= job[p].now
           /\ schedule[s].status = "active"
<1>1. Selectable(p) \in SUBSET Schedules /\ Selectable(p) # {}
  BY DEF MoreToDo, Selectable
<1>2. \A s \in Selectable(p) :
        /\ schedule[s] \in ScheduleRow /\ schedule[s].next \in Nat
        /\ schedule[s].next <= job[p].now /\ schedule[s].status = "active" /\ lock[s] = Nobody
  <2> SUFFICES ASSUME NEW s \in Selectable(p)
               PROVE  /\ schedule[s] \in ScheduleRow /\ schedule[s].next \in Nat
                      /\ schedule[s].next <= job[p].now /\ schedule[s].status = "active"
                      /\ lock[s] = Nobody
    OBVIOUS
  <2>1. s \in Schedules /\ Due(s, job[p].now) /\ lock[s] = Nobody
    BY DEF Selectable
  <2>2. schedule[s] \in ScheduleRow /\ schedule[s].next # Nothing
    BY <2>1 DEF Due, AutoTypeOK
  <2> QED
    BY <2>1, <2>2 DEF Due, ScheduleRow
<1>3. Earliest(Selectable(p)) \in Selectable(p)
  BY <1>1, <1>2, EarliestIn
<1> QED
  BY <1>1, <1>2, <1>3

-----------------------------------------------------------------------------
(* What a step of one execution does to the others *)

LEMMA NoJobFits == ASSUME NEW n \in Days PROVE NoJob \in Job /\ [NoJob EXCEPT !.now = n] \in Job
<1>1. 0 \in Days
  BY AutoAssumption DEF Days
<1> QED
  BY <1>1 DEF NoJob, Job

\* The end of a transaction, and of a process.
Ends(p) == EndTransaction(p) \/ (ReleaseAll(p) /\ pc' = [pc EXCEPT ![p] = "idle"]
                                               /\ job' = [job EXCEPT ![p] = NoJob])

LEMMA EndFrame ==
    ASSUME AutoTypeOK, NEW p \in Sessions, Ends(p)
    PROVE  /\ LockTypeOK' /\ job' \in [Sessions -> Job]
           /\ pc' \in [Sessions -> {"idle", "loop", "byid", "selected", "account", "goal", "decide"}]
           /\ pc'[p] \in {"idle", "loop"}
           /\ \A q \in Sessions \ {p} :
                /\ pc'[q] = pc[q] /\ job'[q] = job[q]
                /\ \A row \in Rows : lock[row] = q => lock'[row] = q
<1>1. job[p] \in Job /\ NoJob \in Job
  BY NoJobFits, AutoAssumption DEF AutoTypeOK, Job
<1>2. [NoJob EXCEPT !.now = job[p].now, !.tried = job[p].tried] \in Job
  BY <1>1 DEF NoJob, Job
<1>3. ReleaseAll(p)
  BY DEF Ends, EndTransaction
<1>4. LockTypeOK' /\ \A q \in Sessions \ {p} : \A row \in Rows : lock[row] = q => lock'[row] = q
  BY <1>3 DEF ReleaseAll, LockTypeOK, AutoTypeOK
<1>5. \E j \in Job, stage \in {"idle", "loop"} :
        job' = [job EXCEPT ![p] = j] /\ pc' = [pc EXCEPT ![p] = stage]
  BY <1>1, <1>2 DEF Ends, EndTransaction, Resume
<1> QED
  BY <1>4, <1>5 DEF AutoTypeOK

\* A step that is not the end of p's transaction leaves the others alone too.
LEMMA TakeFrame ==
    ASSUME AutoTypeOK, NEW p \in Sessions, NEW row \in Rows, Available(p, row), Take(p, row)
    PROVE  /\ LockTypeOK' /\ lock'[row] = p
           /\ \A r \in Rows, q \in Sessions : lock[r] = q => lock'[r] = q
  BY NobodyAssumption DEF Available, Take, LockTypeOK, AutoTypeOK

-----------------------------------------------------------------------------
(* Types *)

PcType == pc \in [Sessions -> {"idle", "loop", "byid", "selected", "account", "goal", "decide"}]

ScheduleTypes ==
    /\ schedule \in [Schedules -> ScheduleRow \cup {Nothing}]
    /\ \A s \in Schedules : schedule[s] # Nothing => Dated(schedule[s])

LEMMA TypesOfSchedules == AutoTypeOK => ScheduleTypes
  BY DEF AutoTypeOK, ScheduleTypes, Dated

\* What an execution writes of its schedule keeps it a schedule.
LEMMA WrittenRow ==
    ASSUME AutoTypeOK, NEW s \in Schedules, schedule[s] \in ScheduleRow,
           NEW code \in Codes, NEW now \in Nat, NEW stopped \in BOOLEAN,
           WriteSchedule(s, After(schedule[s], code, now, stopped))
    PROVE  /\ ScheduleTypes' /\ schedule'[s] # Nothing
           /\ \A t \in Schedules \ {s} : schedule'[t] = schedule[t]
<1>1. schedule[s] # Nothing /\ Dated(schedule[s])
  BY NothingAssumption DEF AutoTypeOK, Dated
<1> DEFINE row == After(schedule[s], code, now, stopped)
<1>2. row \in ScheduleRow /\ Dated(row)
  BY <1>1, AfterRow
<1> DEFINE new == [schedule[s] EXCEPT !.status = row.status, !.next = row.next]
<1>3. new \in ScheduleRow /\ Dated(new)
  BY <1>2 DEF ScheduleRow, Dated
<1>4. schedule' = [schedule EXCEPT ![s] = new]
  BY DEF WriteSchedule
<1>5. schedule \in [Schedules -> ScheduleRow \cup {Nothing}]
  BY DEF AutoTypeOK
<1> HIDE DEF new
<1> QED
  BY <1>3, <1>4, <1>5, NothingAssumption, TypesOfSchedules DEF ScheduleTypes

\* A contribution keeps goals and accounts what they are.
LEMMA ContributeTypes ==
    ASSUME AutoTypeOK, NEW g \in Goals, NEW a \in Accounts, NEW n \in Nat,
           n <= free[a], Contribute(g, a, n)
    PROVE  /\ goal' \in [Goals -> [current : Nat, status : {"active", "completed", "cancelled"},
                                   live : BOOLEAN]]
           /\ free' \in [Accounts -> 0 .. MaxFree]
<1>1. goal[g].current + n \in Nat
  BY DEF AutoTypeOK
<1>2. free[a] - n \in 0 .. MaxFree
  BY AutoAssumption DEF AutoTypeOK
<1> DEFINE Goal == [current : Nat, status : {"active", "completed", "cancelled"},
                   live : BOOLEAN]
           status == IF n = Remaining(g) THEN "completed" ELSE "active"
<1>3. goal \in [Goals -> Goal] /\ free \in [Accounts -> 0 .. MaxFree]
  BY DEF AutoTypeOK
<1>4. [goal[g] EXCEPT !.current = @ + n, !.status = status] \in Goal
  BY <1>1, <1>3
<1>5. goal' = [goal EXCEPT ![g] = [goal[g] EXCEPT !.current = @ + n, !.status = status]]
  BY <1>3 DEF Contribute
<1> HIDE DEF status
<1>6. goal' \in [Goals -> Goal]
  BY <1>3, <1>4, <1>5
<1>7. free' \in [Accounts -> 0 .. MaxFree]
  BY <1>2, <1>3 DEF Contribute
<1> QED
  BY <1>6, <1>7

LEMMA CandidateAmount ==
    ASSUME AutoTypeOK, NEW row \in ScheduleRow, NEW g \in Goals, Outcome(row, g) = "success"
    PROVE  /\ Candidate(row, g) \in Nat \ {0} /\ Candidate(row, g) <= free[row.acct]
           /\ row.acct \in Accounts
<1>1. /\ row.amount \in Nat \ {0} /\ row.acct \in Accounts
      /\ Target[g] \in Nat /\ goal[g].current \in Nat /\ free[row.acct] \in Int
  BY AutoAssumption DEF ScheduleRow, AutoTypeOK
<1>2. ~(Remaining(g) <= 0) /\ ~(Candidate(row, g) > free[row.acct])
  BY DEF Outcome
<1> QED
  BY <1>1, <1>2 DEF Remaining, Candidate

LEMMA OutcomeCode == ASSUME NEW row, NEW g PROVE Outcome(row, g) \in Codes
  BY DEF Outcome, Codes

\* What an execution holds when it decides.
LEMMA Held ==
    ASSUME AutoTypeOK, JobsFit, StagedRunIsCurrent, NEW p \in Sessions, pc[p] \in Holding
    PROVE  /\ job[p].id \in Schedules /\ job[p].id \in Rows /\ lock[job[p].id] = p
           /\ schedule[job[p].id] = job[p].seen
           /\ job[p].seen \in ScheduleRow /\ job[p].seen.acct \in Accounts
           /\ GoalOf[job[p].id] \in Goals
           /\ job[p].now \in Nat /\ job[p].due \in Days /\ job[p].missed \in Nat
<1>1. job[p].id \in Schedules /\ job[p].seen \in ScheduleRow
  BY DEF JobsFit
<1>2. job[p].now \in Nat /\ job[p].due \in Days /\ job[p].missed \in Nat
  BY AutoAssumption DEF AutoTypeOK, Job, Days
<1> QED
  BY <1>1, <1>2, AutoAssumption DEF StagedRunIsCurrent, Holding, ScheduleRow

-----------------------------------------------------------------------------
(* The steps of one execution *)

PStep(p) ==
    \/ Start(p) \/ Work(p) \/ Fail(p) \/ Crash(p)
    \/ \E s \in Schedules, due \in 0 .. Horizon : Call(p, s, due)

MoneyTypes ==
    /\ given \in [Schedules -> [Days -> Nat]]
    /\ goal \in [Goals -> [current : Nat, status : {"active", "completed", "cancelled"},
                           live : BOOLEAN]]
    /\ free \in [Accounts -> 0 .. MaxFree]
    /\ open \in [Accounts -> BOOLEAN]

RunTypes == runs \in [Schedules -> [Days -> Run \cup {Nothing}]]

\* A decision, committed.
LEMMA ExecuteTypes ==
    ASSUME AutoTypeOK, JobsFit, StagedRunIsCurrent, NEW p \in Sessions, Execute(p)
    PROVE  /\ ScheduleTypes' /\ MoneyTypes' /\ RunTypes' /\ Ends(p)
           /\ schedule'[job[p].id] # Nothing
           /\ \A t \in Schedules \ {job[p].id} :
                schedule'[t] = schedule[t] /\ runs'[t] = runs[t] /\ given'[t] = given[t]
           /\ \E amount \in Nat, run \in Run :
                /\ run.amount = amount
                /\ given' = [given EXCEPT ![job[p].id][job[p].due] = @ + amount]
                /\ runs' = [runs EXCEPT ![job[p].id][job[p].due] = run]
<1> DEFINE s == job[p].id
           row == job[p].seen
           g == GoalOf[s]
           code == Outcome(row, g)
           amount == IF code = "success" THEN Candidate(row, g) ELSE 0
           run == [code |-> code, amount |-> amount, missed |-> job[p].missed]
<1>1. pc[p] = "decide"
  BY DEF Execute
<1>2. /\ s \in Schedules /\ schedule[s] = row /\ row \in ScheduleRow /\ g \in Goals
      /\ job[p].now \in Nat /\ job[p].missed \in Nat
  BY <1>1, Held DEF Holding
<1>3. code \in Codes
  BY OutcomeCode
<1>4. amount \in Nat
  BY <1>2, CandidateAmount
<1>5. run \in Run
  BY <1>2, <1>3, <1>4 DEF Run
<1> HIDE DEF run
<1>6. given' = [given EXCEPT ![s][job[p].due] = @ + amount]
  BY DEF Execute
<1>7. runs' = [runs EXCEPT ![s][job[p].due] = run]
  BY DEF Execute, run
<1>8. run.amount = amount
  BY DEF run
<1>9. MoneyTypes'
  <2>1. given' \in [Schedules -> [Days -> Nat]]
    <3>1. given \in [Schedules -> [Days -> Nat]]
      BY DEF AutoTypeOK
    <3>2. \A n \in Nat : n + amount \in Nat
      BY <1>4
    <3> HIDE DEF amount, s
    <3> QED
      BY <1>2, <1>6, <3>1, <3>2
  <2>2. CASE code = "success"
    BY <1>2, <1>4, <2>1, <2>2, ContributeTypes, CandidateAmount
    DEF Execute, MoneyTypes, AutoTypeOK
  <2>3. CASE code # "success"
    BY <2>1, <2>3 DEF Execute, MoneyTypes, AutoTypeOK
  <2> QED
    BY <2>2, <2>3
<1>10. RunTypes'
  <2>1. runs \in [Schedules -> [Days -> Run \cup {Nothing}]]
    BY DEF AutoTypeOK
  <2> HIDE DEF s
  <2> QED
    BY <1>2, <1>5, <1>7, <2>1 DEF RunTypes
<1>11. /\ ScheduleTypes' /\ schedule'[s] # Nothing
       /\ \A t \in Schedules \ {s} : schedule'[t] = schedule[t]
  <2>1. WriteSchedule(s, After(schedule[s], code, job[p].now, amount = Remaining(g)))
    BY <1>2 DEF Execute
  <2>2. (amount = Remaining(g)) \in BOOLEAN
    OBVIOUS
  <2> HIDE DEF code, amount, s, g
  <2> QED
    BY <1>2, <1>3, <2>1, <2>2, WrittenRow
<1>12. \A t \in Schedules \ {s} : runs'[t] = runs[t] /\ given'[t] = given[t]
  <2> HIDE DEF s, amount
  <2> QED
    BY <1>2, <1>6, <1>7 DEF AutoTypeOK
<1>13. Ends(p)
  BY DEF Execute, Ends
<1> QED
  BY <1>4, <1>5, <1>6, <1>7, <1>8, <1>9, <1>10, <1>11, <1>12, <1>13

\* A run that exists moves the schedule on.
LEMMA ReconcileTypes ==
    ASSUME AutoTypeOK, JobsFit, StagedRunIsCurrent, NEW p \in Sessions, Reconcile(p)
    PROVE  /\ ScheduleTypes' /\ schedule'[job[p].id] # Nothing
           /\ \A t \in Schedules \ {job[p].id} : schedule'[t] = schedule[t]
<1> DEFINE s == job[p].id
           g == goal[GoalOf[s]]
           code == IF ExistingRun(p).code = "success" /\ g.status = "cancelled"
                   THEN "goal_cancelled"
                   ELSE ExistingRun(p).code
           stopped == g.status = "completed" \/ ~g.live
<1>1. /\ s \in Schedules /\ schedule[s] = job[p].seen /\ schedule[s] \in ScheduleRow
      /\ job[p].now \in Nat /\ g.live \in BOOLEAN
  BY Held DEF Reconcile, Holding, AutoTypeOK
<1>2. code \in Codes
  <2>1. s \in Schedules /\ job[p].due \in Days
    BY Held DEF Reconcile, Holding
  <2>2. runs[s][job[p].due] \in Run \cup {Nothing}
    BY <2>1 DEF AutoTypeOK
  <2>3. ExistingRun(p) \in Run
    BY <2>2 DEF Reconcile, ExistingRun
  <2>4. ExistingRun(p).code \in Codes
    BY <2>3 DEF Run
  <2>5. "goal_cancelled" \in Codes
    BY DEF Codes
  <2> QED
    BY <2>4, <2>5
<1>3. stopped \in BOOLEAN
  BY <1>1
<1>4. WriteSchedule(s, After(schedule[s], code, job[p].now, stopped))
  BY <1>1 DEF Reconcile
<1> HIDE DEF s, g, code, stopped
<1> QED
  BY <1>1, <1>2, <1>3, <1>4, WrittenRow DEF s

\* The row an execution locks next.
NextRow(p) == IF pc[p] = "account" THEN job[p].seen.acct ELSE GoalOf[job[p].id]

LEMMA NextRowIsRow ==
    ASSUME AutoTypeOK, JobsFit, StagedRunIsCurrent, NEW p \in Sessions, pc[p] \in {"account", "goal"}
    PROVE  NextRow(p) \in Rows
  BY Held, AutoAssumption DEF NextRow, Holding

\* The schedule an execution selects or has been called for.
LEMMA WorkOnJob ==
    ASSUME AutoTypeOK, NEW p \in Sessions, NEW s \in Schedules, schedule[s] \in ScheduleRow,
           NEW due \in Days, NEW missed \in Nat, WorkOn(p, s, due, missed)
    PROVE  /\ job' \in [Sessions -> Job] /\ PcType'
           /\ pc'[p] = "selected" /\ job'[p].id = s /\ job'[p].seen = schedule[s]
           /\ \A q \in Sessions \ {p} : pc'[q] = pc[q] /\ job'[q] = job[q]
<1> DEFINE new == [job[p] EXCEPT !.tried = @ \cup {s}, !.id = s, !.due = due,
                                 !.missed = missed, !.seen = schedule[s]]
<1>1. job[p] \in Job
  BY DEF AutoTypeOK
<1>2. new \in Job /\ new.id = s /\ new.seen = schedule[s]
  BY <1>1 DEF Job
<1> HIDE DEF new
<1>3. job' = [job EXCEPT ![p] = new]
  BY DEF WorkOn, new
<1>4. pc' = [pc EXCEPT ![p] = "selected"]
  BY DEF WorkOn
<1> QED
  BY <1>2, <1>3, <1>4 DEF AutoTypeOK, PcType

LEMMA SelectStep ==
    ASSUME AutoTypeOK, NEW p \in Sessions, Select(p)
    PROVE  \E s \in Schedules, due \in Days, missed \in Nat :
             /\ schedule[s] \in ScheduleRow /\ s \in Rows
             /\ Available(p, s) /\ Take(p, s) /\ WorkOn(p, s, due, missed)
<1> DEFINE s == Earliest(Selectable(p))
           missed == Missed(schedule[s], job[p].now)
           due == schedule[s].next + missed * Period
<1>1. /\ s \in Schedules /\ lock[s] = Nobody /\ schedule[s] \in ScheduleRow
      /\ schedule[s].next \in Nat /\ schedule[s].next <= job[p].now
  BY SelectedDue DEF Select
<1>2. job[p].now \in Days
  BY DEF AutoTypeOK, Job
<1>3. missed \in Nat /\ due \in Days
  BY <1>1, <1>2, MissedDate
<1>4. Take(p, s) /\ WorkOn(p, s, due, missed)
  BY DEF Select
<1> HIDE DEF s, missed, due
<1>5. s \in Rows /\ Available(p, s)
  BY <1>1, AutoAssumption DEF Available
<1> QED
  BY <1>1, <1>3, <1>4, <1>5

LEMMA LockScheduleStep ==
    ASSUME AutoTypeOK, JobsFit, NEW p \in Sessions, LockSchedule(p)
    PROVE  \E s \in Schedules, due \in Days, missed \in Nat :
             /\ schedule[s] \in ScheduleRow /\ s \in Rows
             /\ Available(p, s) /\ Take(p, s) /\ WorkOn(p, s, due, missed)
<1>1. job[p].id \in Schedules /\ schedule[job[p].id] \in ScheduleRow
  BY DEF LockSchedule, JobsFit, AutoTypeOK
<1>2. job[p].due \in Days
  BY DEF AutoTypeOK, Job
<1> QED
  BY <1>1, <1>2, AutoAssumption DEF LockSchedule

(***************************************************************************)
(* An execution begins, works on a schedule, goes on with it, or ends.     *)
(***************************************************************************)
Begins(p) ==
    /\ pc[p] = "idle" /\ UNCHANGED <<schedule, runs, moneyVars, lock>>
    /\ \/ Start(p)
       \/ \E s \in Schedules, due \in 0 .. Horizon : Call(p, s, due)

Selects(p) ==
    /\ UNCHANGED <<clock, schedule, runs, moneyVars, edit>>
    /\ \E s \in Schedules, due \in Days, missed \in Nat :
         /\ schedule[s] \in ScheduleRow /\ s \in Rows
         /\ Available(p, s) /\ Take(p, s) /\ WorkOn(p, s, due, missed)

EndsQuietly(p) == Ends(p) /\ UNCHANGED <<clock, schedule, runs, moneyVars, edit>>

LEMMA PStepCases ==
    ASSUME AutoTypeOK, JobsFit, StagedRunIsCurrent, NEW p \in Sessions, PStep(p)
    PROVE  \/ Begins(p) \/ Selects(p) \/ EndsQuietly(p)
           \/ Finish(p) \/ Proceed(p) \/ LockRow(p) \/ Reconcile(p) \/ Execute(p)
<1>1. CASE Start(p)
  BY <1>1 DEF Start, Begins
<1>2. CASE \E s \in Schedules, due \in 0 .. Horizon : Call(p, s, due)
  BY <1>2 DEF Call, Begins
<1>3. CASE Select(p)
  BY <1>3, SelectStep DEF Select, Selects
<1>4. CASE LockSchedule(p)
  BY <1>4, LockScheduleStep DEF LockSchedule, Selects
<1>5. CASE Reject(p)
  BY <1>5 DEF Reject, EndsQuietly, Ends
<1>6. CASE Fail(p)
  BY <1>6 DEF Fail, EndsQuietly, Ends
<1>7. CASE Crash(p)
  BY <1>7 DEF Crash, EndsQuietly, Ends
<1> QED
  BY <1>1, <1>2, <1>3, <1>4, <1>5, <1>6, <1>7 DEF PStep, Work

LEMMA BeginsFrame ==
    ASSUME AutoTypeOK, NEW p \in Sessions, Begins(p)
    PROVE  /\ job' \in [Sessions -> Job] /\ PcType'
           /\ pc'[p] \in {"loop", "byid"}
           /\ pc'[p] = "byid" => job'[p].id \in Schedules /\ schedule[job'[p].id] # Nothing
           /\ \A q \in Sessions \ {p} : pc'[q] = pc[q] /\ job'[q] = job[q]
<1>1. CASE Start(p)
  <2>1. PICK ahead \in 0 .. Skew :
          job' = [job EXCEPT ![p] = [NoJob EXCEPT !.now = clock + ahead]]
    BY <1>1 DEF Start
  <2>2. clock + ahead \in Days
    BY AutoAssumption DEF AutoTypeOK, Days
  <2>3. [NoJob EXCEPT !.now = clock + ahead] \in Job
    BY <2>2, NoJobFits
  <2> QED
    BY <1>1, <2>1, <2>3 DEF Start, AutoTypeOK, PcType
<1>2. ASSUME NEW s \in Schedules, NEW due \in 0 .. Horizon, Call(p, s, due)
      PROVE  /\ job' \in [Sessions -> Job] /\ PcType'
             /\ pc'[p] = "byid" /\ job'[p].id = s /\ schedule[s] # Nothing
             /\ \A q \in Sessions \ {p} : pc'[q] = pc[q] /\ job'[q] = job[q]
  <2> DEFINE new == [NoJob EXCEPT !.mode = "single", !.now = clock, !.id = s, !.due = due]
  <2>1. clock \in Days /\ due \in Days /\ 0 \in Days
    BY AutoAssumption DEF AutoTypeOK, Days
  <2>2. new \in Job /\ new.id = s
    BY <2>1 DEF NoJob, Job
  <2>3. job' = [job EXCEPT ![p] = new] /\ pc' = [pc EXCEPT ![p] = "byid"] /\ schedule[s] # Nothing
    BY <1>2 DEF Call
  <2> HIDE DEF new
  <2> QED
    BY <2>2, <2>3 DEF AutoTypeOK, PcType
<1> QED
  BY <1>1, <1>2 DEF Begins


-----------------------------------------------------------------------------
(* The invariant, execution by execution *)

Types ==
    /\ LockTypeOK /\ clock \in 0 .. Horizon
    /\ ScheduleTypes /\ RunTypes /\ MoneyTypes /\ PcType /\ job \in [Sessions -> Job]
    /\ edit \in [Owners -> [ask : Edits, fit : BOOLEAN] \cup {Nothing}]

LEMMA TypesWhole == (AutoTypeOK <=> Types) /\ (AutoTypeOK' <=> Types')
  BY DEF AutoTypeOK, Types, ScheduleTypes, RunTypes, MoneyTypes, PcType, Dated

\* What JobsFit and StagedRunIsCurrent say of one execution.
Own(p) ==
    /\ pc[p] = "byid" => job[p].id \in Schedules /\ schedule[job[p].id] # Nothing
    /\ pc[p] \in Holding =>
         /\ job[p].id \in Schedules /\ job[p].seen \in ScheduleRow
         /\ lock[job[p].id] = p /\ schedule[job[p].id] = job[p].seen
    /\ pc[p] \in {"account", "goal", "decide"} => ExistingRun(p) = Nothing

LEMMA OwnAll == (JobsFit /\ StagedRunIsCurrent) <=> \A p \in Sessions : Own(p)
  BY DEF JobsFit, StagedRunIsCurrent, Own, Holding

\* A step leaves execution q where it is, and alone with its schedule.
Kept(q) ==
    /\ pc'[q] = pc[q] /\ job'[q] = job[q]
    /\ \A s \in Schedules : lock[s] = q =>
         lock'[s] = q /\ schedule'[s] = schedule[s] /\ runs'[s] = runs[s]

\* No schedule's row disappears.
RowsStay == \A s \in Schedules : schedule[s] # Nothing => schedule'[s] # Nothing

LEMMA KeptOwn ==
    ASSUME NEW q \in Sessions, Own(q), Kept(q), RowsStay
    PROVE  Own(q)'
  BY DEF Own, Kept, RowsStay, ExistingRun, Holding

\* A step that touches no run and no contribution keeps them matched.
LEMMA MatchKept ==
    ASSUME RunsMatchMoney, UNCHANGED <<runs, given>>
    PROVE  RunsMatchMoney'
  BY DEF RunsMatchMoney

\* What a step of execution p achieves.
Step(p) ==
    /\ AutoTypeOK' /\ Own(p)' /\ RowsStay /\ RunsMatchMoney'
    /\ \A q \in Sessions \ {p} : Kept(q)

LEMMA BeginsKeeps ==
    ASSUME AutoInv, NEW p \in Sessions, Begins(p)
    PROVE  Step(p)
<1>1. Types /\ AutoTypeOK /\ RunsMatchMoney
  BY TypesWhole DEF AutoInv
<1>2. UNCHANGED <<clock, schedule, runs, moneyVars, lock, edit>>
  BY DEF Begins, Start, Call
<1>3. /\ job' \in [Sessions -> Job] /\ PcType'
      /\ pc'[p] \in {"loop", "byid"}
      /\ pc'[p] = "byid" => job'[p].id \in Schedules /\ schedule[job'[p].id] # Nothing
      /\ \A q \in Sessions \ {p} : pc'[q] = pc[q] /\ job'[q] = job[q]
  BY <1>1, BeginsFrame
<1>4. Types'
  BY <1>1, <1>2, <1>3
  DEF Types, LockTypeOK, ScheduleTypes, RunTypes, MoneyTypes, moneyVars
<1>5. Own(p)'
  BY <1>2, <1>3 DEF Own, Holding
<1>6. \A q \in Sessions \ {p} : Kept(q)
  BY <1>2, <1>3 DEF Kept
<1> QED
  BY <1>1, <1>2, <1>4, <1>5, <1>6, MatchKept, TypesWhole DEF Step, RowsStay, moneyVars

LEMMA SelectsKeeps ==
    ASSUME AutoInv, NEW p \in Sessions, Selects(p)
    PROVE  Step(p)
<1>1. Types /\ AutoTypeOK /\ RunsMatchMoney
  BY TypesWhole DEF AutoInv
<1>2. PICK s \in Schedules, due \in Days, missed \in Nat :
        /\ schedule[s] \in ScheduleRow /\ s \in Rows
        /\ Available(p, s) /\ Take(p, s) /\ WorkOn(p, s, due, missed)
  BY DEF Selects
<1>3. UNCHANGED <<clock, schedule, runs, moneyVars, edit>>
  BY DEF Selects
<1>4. /\ LockTypeOK' /\ lock'[s] = p
      /\ \A r \in Rows, q \in Sessions : lock[r] = q => lock'[r] = q
  BY <1>1, <1>2, TakeFrame
<1>5. /\ job' \in [Sessions -> Job] /\ PcType'
      /\ pc'[p] = "selected" /\ job'[p].id = s /\ job'[p].seen = schedule[s]
      /\ \A q \in Sessions \ {p} : pc'[q] = pc[q] /\ job'[q] = job[q]
  BY <1>1, <1>2, WorkOnJob
<1>6. Types'
  BY <1>1, <1>3, <1>4, <1>5 DEF Types, ScheduleTypes, RunTypes, MoneyTypes, moneyVars
<1>7. Own(p)'
  BY <1>2, <1>3, <1>4, <1>5 DEF Own, Holding
<1>8. \A q \in Sessions \ {p} : Kept(q)
  BY <1>3, <1>4, <1>5, AutoAssumption DEF Kept
<1> QED
  BY <1>1, <1>3, <1>6, <1>7, <1>8, MatchKept, TypesWhole DEF Step, RowsStay, moneyVars

LEMMA EndsQuietlyKeeps ==
    ASSUME AutoInv, NEW p \in Sessions, EndsQuietly(p)
    PROVE  Step(p)
<1>1. Types /\ AutoTypeOK /\ RunsMatchMoney
  BY TypesWhole DEF AutoInv
<1>2. Ends(p) /\ UNCHANGED <<clock, schedule, runs, moneyVars, edit>>
  BY DEF EndsQuietly
<1>3. /\ LockTypeOK' /\ job' \in [Sessions -> Job] /\ PcType' /\ pc'[p] \in {"idle", "loop"}
      /\ \A q \in Sessions \ {p} :
           /\ pc'[q] = pc[q] /\ job'[q] = job[q]
           /\ \A row \in Rows : lock[row] = q => lock'[row] = q
  BY <1>1, <1>2, EndFrame DEF PcType
<1>4. Types'
  BY <1>1, <1>2, <1>3 DEF Types, ScheduleTypes, RunTypes, MoneyTypes, moneyVars
<1>5. Own(p)'
  BY <1>3 DEF Own, Holding
<1>6. \A q \in Sessions \ {p} : Kept(q)
  BY <1>2, <1>3, AutoAssumption DEF Kept
<1> QED
  BY <1>1, <1>2, <1>4, <1>5, <1>6, MatchKept, TypesWhole DEF Step, RowsStay, moneyVars


\* The loop of an invocation ends, or an execution goes on to its next stage.
LEMMA FinishKeeps ==
    ASSUME AutoInv, NEW p \in Sessions, Finish(p)
    PROVE  Step(p)
<1>1. Types /\ AutoTypeOK /\ RunsMatchMoney
  BY TypesWhole DEF AutoInv
<1>2. /\ UNCHANGED <<clock, schedule, runs, moneyVars, lock, edit>>
      /\ pc' = [pc EXCEPT ![p] = "idle"] /\ job' = [job EXCEPT ![p] = NoJob]
  BY DEF Finish
<1>3. NoJob \in Job
  <2>1. 0 \in Days
    BY AutoAssumption DEF Days
  <2> QED
    BY <2>1, NoJobFits
<1>4. /\ job' \in [Sessions -> Job] /\ PcType' /\ pc'[p] = "idle"
      /\ \A q \in Sessions \ {p} : pc'[q] = pc[q] /\ job'[q] = job[q]
  BY <1>1, <1>2, <1>3 DEF Types, PcType
<1>5. Types'
  BY <1>1, <1>2, <1>4 DEF Types, LockTypeOK, ScheduleTypes, RunTypes, MoneyTypes, moneyVars
<1>6. Own(p)'
  BY <1>4 DEF Own, Holding
<1>7. \A q \in Sessions \ {p} : Kept(q)
  BY <1>2, <1>4 DEF Kept
<1> QED
  BY <1>1, <1>2, <1>5, <1>6, <1>7, MatchKept, TypesWhole DEF Step, RowsStay, moneyVars

LEMMA ProceedKeeps ==
    ASSUME AutoInv, NEW p \in Sessions, Proceed(p)
    PROVE  Step(p)
<1>1. Types /\ AutoTypeOK /\ RunsMatchMoney /\ Own(p)
  BY TypesWhole, OwnAll DEF AutoInv
<1>2. /\ UNCHANGED <<clock, schedule, runs, moneyVars, job, lock, edit>>
      /\ pc[p] = "selected" /\ ExistingRun(p) = Nothing
      /\ pc' = [pc EXCEPT ![p] = "account"]
  BY DEF Proceed
<1>3. /\ PcType' /\ pc'[p] = "account"
      /\ \A q \in Sessions \ {p} : pc'[q] = pc[q]
  BY <1>1, <1>2 DEF Types, PcType
<1>4. Types'
  BY <1>1, <1>2, <1>3 DEF Types, LockTypeOK, ScheduleTypes, RunTypes, MoneyTypes, moneyVars
<1>5. Own(p)'
  BY <1>1, <1>2, <1>3 DEF Own, Holding, ExistingRun
<1>6. \A q \in Sessions \ {p} : Kept(q)
  BY <1>2, <1>3 DEF Kept
<1> QED
  BY <1>1, <1>2, <1>4, <1>5, <1>6, MatchKept, TypesWhole DEF Step, RowsStay, moneyVars

LEMMA LockRowKeeps ==
    ASSUME AutoInv, NEW p \in Sessions, LockRow(p)
    PROVE  Step(p)
<1>1. Types /\ AutoTypeOK /\ JobsFit /\ StagedRunIsCurrent /\ RunsMatchMoney /\ Own(p)
  BY TypesWhole, OwnAll DEF AutoInv
<1>2. /\ UNCHANGED <<clock, schedule, runs, moneyVars, job, edit>>
      /\ pc[p] \in {"account", "goal"}
      /\ Available(p, NextRow(p)) /\ Take(p, NextRow(p))
      /\ \E stage \in {"goal", "decide"} : pc' = [pc EXCEPT ![p] = stage]
  BY DEF LockRow, NextRow
<1>3. NextRow(p) \in Rows
  BY <1>1, <1>2, NextRowIsRow
<1>4. /\ LockTypeOK'
      /\ \A r \in Rows, q \in Sessions : lock[r] = q => lock'[r] = q
  BY <1>1, <1>2, <1>3, TakeFrame
<1>5. /\ PcType' /\ pc'[p] \in {"goal", "decide"}
      /\ \A q \in Sessions \ {p} : pc'[q] = pc[q]
  BY <1>1, <1>2 DEF Types, PcType
<1>6. Types'
  BY <1>1, <1>2, <1>4, <1>5 DEF Types, ScheduleTypes, RunTypes, MoneyTypes, moneyVars
<1>7. Own(p)'
  <2>1. /\ job[p].id \in Schedules /\ job[p].seen \in ScheduleRow
        /\ lock[job[p].id] = p /\ schedule[job[p].id] = job[p].seen
        /\ ExistingRun(p) = Nothing
    BY <1>1, <1>2 DEF Own, Holding
  <2>2. lock'[job[p].id] = p
    BY <1>4, <2>1, AutoAssumption
  <2>3. ExistingRun(p)' = Nothing
    BY <1>2, <2>1 DEF ExistingRun
  <2> QED
    BY <1>2, <1>5, <2>1, <2>2, <2>3 DEF Own, Holding
<1>8. \A q \in Sessions \ {p} : Kept(q)
  BY <1>2, <1>4, <1>5, AutoAssumption DEF Kept
<1> QED
  BY <1>1, <1>2, <1>6, <1>7, <1>8, MatchKept, TypesWhole DEF Step, RowsStay, moneyVars

LEMMA ReconcileKeeps ==
    ASSUME AutoInv, NEW p \in Sessions, Reconcile(p)
    PROVE  Step(p)
<1>1. Types /\ AutoTypeOK /\ JobsFit /\ StagedRunIsCurrent /\ RunsMatchMoney
  BY TypesWhole DEF AutoInv
<1>2. /\ UNCHANGED <<clock, runs, moneyVars, edit>> /\ Ends(p) /\ pc[p] = "selected"
  BY DEF Reconcile, Ends
<1>3. /\ LockTypeOK' /\ job' \in [Sessions -> Job] /\ PcType' /\ pc'[p] \in {"idle", "loop"}
      /\ \A q \in Sessions \ {p} :
           /\ pc'[q] = pc[q] /\ job'[q] = job[q]
           /\ \A row \in Rows : lock[row] = q => lock'[row] = q
  BY <1>1, <1>2, EndFrame DEF PcType
<1>4. /\ ScheduleTypes' /\ schedule'[job[p].id] # Nothing
      /\ \A t \in Schedules \ {job[p].id} : schedule'[t] = schedule[t]
  BY <1>1, ReconcileTypes
<1>5. lock[job[p].id] = p
  BY <1>1, <1>2, Held DEF Holding
<1>6. Types'
  BY <1>1, <1>2, <1>3, <1>4 DEF Types, RunTypes, MoneyTypes, moneyVars
<1>7. Own(p)'
  BY <1>3 DEF Own, Holding
<1>8. \A q \in Sessions \ {p} : Kept(q)
  BY <1>2, <1>3, <1>4, <1>5, AutoAssumption DEF Kept
<1>9. RowsStay
  BY <1>4 DEF RowsStay
<1> QED
  BY <1>1, <1>2, <1>6, <1>7, <1>8, <1>9, MatchKept, TypesWhole DEF Step, moneyVars

LEMMA ExecuteKeeps ==
    ASSUME AutoInv, NEW p \in Sessions, Execute(p)
    PROVE  Step(p)
<1>1. Types /\ AutoTypeOK /\ JobsFit /\ StagedRunIsCurrent /\ RunsMatchMoney
  BY TypesWhole DEF AutoInv
<1>2. /\ UNCHANGED <<clock, open, edit>> /\ pc[p] = "decide" /\ ExistingRun(p) = Nothing
  BY DEF Execute
<1>3. /\ ScheduleTypes' /\ MoneyTypes' /\ RunTypes' /\ Ends(p)
      /\ schedule'[job[p].id] # Nothing
      /\ \A t \in Schedules \ {job[p].id} :
           schedule'[t] = schedule[t] /\ runs'[t] = runs[t] /\ given'[t] = given[t]
  BY <1>1, ExecuteTypes
<1>4. /\ LockTypeOK' /\ job' \in [Sessions -> Job] /\ PcType' /\ pc'[p] \in {"idle", "loop"}
      /\ \A q \in Sessions \ {p} :
           /\ pc'[q] = pc[q] /\ job'[q] = job[q]
           /\ \A row \in Rows : lock[row] = q => lock'[row] = q
  BY <1>1, <1>3, EndFrame DEF PcType
<1>5. lock[job[p].id] = p /\ job[p].id \in Schedules /\ job[p].due \in Days
  BY <1>1, <1>2, Held DEF Holding
<1>6. Types'
  BY <1>1, <1>2, <1>3, <1>4 DEF Types
<1>7. Own(p)'
  BY <1>4 DEF Own, Holding
<1>8. \A q \in Sessions \ {p} : Kept(q)
  BY <1>3, <1>4, <1>5, AutoAssumption DEF Kept
<1>9. RowsStay
  BY <1>3 DEF RowsStay
<1>10. RunsMatchMoney'
  <2> DEFINE s == job[p].id
             d == job[p].due
  <2>1. PICK amount \in Nat, run \in Run :
          /\ run.amount = amount
          /\ given' = [given EXCEPT ![s][d] = @ + amount]
          /\ runs' = [runs EXCEPT ![s][d] = run]
    BY <1>1, ExecuteTypes
  <2>2. given[s][d] = 0
    BY <1>1, <1>2, <1>5 DEF RunsMatchMoney, ExistingRun
  <2>3. run # Nothing
    BY NothingAssumption
  <2>4. given \in [Schedules -> [Days -> Nat]] /\ runs \in [Schedules -> [Days -> Run \cup {Nothing}]]
    BY <1>1 DEF AutoTypeOK
  <2>5. s \in Schedules /\ d \in Days
    BY <1>5
  <2> HIDE DEF s, d
  <2>6. given'[s][d] = amount /\ runs'[s][d] = run
    BY <2>1, <2>2, <2>4, <2>5
  <2>7. \A t \in Schedules, e \in Days : <<t, e>> # <<s, d>> =>
          given'[t][e] = given[t][e] /\ runs'[t][e] = runs[t][e]
    BY <2>1, <2>4, <2>5
  <2> QED
    BY <1>1, <2>1, <2>3, <2>6, <2>7 DEF RunsMatchMoney
<1> QED
  BY <1>6, <1>7, <1>8, <1>9, <1>10, TypesWhole DEF Step

\* Any step of an execution.
LEMMA ExecutionKeeps ==
    ASSUME AutoInv, NEW p \in Sessions, PStep(p)
    PROVE  Step(p)
<1>1. AutoTypeOK /\ JobsFit /\ StagedRunIsCurrent
  BY DEF AutoInv
<1> QED
  BY <1>1, PStepCases, BeginsKeeps, SelectsKeeps, EndsQuietlyKeeps, FinishKeeps,
     ProceedKeeps, LockRowKeeps, ReconcileKeeps, ExecuteKeeps


-----------------------------------------------------------------------------
(* Owners, other requests, and time *)

\* The row an owner's request writes.
LEMMA ScheduledRow ==
    ASSUME AutoTypeOK, NEW c \in Config, NEW status \in {"active", "paused", "cancelled"}
    PROVE  Scheduled(c, status) \in ScheduleRow /\ Dated(Scheduled(c, status))
<1>1. Following(c.day, clock) \in Nat
  BY FollowingDate, AutoAssumption DEF Config, AutoTypeOK
<1> QED
  BY <1>1, NothingAssumption DEF Scheduled, Config, ScheduleRow, Dated

LEMMA EditedRow ==
    ASSUME AutoTypeOK, NEW row \in ScheduleRow, Dated(row), NEW e \in Edits
    PROVE  Edited(row, e) \in ScheduleRow /\ Dated(Edited(row, e))
<1>1. clock \in Nat /\ e.op \in {"put", "patch", "pause", "resume", "delete"}
  BY AutoAssumption DEF AutoTypeOK
<1>2. CASE e.op = "put" \/ (e.op = "patch" /\ e.calendar)
  <2>1. Scheduled(e.config, row.status) \in ScheduleRow /\ Dated(Scheduled(e.config, row.status))
    BY <1>2, ScheduledRow, AutoAssumption DEF ScheduleRow
  <2> QED
    BY <1>2, <2>1 DEF Edited
<1>3. CASE e.op = "patch" /\ ~e.calendar
  <2>1. e.config \in Config
    BY <1>3, AutoAssumption
  <2>2. /\ [row EXCEPT !.acct = e.config.acct, !.amount = e.config.amount] \in ScheduleRow
        /\ Dated([row EXCEPT !.acct = e.config.acct, !.amount = e.config.amount])
    BY <2>1 DEF Config, ScheduleRow, Dated
  <2> QED
    BY <1>3, <2>2 DEF Edited
<1>4. CASE e.op \in {"pause", "resume", "delete"}
  BY <1>1, <1>4, DatedRows DEF Edited
<1> QED
  BY <1>1, <1>2, <1>3, <1>4

\* One schedule that no execution holds is written.
LEMMA RowWritten ==
    ASSUME AutoInv, NEW s \in Schedules, NEW row \in ScheduleRow, Dated(row),
           schedule[s] = Nothing \/ lock[s] = Nobody,
           schedule' = [schedule EXCEPT ![s] = row],
           UNCHANGED <<clock, runs, moneyVars, jobVars>>,
           edit' \in [Owners -> [ask : Edits, fit : BOOLEAN] \cup {Nothing}]
    PROVE  AutoTypeOK' /\ RowsStay /\ \A q \in Sessions : Own(q)'
<1>1. Types /\ \A q \in Sessions : Own(q)
  BY TypesWhole, OwnAll DEF AutoInv
<1>2. row # Nothing
  BY NothingAssumption
<1>3. /\ schedule'[s] = row /\ \A t \in Schedules \ {s} : schedule'[t] = schedule[t]
      /\ schedule' \in [Schedules -> ScheduleRow \cup {Nothing}]
  BY <1>1 DEF Types, ScheduleTypes
<1>4. ScheduleTypes'
  BY <1>1, <1>3 DEF Types, ScheduleTypes
<1>5. Types'
  BY <1>1, <1>4 DEF Types, LockTypeOK, RunTypes, MoneyTypes, PcType, moneyVars, jobVars
<1>6. RowsStay
  BY <1>2, <1>3 DEF RowsStay
<1>7. ASSUME NEW q \in Sessions PROVE Own(q)'
  <2>1. pc[q] \in Holding => job[q].id # s
    BY <1>1, NobodyAssumption, NothingAssumption DEF Own
  <2>2. /\ pc'[q] = pc[q] /\ job'[q] = job[q] /\ lock' = lock
        /\ ExistingRun(q)' = ExistingRun(q)
    BY DEF jobVars, ExistingRun
  <2> QED
    BY <1>1, <1>3, <1>6, <2>1, <2>2 DEF Own, RowsStay
<1> QED
  BY <1>5, <1>6, <1>7, TypesWhole


\* A step that changes neither schedules, runs nor executions.
LEMMA AsideKeeps ==
    ASSUME AutoInv, UNCHANGED <<schedule, runs, given, jobVars>>,
           clock' \in 0 .. Horizon, MoneyTypes',
           edit' \in [Owners -> [ask : Edits, fit : BOOLEAN] \cup {Nothing}]
    PROVE  AutoInv'
<1>1. Types /\ RunsMatchMoney /\ JobsFit /\ StagedRunIsCurrent
  BY TypesWhole DEF AutoInv
<1>2. Types'
  BY <1>1 DEF Types, LockTypeOK, ScheduleTypes, RunTypes, PcType, jobVars
<1>3. (JobsFit /\ StagedRunIsCurrent)'
  BY <1>1 DEF JobsFit, StagedRunIsCurrent, ExistingRun, jobVars
<1> QED
  BY <1>1, <1>2, <1>3, MatchKept, TypesWhole DEF AutoInv

LEMMA OwnersKeep ==
    ASSUME AutoInv, NEW o \in Owners,
           (\E e \in Edits : Ask(o, e)) \/ Create(o) \/ Save(o) \/ Drop(o)
    PROVE  AutoInv'
<1> DEFINE Asked == [ask : Edits, fit : BOOLEAN]
<1>1. Types /\ AutoTypeOK /\ RunsMatchMoney
  BY TypesWhole DEF AutoInv
<1>2. edit \in [Owners -> Asked \cup {Nothing}] /\ clock \in 0 .. Horizon /\ MoneyTypes
  BY <1>1 DEF Types
<1>3. ASSUME NEW e \in Edits, Ask(o, e) PROVE AutoInv'
  <2>1. Operational(e.goal) \in BOOLEAN
    BY <1>2, AutoAssumption DEF Operational, MoneyTypes
  <2>2. [ask |-> e, fit |-> Operational(e.goal)] \in Asked
    BY <2>1
  <2>3. edit' \in [Owners -> Asked \cup {Nothing}]
    BY <1>2, <1>3, <2>2 DEF Ask
  <2> QED
    BY <1>2, <1>3, <2>3, AsideKeeps DEF Ask, MoneyTypes, moneyVars
<1>4. CASE Drop(o)
  <2>1. edit' \in [Owners -> Asked \cup {Nothing}]
    BY <1>2, <1>4 DEF Drop
  <2> QED
    BY <1>2, <1>4, <2>1, AsideKeeps DEF Drop, MoneyTypes, moneyVars
<1>5. CASE Create(o) \/ Save(o)
  <2>1. edit[o].ask \in Edits
    BY <1>2, <1>5 DEF Create, Save
  <2>2. \E s \in Schedules, row \in ScheduleRow :
          /\ Dated(row) /\ (schedule[s] = Nothing \/ lock[s] = Nobody)
          /\ schedule' = [schedule EXCEPT ![s] = row]
    <3>1. CASE Create(o)
      <4>1. edit[o].ask.config \in Config
        BY <2>1, <3>1, AutoAssumption DEF Create
      <4>2. /\ Scheduled(edit[o].ask.config, "active") \in ScheduleRow
            /\ Dated(Scheduled(edit[o].ask.config, "active"))
        BY <1>1, <4>1, ScheduledRow
      <4> QED
        BY <3>1, <4>2 DEF Create, Unused
    <3>2. CASE Save(o)
      <4>1. PICK s \in Current(edit[o].ask.goal) :
              /\ lock[s] = Nobody
              /\ schedule' = [schedule EXCEPT ![s] = Edited(schedule[s], edit[o].ask)]
        BY <3>2 DEF Save
      <4>2. s \in Schedules /\ schedule[s] \in ScheduleRow /\ Dated(schedule[s])
        BY <1>1, <4>1 DEF Current, Types, ScheduleTypes
      <4>3. /\ Edited(schedule[s], edit[o].ask) \in ScheduleRow
            /\ Dated(Edited(schedule[s], edit[o].ask))
        BY <1>1, <2>1, <4>2, EditedRow
      <4> QED
        BY <4>1, <4>2, <4>3
    <3> QED
      BY <1>5, <3>1, <3>2
  <2>3. UNCHANGED <<clock, runs, moneyVars, jobVars>> /\ edit' = [edit EXCEPT ![o] = Nothing]
    BY <1>5 DEF Create, Save
  <2>4. edit' \in [Owners -> Asked \cup {Nothing}]
    BY <1>2, <2>3
  <2>5. AutoTypeOK' /\ \A q \in Sessions : Own(q)'
    BY <2>2, <2>3, <2>4, RowWritten
  <2>6. (JobsFit /\ StagedRunIsCurrent)'
    BY <2>5 DEF JobsFit, StagedRunIsCurrent, Own, Holding
  <2> QED
    BY <1>1, <2>3, <2>5, <2>6, MatchKept DEF AutoInv, moneyVars
<1> QED
  BY <1>3, <1>4, <1>5

LEMMA OthersKeep ==
    ASSUME AutoInv, Others \/ Tick
    PROVE  AutoInv'
<1>1. Types /\ AutoTypeOK
  BY TypesWhole DEF AutoInv
<1>2. /\ edit \in [Owners -> [ask : Edits, fit : BOOLEAN] \cup {Nothing}]
      /\ clock \in 0 .. Horizon /\ MoneyTypes
  BY <1>1 DEF Types
<1>3. ASSUME NEW g \in Goals, NEW a \in Accounts, NEW n \in 1 .. MaxFree, Manual(g, a, n)
      PROVE  AutoInv'
  <2>1. n \in Nat /\ n <= free[a] /\ Contribute(g, a, n)
    BY <1>3, AutoAssumption DEF Manual
  <2>2. MoneyTypes'
    BY <1>1, <1>2, <1>3, <2>1, ContributeTypes DEF Manual, MoneyTypes
  <2> QED
    BY <1>2, <1>3, <2>2, AsideKeeps DEF Manual, jobVars
<1>4. ASSUME NEW a \in Accounts, NEW n \in 0 .. MaxFree, Move(a, n)
      PROVE  AutoInv'
  <2>1. MoneyTypes'
    BY <1>2, <1>4 DEF Move, MoneyTypes
  <2> QED
    BY <1>2, <1>4, <2>1, AsideKeeps DEF Move, jobVars
<1>5. ASSUME NEW a \in Accounts, Flip(a)
      PROVE  AutoInv'
  <2>1. (~open[a]) \in BOOLEAN
    OBVIOUS
  <2>2. MoneyTypes'
    BY <1>2, <1>5, <2>1 DEF Flip, MoneyTypes
  <2> QED
    BY <1>2, <1>5, <2>2, AsideKeeps DEF Flip, jobVars
<1>6. ASSUME NEW g \in Goals, DeleteGoal(g)
      PROVE  AutoInv'
  <2>1. [goal[g] EXCEPT !.live = FALSE, !.status = "cancelled"]
          \in [current : Nat, status : {"active", "completed", "cancelled"}, live : BOOLEAN]
    BY <1>2, <1>6 DEF MoneyTypes
  <2>2. goal' = [goal EXCEPT ![g] = [goal[g] EXCEPT !.live = FALSE, !.status = "cancelled"]]
    BY <1>2, <1>6 DEF DeleteGoal, MoneyTypes
  <2>3. MoneyTypes'
    BY <1>2, <1>6, <2>1, <2>2 DEF DeleteGoal, MoneyTypes
  <2> QED
    BY <1>2, <1>6, <2>3, AsideKeeps DEF DeleteGoal, jobVars
<1>7. CASE Tick
  <2>1. clock' \in 0 .. Horizon
    BY <1>2, <1>7, AutoAssumption DEF Tick
  <2> QED
    BY <1>2, <1>7, <2>1, AsideKeeps DEF Tick, MoneyTypes, moneyVars
<1> QED
  BY <1>3, <1>4, <1>5, <1>6, <1>7 DEF Others

-----------------------------------------------------------------------------
LEMMA AutoInitially == AutoInit => AutoInv
<1> SUFFICES ASSUME AutoInit PROVE AutoInv
  OBVIOUS
<1>1. NoJob \in Job
  <2>1. 0 \in Days
    BY AutoAssumption DEF Days
  <2> QED
    BY <2>1, NoJobFits
<1>2. AutoTypeOK
  BY <1>1, AutoAssumption DEF AutoInit, AutoTypeOK, LockInit, LockTypeOK
<1>3. JobsFit /\ StagedRunIsCurrent
  BY DEF AutoInit, JobsFit, StagedRunIsCurrent, Holding
<1>4. RunsMatchMoney
  BY DEF AutoInit, RunsMatchMoney
<1> QED
  BY <1>2, <1>3, <1>4 DEF AutoInv

LEMMA AutoInductive == AutoInv /\ [AutoNext]_autoVars => AutoInv'
<1> SUFFICES ASSUME AutoInv, [AutoNext]_autoVars PROVE AutoInv'
  OBVIOUS
<1>1. ASSUME NEW p \in Sessions, PStep(p) PROVE AutoInv'
  <2>1. Step(p)
    BY <1>1, ExecutionKeeps
  <2>2. \A q \in Sessions : Own(q)
    BY OwnAll DEF AutoInv
  <2>3. \A q \in Sessions : Own(q)'
    BY <2>1, <2>2, KeptOwn DEF Step
  <2>4. (JobsFit /\ StagedRunIsCurrent)'
    BY <2>3 DEF JobsFit, StagedRunIsCurrent, Own, Holding
  <2> QED
    BY <2>1, <2>4 DEF Step, AutoInv
<1>2. CASE UNCHANGED autoVars
  <2>1. MoneyTypes /\ Types
    BY TypesWhole DEF AutoInv, Types
  <2> QED
    BY <1>2, <2>1, AsideKeeps DEF autoVars, moneyVars, MoneyTypes, Types
<1> QED
  BY <1>1, <1>2, OwnersKeep, OthersKeep DEF AutoNext, PStep

(***************************************************************************)
(* Whatever edits, executions, failures, restarts and clocks there are,    *)
(* the inductive invariant of automatic contributions holds.               *)
(***************************************************************************)
THEOREM AutoInvariant == AutoSpec => []AutoInv
<1> QED
  BY AutoInitially, AutoInductive, PTL DEF AutoSpec

(***************************************************************************)
(* Schedules, runs and balances are well formed, and a schedule has a next *)
(* occurrence exactly while it is active: create, patch, pause, resume,    *)
(* delete and the executions agree on it.                                  *)
(***************************************************************************)
THEOREM AutoTypeCorrect == AutoSpec => []AutoTypeOK
<1>1. AutoInv => AutoTypeOK
  BY DEF AutoInv
<1> QED
  BY <1>1, AutoInvariant, PTL

(***************************************************************************)
(* From selection to commit nobody else edits the schedule an execution    *)
(* has locked nor records the occurrence it works on.                      *)
(***************************************************************************)
THEOREM StagedRunStaysCurrent == AutoSpec => []StagedRunIsCurrent
<1>1. AutoInv => StagedRunIsCurrent
  BY DEF AutoInv
<1> QED
  BY <1>1, AutoInvariant, PTL

(***************************************************************************)
(* However often an occurrence is attempted, by whom, and wherever it is   *)
(* killed, it has moved what its run says and nothing else.                *)
(***************************************************************************)
THEOREM RunsAlwaysMatchMoney == AutoSpec => []RunsMatchMoney
<1>1. AutoInv => RunsMatchMoney
  BY DEF AutoInv
<1> QED
  BY <1>1, AutoInvariant, PTL

-----------------------------------------------------------------------------
(* The occurrences between two dates *)

\* A date is some number of periods, and the remainder that is its day.
LEMMA Division ==
    ASSUME NEW x \in Int
    PROVE  /\ x \div Period \in Int /\ x % Period \in 0 .. Period - 1
           /\ x = (x \div Period) * Period + (x % Period)
  BY AutoAssumption

LEMMA Remainder ==
    ASSUME NEW k \in Int, NEW r \in 0 .. Period - 1
    PROVE  (k * Period + r) % Period = r
  BY AutoAssumption

LEMMA Periods ==
    ASSUME NEW i \in Int, NEW j \in Int
    PROVE  /\ i * Period \in Int
           /\ i * Period + j * Period = (i + j) * Period
           /\ i * Period <= j * Period => i <= j
           /\ 0 * Period = 0 /\ 1 * Period = Period
           /\ j - i \in Int /\ j * Period - i * Period = (j - i) * Period
  BY AutoAssumption

LEMMA FewPeriods ==
    ASSUME NEW j \in Int
    PROVE  /\ j * Period \in Int /\ 1 * Period = Period /\ 0 * Period = 0
           /\ 0 < j * Period => 1 <= j
           /\ j * Period < 2 * Period => j <= 1
  BY AutoAssumption

\* Two occurrences of a day are a number of periods apart.
LEMMA OccurrencesApart ==
    ASSUME NEW d \in Int, NEW e \in Int, e % Period = d % Period
    PROVE  \E j \in Int : e = d + j * Period
<1> DEFINE kd == d \div Period
           ke == e \div Period
           r == d % Period
<1>1. /\ kd \in Int /\ ke \in Int /\ r \in Int
      /\ d = kd * Period + r /\ e = ke * Period + r
  BY Division, AutoAssumption
<1> HIDE DEF kd, ke, r
<1>2. ke - kd \in Int /\ ke * Period - kd * Period = (ke - kd) * Period
  BY <1>1, Periods
<1>3. kd * Period \in Int /\ ke * Period \in Int
  BY <1>1, Periods
<1>4. e = d + (ke - kd) * Period
  <2>1. e - d = ke * Period - kd * Period
    BY <1>1, <1>3
  <2> QED
    BY <1>1, <1>2, <1>3, <2>1
<1> QED
  BY <1>2, <1>4

\* Whole periods later it is the same day.
LEMMA SameDay ==
    ASSUME NEW d \in Int, NEW j \in Int
    PROVE  (d + j * Period) % Period = d % Period
<1> DEFINE k == d \div Period
           r == d % Period
<1>1. k \in Int /\ r \in 0 .. Period - 1 /\ r \in Int /\ d = k * Period + r
  BY Division, AutoAssumption
<1> HIDE DEF k, r
<1>2. k * Period \in Int /\ j * Period \in Int /\ k * Period + j * Period = (k + j) * Period
  BY <1>1, Periods
<1>3. d + j * Period = (k + j) * Period + r
  BY <1>1, <1>2
<1>4. ((k + j) * Period + r) % Period = r
  BY <1>1, Remainder
<1> QED
  BY <1>3, <1>4 DEF r

\* The next occurrence falls on the day, within one period.
LEMMA FollowingOccurrence ==
    ASSUME NEW day \in 0 .. Period - 1, NEW now \in Nat
    PROVE  /\ Following(day, now) \in Int /\ Following(day, now) % Period = day
           /\ now < Following(day, now) /\ Following(day, now) <= now + Period
<1> DEFINE r == (day - now) % Period
           k == (day - now) \div Period
           candidate == now + r
<1>1. Period \in Nat \ {0} /\ day \in Int /\ now \in Int
  BY AutoAssumption
<1>2. r \in 0 .. Period - 1 /\ k \in Int /\ day - now = k * Period + r
  <2>1. day - now \in Int
    BY <1>1
  <2> QED
    BY <2>1, Division
<1> HIDE DEF r, k
<1>3. candidate \in Int /\ candidate + Period \in Int /\ 0 - k \in Int /\ 1 - k \in Int
  BY <1>1, <1>2
<1>4. k * Period \in Int /\ 0 * Period - k * Period = (0 - k) * Period /\ 0 * Period = 0
      /\ 1 * Period - k * Period = (1 - k) * Period /\ 1 * Period = Period
  BY <1>2, Periods
<1>5. candidate = day + (0 - k) * Period /\ candidate + Period = day + (1 - k) * Period
  BY <1>1, <1>2, <1>3, <1>4
<1>6. candidate % Period = day % Period /\ (candidate + Period) % Period = day % Period
  BY <1>1, <1>3, <1>5, SameDay
<1>7. day % Period = day
  <2>1. (0 * Period + day) % Period = day /\ 0 * Period = 0
    BY Remainder, <1>4
  <2> QED
    BY <1>1, <2>1
<1>8. Following(day, now) = IF candidate <= now THEN candidate + Period ELSE candidate
  BY DEF Following, r
<1>9. candidate \in now .. now + Period - 1
  BY <1>1, <1>2
<1> HIDE DEF candidate
<1> QED
  BY <1>1, <1>3, <1>6, <1>7, <1>8, <1>9

\* One period holds one occurrence.
LEMMA OneOccurrence ==
    ASSUME NEW row, NEW d \in Int, d % Period = row.day,
           NEW e \in Int, e % Period = row.day, d < e, e < d + 2 * Period
    PROVE  e = d + Period /\ Between(row, d + 1, e) = {e}
<1>1. Period \in Nat \ {0}
  BY AutoAssumption
<1>2. ASSUME NEW f \in Int, f % Period = row.day, d < f, f < d + 2 * Period
      PROVE  f = d + Period
  <2>1. PICK j \in Int : f = d + j * Period
    BY <1>2, OccurrencesApart
  <2>2. /\ j * Period \in Int /\ 1 * Period = Period
        /\ 0 < j * Period => 1 <= j
        /\ j * Period < 2 * Period => j <= 1
    BY FewPeriods
  <2>3. 0 < j * Period /\ j * Period < 2 * Period
    <3>1. 2 * Period \in Int
      BY <1>1
    <3> QED
      BY <1>2, <2>1, <2>2, <3>1
  <2>6. j = 1
    BY <2>2, <2>3
  <2> QED
    BY <2>1, <2>2, <2>6
<1>3. e = d + Period
  BY <1>2
<1>4. \A f \in d + 1 .. e : f % Period = row.day => f = e
  <2> SUFFICES ASSUME NEW f \in d + 1 .. e, f % Period = row.day PROVE f = e
    OBVIOUS
  <2>1. f \in Int /\ d < f /\ f < d + 2 * Period
    BY <1>1
  <2> QED
    BY <1>2, <1>3, <2>1
<1>5. e \in d + 1 .. e
  OBVIOUS
<1> QED
  BY <1>3, <1>4, <1>5 DEF Between

\* n periods after one occurrence there are n more.
LEMMA CountOccurrences ==
    ASSUME NEW row, NEW first \in Int, first % Period = row.day, NEW n \in Nat
    PROVE  /\ Cardinality(Between(row, first, first + n * Period)) = n + 1
           /\ first + n * Period \in Between(row, first, first + n * Period)
<1> DEFINE last == first + n * Period
           all == Between(row, first, last)
           f == [i \in 0 .. n |-> first + i * Period]
<1>1. Period \in Nat \ {0} /\ last \in Int
  BY AutoAssumption, Periods
<1>2. ASSUME NEW i \in 0 .. n PROVE first + i * Period \in all
  <2>1. i \in Int /\ i * Period \in Nat /\ n * Period \in Int
    BY <1>1, Periods
  <2>2. i * Period <= n * Period
    <3>1. n - i \in Nat /\ (n - i) * Period \in Nat
      BY <1>1
    <3>2. n * Period - i * Period = (n - i) * Period
      BY <2>1, Periods
    <3> QED
      BY <2>1, <3>1, <3>2
  <2>3. (first + i * Period) % Period = row.day
    BY <2>1, SameDay
  <2> QED
    BY <2>1, <2>2, <2>3 DEF Between
<1>3. f \in [0 .. n -> all]
  BY <1>2
<1>4. ASSUME NEW i \in 0 .. n, NEW j \in 0 .. n, f[i] = f[j] PROVE i = j
  <2>1. i \in Int /\ j \in Int /\ i * Period \in Int /\ j * Period \in Int
    BY <1>1
  <2>2. first + i * Period = first + j * Period
    BY <1>4
  <2>3. i * Period <= j * Period /\ j * Period <= i * Period
    BY <2>1, <2>2
  <2>4. i <= j /\ j <= i
    BY <2>1, <2>3, Periods
  <2> QED
    BY <2>1, <2>4
<1>5. ASSUME NEW d \in all PROVE \E i \in 0 .. n : f[i] = d
  <2>1. d \in first .. last /\ d \in Int /\ d % Period = row.day
    BY <1>1 DEF Between
  <2>2. PICK i \in Int : d = first + i * Period
    BY <2>1, OccurrencesApart
  <2>3. i * Period \in Int /\ n * Period \in Int /\ 0 * Period = 0
    BY Periods
  <2>4. 0 * Period <= i * Period /\ i * Period <= n * Period
    BY <2>1, <2>2, <2>3
  <2>5. 0 <= i /\ i <= n
    BY <2>4, Periods
  <2> QED
    BY <2>2, <2>5
<1> HIDE DEF all, last
<1>6. f \in Bijection(0 .. n, all)
  <2> HIDE DEF f
  <2> QED
    BY <1>3, <1>4, <1>5 DEF Bijection, Injection, Surjection, IsInjective
<1>7. IsFiniteSet(0 .. n) /\ Cardinality(0 .. n) = n + 1
  BY FS_Interval
<1>8. Cardinality(all) = n + 1
  <2>1. ExistsBijection(0 .. n, all)
    BY <1>6 DEF ExistsBijection
  <2> QED
    BY <1>7, <2>1, FS_Bijection
<1>9. n \in 0 .. n
  OBVIOUS
<1> QED
  BY <1>2, <1>8, <1>9 DEF all, last

-----------------------------------------------------------------------------
(* What a batch executes is the latest occurrence that is due *)

\* An active schedule's next occurrence falls on the schedule's day.
OnCalendar ==
    \A s \in Schedules :
        schedule[s] # Nothing /\ schedule[s].next # Nothing =>
          schedule[s].next % Period = schedule[s].day

LatestDue(p) ==
    /\ pc[p] = "byid" => job[p].mode = "single"
    /\ pc[p] \in Holding /\ job[p].mode = "batch" =>
         LET row == job[p].seen IN
         /\ row.next \in Nat /\ row.next <= job[p].now
         /\ row.next % Period = row.day
         /\ job[p].missed = Missed(row, job[p].now)
         /\ job[p].due = row.next + job[p].missed * Period

OccurrenceInv == OnCalendar /\ \A p \in Sessions : LatestDue(p)

\* A row's next occurrence, if it has one, falls on its day.
Placed(row) == row.next # Nothing => row.next % Period = row.day

LEMMA AdvancedPlaced ==
    ASSUME NEW row \in ScheduleRow, NEW now \in Nat
    PROVE  /\ Placed(Paused(row)) /\ Placed(Cancelled(row)) /\ Placed(Advanced(row, now))
           /\ Advanced(row, now).day = row.day
<1>1. Following(row.day, now) % Period = row.day
  BY FollowingOccurrence DEF ScheduleRow
<1> QED
  BY <1>1 DEF Placed, Paused, Cancelled, Advanced, ScheduleRow

LEMMA AfterPlaced ==
    ASSUME NEW row \in ScheduleRow, NEW now \in Nat, NEW code \in Codes,
           NEW stopped \in BOOLEAN
    PROVE  LET new == After(row, code, now, stopped) IN
           /\ Placed([row EXCEPT !.status = new.status, !.next = new.next])
           /\ new.status = "active" => new.next = Following(row.day, now)
<1> DEFINE new == After(row, code, now, stopped)
<1>1. new \in {Paused(row), Cancelled(row), Advanced(row, now)}
  BY DEF After, Codes
<1>2. Placed(new) /\ new.day = row.day
  BY <1>1, AdvancedPlaced DEF Paused, Cancelled, ScheduleRow
<1>3. new.status = "active" => new.next = Following(row.day, now)
  BY <1>1 DEF Paused, Cancelled, Advanced, ScheduleRow
<1> HIDE DEF new
<1>4. Placed([row EXCEPT !.status = new.status, !.next = new.next])
  BY <1>2 DEF Placed, ScheduleRow
<1> QED
  BY <1>3, <1>4 DEF new

\* Writing one placed row keeps the calendar.
LEMMA PlacedWrite ==
    ASSUME OnCalendar, schedule \in [Schedules -> ScheduleRow \cup {Nothing}],
           NEW s \in Schedules, NEW row, Placed(row),
           schedule' = [schedule EXCEPT ![s] = row]
    PROVE  OnCalendar'
  BY DEF OnCalendar, Placed

\* An execution that ends writes its schedule so.
LEMMA AfterWrite ==
    ASSUME AutoInv, OnCalendar, NEW p \in Sessions, pc[p] \in Holding,
           NEW code \in Codes, NEW stopped \in BOOLEAN,
           WriteSchedule(job[p].id, After(job[p].seen, code, job[p].now, stopped))
    PROVE  /\ OnCalendar'
           /\ schedule'[job[p].id].status = "active" =>
                schedule'[job[p].id].next = Following(job[p].seen.day, job[p].now)
<1> DEFINE s == job[p].id
           row == job[p].seen
           new == After(row, code, job[p].now, stopped)
           written == [row EXCEPT !.status = new.status, !.next = new.next]
<1>1. /\ s \in Schedules /\ schedule[s] = row /\ row \in ScheduleRow /\ job[p].now \in Nat
      /\ schedule \in [Schedules -> ScheduleRow \cup {Nothing}]
  BY Held DEF AutoInv, AutoTypeOK
<1>2. /\ Placed(written)
      /\ new.status = "active" => new.next = Following(row.day, job[p].now)
  BY <1>1, AfterPlaced
<1>3. schedule' = [schedule EXCEPT ![s] = written]
  BY <1>1 DEF WriteSchedule
<1>4. written.status = new.status /\ written.next = new.next
  BY <1>1 DEF ScheduleRow
<1> HIDE DEF written, new, s
<1>5. schedule'[s] = written
  BY <1>1, <1>3
<1>6. OnCalendar'
  BY <1>1, <1>2, <1>3, PlacedWrite
<1> QED
  BY <1>2, <1>4, <1>5, <1>6 DEF s

LEMMA ExecuteWrites ==
    ASSUME AutoInv, OnCalendar, NEW p \in Sessions, Execute(p)
    PROVE  /\ OnCalendar'
           /\ schedule'[job[p].id].status = "active" =>
                schedule'[job[p].id].next = Following(job[p].seen.day, job[p].now)
<1> DEFINE row == job[p].seen
           g == GoalOf[job[p].id]
           code == Outcome(row, g)
           amount == IF code = "success" THEN Candidate(row, g) ELSE 0
           stopped == amount = Remaining(g)
<1>1. pc[p] \in Holding /\ WriteSchedule(job[p].id, After(row, code, job[p].now, stopped))
  BY DEF Execute, Holding
<1>2. code \in Codes /\ stopped \in BOOLEAN
  BY OutcomeCode
<1> HIDE DEF code, stopped
<1> QED
  BY <1>1, <1>2, AfterWrite

LEMMA ReconcileWrites ==
    ASSUME AutoInv, OnCalendar, NEW p \in Sessions, Reconcile(p)
    PROVE  OnCalendar'
<1> DEFINE g == goal[GoalOf[job[p].id]]
           code == IF ExistingRun(p).code = "success" /\ g.status = "cancelled"
                   THEN "goal_cancelled"
                   ELSE ExistingRun(p).code
           stopped == g.status = "completed" \/ ~g.live
<1>1. /\ pc[p] \in Holding
      /\ WriteSchedule(job[p].id, After(job[p].seen, code, job[p].now, stopped))
  BY DEF Reconcile, Holding
<1>2. job[p].id \in Schedules /\ job[p].due \in Days /\ g.live \in BOOLEAN
  BY <1>1, Held DEF AutoInv, AutoTypeOK
<1>3. stopped \in BOOLEAN
  BY <1>2
<1>4. code \in Codes
  <2>1. runs[job[p].id][job[p].due] \in Run \cup {Nothing}
    BY <1>2 DEF AutoInv, AutoTypeOK
  <2>2. ExistingRun(p).code \in Codes
    BY <2>1 DEF Reconcile, ExistingRun, Run
  <2> QED
    BY <2>2 DEF Codes
<1> HIDE DEF code, stopped
<1> QED
  BY <1>1, <1>3, <1>4, AfterWrite

\* Owners write rows whose next occurrence is computed, kept or removed.
LEMMA OwnersWrite ==
    ASSUME AutoInv, OnCalendar, NEW o \in Owners, Create(o) \/ Save(o)
    PROVE  OnCalendar'
<1>1. /\ schedule \in [Schedules -> ScheduleRow \cup {Nothing}]
      /\ clock \in Nat /\ edit[o].ask \in Edits
  BY AutoAssumption DEF AutoInv, AutoTypeOK, Create, Save
<1>2. ASSUME NEW c \in Config, NEW status PROVE Placed(Scheduled(c, status))
  <2>1. Following(c.day, clock) % Period = c.day
    BY <1>1, FollowingOccurrence DEF Config
  <2> QED
    BY <2>1 DEF Placed, Scheduled
<1>3. CASE Create(o)
  <2>1. PICK s \in Unused(edit[o].ask.goal) :
          schedule' = [schedule EXCEPT ![s] = Scheduled(edit[o].ask.config, "active")]
    BY <1>3 DEF Create
  <2>2. s \in Schedules /\ Placed(Scheduled(edit[o].ask.config, "active"))
    BY <1>1, <1>2, <1>3, <2>1, AutoAssumption DEF Create, Unused
  <2> QED
    BY <1>1, <2>1, <2>2, PlacedWrite
<1>4. CASE Save(o)
  <2> DEFINE e == edit[o].ask
  <2>1. PICK s \in Current(e.goal) : schedule' = [schedule EXCEPT ![s] = Edited(schedule[s], e)]
    BY <1>4 DEF Save
  <2> DEFINE row == schedule[s]
  <2>2. s \in Schedules /\ row \in ScheduleRow /\ Placed(row)
    BY <1>1, <2>1 DEF Current, OnCalendar, Placed
  <2>3. e.op \in {"put", "patch", "pause", "resume", "delete"}
    BY <1>1, AutoAssumption
  <2>4. Placed(Edited(row, e))
    <3>1. CASE e.op = "put" \/ (e.op = "patch" /\ e.calendar)
      <4>1. Placed(Scheduled(e.config, row.status))
        BY <1>1, <1>2, <3>1, AutoAssumption
      <4> QED
        BY <3>1, <4>1 DEF Edited
    <3>2. CASE e.op = "patch" /\ ~e.calendar
      <4>1. Placed([row EXCEPT !.acct = e.config.acct, !.amount = e.config.amount])
        BY <2>2 DEF Placed, ScheduleRow
      <4> QED
        BY <3>2, <4>1 DEF Edited
    <3>3. CASE e.op \in {"pause", "resume", "delete"}
      BY <1>1, <2>2, <3>3, AdvancedPlaced DEF Edited
    <3> QED
      BY <2>3, <3>1, <3>2, <3>3
  <2> QED
    BY <1>1, <2>1, <2>2, <2>4, PlacedWrite
<1> QED
  BY <1>3, <1>4

\* The calendar is kept by every step.
LEMMA CalendarKept ==
    ASSUME AutoInv, OnCalendar, [AutoNext]_autoVars
    PROVE  OnCalendar'
<1>1. CASE UNCHANGED schedule
  BY <1>1 DEF OnCalendar
<1>2. ASSUME NEW p \in Sessions, PStep(p) PROVE OnCalendar'
  <2>1. AutoTypeOK /\ JobsFit /\ StagedRunIsCurrent
    BY DEF AutoInv
  <2>2. UNCHANGED schedule \/ Reconcile(p) \/ Execute(p)
    BY <1>2 DEF PStep, Work, Start, Select, Finish, LockSchedule, Reject, Proceed, LockRow,
                Fail, Crash, Call
  <2> QED
    BY <1>1, <2>2, ExecuteWrites, ReconcileWrites
<1>3. ASSUME NEW o \in Owners, (\E e \in Edits : Ask(o, e)) \/ Create(o) \/ Save(o) \/ Drop(o)
      PROVE OnCalendar'
  BY <1>1, <1>3, OwnersWrite DEF Ask, Drop
<1>4. CASE Others \/ Tick
  BY <1>1, <1>4 DEF Others, Manual, Move, Flip, DeleteGoal, Tick
<1> QED
  BY <1>1, <1>2, <1>3, <1>4 DEF AutoNext, PStep, autoVars

\* What an invocation selects is the latest occurrence due.
LEMMA SelectLatest ==
    ASSUME AutoInv, OnCalendar, NEW p \in Sessions, Select(p)
    PROVE  LatestDue(p)'
<1> DEFINE s == Earliest(Selectable(p))
           row == schedule[s]
           missed == Missed(row, job[p].now)
           new == [job[p] EXCEPT !.tried = @ \cup {s}, !.id = s,
                                 !.due = row.next + missed * Period,
                                 !.missed = missed, !.seen = row]
<1>1. /\ s \in Schedules /\ row \in ScheduleRow /\ row.next \in Nat /\ row.next <= job[p].now
  BY SelectedDue DEF Select, AutoInv
<1>2. row.next % Period = row.day
  BY <1>1, NothingAssumption DEF OnCalendar
<1>3. /\ job \in [Sessions -> Job] /\ job[p] \in Job
      /\ pc \in [Sessions -> {"idle", "loop", "byid", "selected", "account", "goal", "decide"}]
  BY DEF AutoInv, AutoTypeOK
<1>4. job' = [job EXCEPT ![p] = new] /\ pc' = [pc EXCEPT ![p] = "selected"]
  BY DEF Select, WorkOn
<1>5. /\ new.seen = row /\ new.now = job[p].now /\ new.missed = missed
      /\ new.due = row.next + missed * Period
  BY <1>3 DEF Job
<1> HIDE DEF new, s, missed
<1>6. job'[p] = new /\ pc'[p] = "selected"
  BY <1>3, <1>4
<1> QED
  BY <1>1, <1>2, <1>5, <1>6 DEF LatestDue, missed

LEMMA LatestDueKept ==
    ASSUME AutoInv, OccurrenceInv, NEW p \in Sessions, PStep(p)
    PROVE  \A q \in Sessions : LatestDue(q)'
<1>1. AutoTypeOK /\ JobsFit /\ StagedRunIsCurrent /\ OnCalendar /\ LatestDue(p)
  BY DEF AutoInv, OccurrenceInv
<1>2. /\ pc \in [Sessions -> {"idle", "loop", "byid", "selected", "account", "goal", "decide"}]
      /\ job \in [Sessions -> Job]
  BY <1>1 DEF AutoTypeOK
<1>3. ASSUME NEW q \in Sessions \ {p} PROVE LatestDue(q)'
  <2>1. pc'[q] = pc[q] /\ job'[q] = job[q]
    BY ExecutionKeeps DEF Step, Kept
  <2> QED
    BY <2>1 DEF OccurrenceInv, LatestDue
<1>4. LatestDue(p)'
  <2>1. CASE Select(p)
    BY <1>1, <2>1, SelectLatest
  <2>2. CASE LockSchedule(p)
    <3>1. job[p].mode = "single" /\ job[p] \in Job
      BY <1>1, <1>2, <2>2 DEF LockSchedule, LatestDue
    <3>2. job'[p].mode = "single" /\ pc'[p] = "selected"
      BY <1>2, <2>2, <3>1 DEF LockSchedule, WorkOn, Job
    <3> QED
      BY <3>2 DEF LatestDue
  <2>3. CASE Start(p) \/ Finish(p)
    <3>1. pc'[p] \in {"loop", "idle"}
      BY <1>2, <2>3 DEF Start, Finish
    <3> QED
      BY <3>1 DEF LatestDue, Holding
  <2>4. ASSUME NEW s \in Schedules, NEW due \in 0 .. Horizon, Call(p, s, due)
        PROVE  LatestDue(p)'
    <3>1. pc'[p] = "byid" /\ job'[p].mode = "single"
      BY <1>2, <2>4 DEF Call, NoJob
    <3> QED
      BY <3>1 DEF LatestDue, Holding
  <2>5. CASE Reconcile(p) \/ Reject(p) \/ Execute(p) \/ Fail(p) \/ Crash(p)
    <3>1. Ends(p)
      BY <2>5 DEF Ends, Reconcile, Reject, Execute, Fail, Crash
    <3>2. pc'[p] \in {"idle", "loop"}
      BY <1>1, <3>1, EndFrame
    <3> QED
      BY <3>2 DEF LatestDue, Holding
  <2>6. CASE Proceed(p) \/ LockRow(p)
    <3>1. pc[p] \in Holding /\ pc'[p] \in Holding /\ job' = job
      BY <1>2, <2>6 DEF Proceed, LockRow, Holding
    <3> QED
      BY <1>1, <3>1 DEF LatestDue, Holding
  <2> QED
    BY <2>1, <2>2, <2>3, <2>4, <2>5, <2>6 DEF PStep, Work
<1> QED
  BY <1>3, <1>4

LEMMA OccurrencesInductive ==
    ASSUME AutoInv, OccurrenceInv, [AutoNext]_autoVars
    PROVE  OccurrenceInv'
<1>1. OnCalendar'
  BY CalendarKept DEF OccurrenceInv
<1>2. CASE \E p \in Sessions : PStep(p)
  BY <1>1, <1>2, LatestDueKept DEF OccurrenceInv
<1>3. CASE UNCHANGED <<pc, job>>
  BY <1>1, <1>3 DEF OccurrenceInv, LatestDue
<1>4. ASSUME NEW o \in Owners, (\E e \in Edits : Ask(o, e)) \/ Create(o) \/ Save(o) \/ Drop(o)
      PROVE UNCHANGED <<pc, job>>
  BY <1>4 DEF Ask, Create, Save, Drop, jobVars
<1>5. CASE Others \/ Tick
  BY <1>3, <1>5 DEF Others, Manual, Move, Flip, DeleteGoal, Tick, jobVars
<1> QED
  BY <1>2, <1>3, <1>4, <1>5 DEF AutoNext, PStep, autoVars, jobVars

\* Only the execution that holds the schedule records a run.
LEMMA RecordedByHolder ==
    ASSUME AutoInv, [AutoNext]_autoVars, NEW s \in Schedules, NEW d \in Days,
           runs[s][d] = Nothing, runs'[s][d] # Nothing
    PROVE  \E p \in Sessions : /\ Execute(p) /\ job[p].id = s /\ job[p].due = d /\ lock[s] = p
                               /\ runs'[s][d].missed = job[p].missed
<1>1. PICK p \in Sessions : Execute(p)
  <2>1. runs' # runs
    OBVIOUS
  <2>2. ASSUME NEW p \in Sessions, PStep(p), ~Execute(p) PROVE runs' = runs
    BY <2>2 DEF PStep, Work, Start, Select, Finish, LockSchedule, Reconcile, Reject, Proceed,
                LockRow, Fail, Crash, Call
  <2>3. ASSUME NEW o \in Owners,
               (\E e \in Edits : Ask(o, e)) \/ Create(o) \/ Save(o) \/ Drop(o)
        PROVE  runs' = runs
    BY <2>3 DEF Ask, Create, Save, Drop
  <2>4. Others \/ Tick => runs' = runs
    BY DEF Others, Manual, Move, Flip, DeleteGoal, Tick
  <2> QED
    BY <2>1, <2>2, <2>3, <2>4 DEF AutoNext, PStep, autoVars
<1>2. lock[job[p].id] = p /\ job[p].id \in Schedules /\ job[p].due \in Days
  BY <1>1, Held DEF AutoInv, Execute, Holding
<1> DEFINE run == [code |-> Outcome(job[p].seen, GoalOf[job[p].id]),
                   amount |-> IF Outcome(job[p].seen, GoalOf[job[p].id]) = "success"
                              THEN Candidate(job[p].seen, GoalOf[job[p].id]) ELSE 0,
                   missed |-> job[p].missed]
<1>3. runs' = [runs EXCEPT ![job[p].id][job[p].due] = run]
  BY <1>1 DEF Execute
<1>4. run.missed = job[p].missed
  OBVIOUS
<1>5. runs \in [Schedules -> [Days -> Run \cup {Nothing}]]
  BY DEF AutoInv, AutoTypeOK
<1> HIDE DEF run
<1>6. job[p].id = s /\ job[p].due = d /\ runs'[s][d] = run
  BY <1>2, <1>3, <1>5
<1> QED
  BY <1>1, <1>2, <1>4, <1>6

\* Everything up to the occurrence executed is this one or missed, and what follows is next.
LEMMA RecordAccounts ==
    ASSUME AutoInv, OccurrenceInv, [AutoNext]_autoVars, NEW s \in Schedules, NEW d \in Days,
           ProcessorRecords(s, d)
    PROVE  LET row == schedule[s]
               after == schedule'[s]
           IN  /\ Cardinality(Between(row, row.next, d)) = runs'[s][d].missed + 1
               /\ d \in Between(row, row.next, d)
               /\ after.status = "active" => Between(row, d + 1, after.next) = {after.next}
<1>1. PICK p \in Sessions : /\ Execute(p) /\ job[p].id = s /\ job[p].due = d /\ lock[s] = p
                            /\ runs'[s][d].missed = job[p].missed
  BY RecordedByHolder DEF ProcessorRecords
<1> DEFINE row == schedule[s]
           now == job[p].now
           missed == Missed(row, now)
<1>2. pc[p] \in Holding /\ job[p].mode = "batch"
  BY <1>1 DEF ProcessorRecords, Execute, Holding
<1>3. /\ row = job[p].seen /\ row \in ScheduleRow /\ now \in Nat
  BY <1>1, <1>2, Held DEF AutoInv
<1>4. /\ row.next \in Nat /\ row.next <= now /\ row.next % Period = row.day
      /\ job[p].missed = missed /\ d = row.next + missed * Period
  BY <1>1, <1>2, <1>3 DEF OccurrenceInv, LatestDue
<1>5. /\ missed \in Nat /\ missed * Period \in Int
      /\ row.next + missed * Period <= now /\ now < row.next + missed * Period + Period
  <2>1. now - row.next \in Nat /\ Period \in Nat \ {0}
    BY <1>3, <1>4, AutoAssumption
  <2>2. /\ (now - row.next) % Period \in 0 .. Period - 1
        /\ now - row.next = missed * Period + ((now - row.next) % Period)
    <3>1. missed = (now - row.next) \div Period
      BY DEF Missed
    <3> HIDE DEF missed
    <3>2. now - row.next \in Int
      BY <2>1
    <3>3. /\ (now - row.next) % Period \in 0 .. Period - 1
          /\ now - row.next
              = ((now - row.next) \div Period) * Period + ((now - row.next) % Period)
      BY <3>2, Division, Zenon
    <3> QED
      BY <3>1, <3>3
  <2>3. missed \in Nat /\ missed * Period \in Int
    BY <2>1 DEF Missed
  <2> HIDE DEF missed
  <2> QED
    BY <1>3, <1>4, <2>1, <2>2, <2>3
<1> HIDE DEF missed
<1>6. /\ Cardinality(Between(row, row.next, d)) = missed + 1
      /\ d \in Between(row, row.next, d)
  BY <1>4, <1>5, CountOccurrences
<1>7. ASSUME schedule'[s].status = "active"
      PROVE  Between(row, d + 1, schedule'[s].next) = {schedule'[s].next}
  <2> DEFINE e == Following(row.day, now)
  <2>1. schedule'[s].next = e
    BY <1>1, <1>3, <1>7, ExecuteWrites DEF OccurrenceInv
  <2>2. e \in Int /\ e % Period = row.day /\ now < e /\ e <= now + Period
    BY <1>3, FollowingOccurrence DEF ScheduleRow
  <2>3. d \in Int /\ d % Period = row.day
    BY <1>4, <1>5, SameDay
  <2> HIDE DEF e
  <2>4. d < e /\ e < d + 2 * Period
    <3>1. Period \in Nat \ {0}
      BY AutoAssumption
    <3>2. d <= now /\ now < d + Period
      BY <1>4, <1>5
    <3> HIDE DEF now
    <3>3. now \in Nat
      BY <1>3
    <3> QED
      BY <2>2, <2>3, <3>1, <3>2, <3>3
  <2>5. Between(row, d + 1, e) = {e}
    BY <2>2, <2>3, <2>4, OneOccurrence
  <2> QED
    BY <2>1, <2>5
<1> QED
  BY <1>1, <1>4, <1>6, <1>7

(***************************************************************************)
(* When the processor records a run, the occurrences since the one that    *)
(* was due first are the one executed and those counted as missed, and the *)
(* schedule's next one is the very next: none is lost or counted twice,    *)
(* for any period, delay and skew of the clocks.                           *)
(***************************************************************************)
THEOREM OccurrencesAccounted == AutoSpec => EachOccurrenceAccounted
<1>1. AutoInit => OccurrenceInv
  BY DEF AutoInit, OccurrenceInv, OnCalendar, LatestDue, Holding
<1>2. AutoInv /\ OccurrenceInv /\ [AutoNext]_autoVars => OccurrenceInv'
  BY OccurrencesInductive
<1>3. AutoInv /\ OccurrenceInv /\ [AutoNext]_autoVars =>
        [\A s \in Schedules, d \in Days :
           ProcessorRecords(s, d) =>
             LET row == schedule[s]
                 after == schedule'[s]
             IN  /\ Cardinality(Between(row, row.next, d)) = runs'[s][d].missed + 1
                 /\ d \in Between(row, row.next, d)
                 /\ after.status = "active" =>
                      Between(row, d + 1, after.next) = {after.next}]_autoVars
  BY RecordAccounts
<1> QED
  BY <1>1, <1>2, <1>3, AutoInvariant, PTL DEF AutoSpec, EachOccurrenceAccounted

===============================================================================
