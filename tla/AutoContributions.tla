-------------------------- MODULE AutoContributions --------------------------
(***************************************************************************)
(* Automatic contributions to goals (app/goals/service.py 1173-2123): the  *)
(* schedules their owners create and edit, the processor that cron starts, *)
(* possibly several times at once, and the execution of one occurrence on  *)
(* request.                                                                *)
(*                                                                         *)
(* An execution is one transaction: it locks the schedule, the account and *)
(* the goal, contributes under a command id derived from the schedule and  *)
(* the occurrence, moves the schedule to its next occurrence and records a *)
(* run.  That a contribution happens as if in one step, whatever runs      *)
(* beside it, is what GoalFunds shows; here it is one step, and what is    *)
(* left of other requests are single steps too, which wait for the rows an *)
(* execution has locked.                                                   *)
(*                                                                         *)
(* Time counts days, an occurrence falling on one day of each period, as a *)
(* weekly schedule's does.                                                 *)
(***************************************************************************)
EXTENDS Integers, FiniteSets, RowLocks

CONSTANTS
    Schedules,      \* ids of schedules, created or not
    Goals, Accounts,
    GoalOf,         \* the goal each schedule is created for
    IdOrder,        \* the order of schedule ids
    Target,         \* the target of each goal
    Opening,        \* what each account has available at the start
    MaxFree,        \* bound: what an account may ever have available
    Owners,         \* HTTP sessions that edit schedules
    Callers,        \* sessions that execute single occurrences on request
    Edits,          \* the edits they may ask for
    Period,         \* days between occurrences
    Horizon,        \* bound: the last day
    Skew,           \* how far the clock of the processor's host may be ahead
    Batch,          \* schedules one invocation attempts at most
    Nothing         \* no row, no date

Days == 0 .. Horizon + Skew

Config == [acct : Accounts, amount : Nat \ {0}, day : 0 .. Period - 1]

ASSUME AutoAssumption ==
    /\ Period \in Nat \ {0} /\ Horizon \in Nat /\ Skew \in Nat /\ Batch \in Nat \ {0}
    /\ GoalOf \in [Schedules -> Goals]
    /\ IdOrder \in [Schedules -> Nat]
    /\ \A s, t \in Schedules : IdOrder[s] = IdOrder[t] => s = t
    /\ Target \in [Goals -> Nat \ {0}]
    /\ MaxFree \in Nat /\ Opening \in [Accounts -> 0 .. MaxFree]
    /\ \A e \in Edits :
         /\ e.goal \in Goals
         /\ e.op \in {"put", "patch", "pause", "resume", "delete"}
         /\ e.op \in {"put", "patch"} => e.config \in Config
         /\ e.op = "patch" => e.calendar \in BOOLEAN
    /\ Schedules \cup Goals \cup Accounts \subseteq Rows

VARIABLES
    clock,      \* the day it is
    schedule,   \* goal_auto_contribution_schedules
    runs,       \* goal_auto_contribution_runs, by schedule and occurrence
    given,      \* the contributions recorded under each command id
    goal,       \* the goals: amount, status, is_active
    free,       \* the available balance of each account
    open,       \* accounts.is_active
    pc, job,    \* where each execution is, and what it works on
    edit        \* the edit each owner's session is about to write

moneyVars == <<given, goal, free, open>>
jobVars == <<pc, job, lock>>
autoVars == <<clock, schedule, runs, moneyVars, jobVars, edit>>

Codes == {"success", "insufficient", "account_inactive", "goal_completed",
          "goal_archived", "goal_cancelled"}

ScheduleRow == [acct : Accounts, amount : Nat \ {0}, day : 0 .. Period - 1,
                status : {"active", "paused", "cancelled"}, next : Nat \cup {Nothing}]

Run == [code : Codes, amount : Nat, missed : Nat]

Job == [mode : {"batch", "single"}, now : Days, tried : SUBSET Schedules,
        id : Schedules \cup {Nothing}, due : Days, missed : Nat,
        seen : ScheduleRow \cup {Nothing}]

ASSUME NothingAssumption == Nothing \notin Nat \cup Schedules \cup ScheduleRow \cup Run

NoJob == [mode |-> "batch", now |-> 0, tried |-> {},
          id |-> Nothing, due |-> 0, missed |-> 0, seen |-> Nothing]

(***************************************************************************)
(* The type invariant; a schedule has a next occurrence exactly while it   *)
(* is active (chk_gacs_active_next_run).                                   *)
(***************************************************************************)
AutoTypeOK ==
    /\ LockTypeOK
    /\ clock \in 0 .. Horizon
    /\ schedule \in [Schedules -> ScheduleRow \cup {Nothing}]
    /\ \A s \in Schedules : schedule[s] # Nothing =>
         (schedule[s].status = "active" <=> schedule[s].next # Nothing)
    /\ runs \in [Schedules -> [Days -> Run \cup {Nothing}]]
    /\ given \in [Schedules -> [Days -> Nat]]
    /\ goal \in [Goals -> [current : Nat, status : {"active", "completed", "cancelled"},
                           live : BOOLEAN]]
    /\ free \in [Accounts -> 0 .. MaxFree]
    /\ open \in [Accounts -> BOOLEAN]
    /\ pc \in [Sessions -> {"idle", "loop", "byid", "selected", "account", "goal", "decide"}]
    /\ job \in [Sessions -> Job]
    /\ edit \in [Owners -> [ask : Edits, fit : BOOLEAN] \cup {Nothing}]

AutoInit ==
    /\ clock = 0
    /\ schedule = [s \in Schedules |-> Nothing]
    /\ runs = [s \in Schedules |-> [d \in Days |-> Nothing]]
    /\ given = [s \in Schedules |-> [d \in Days |-> 0]]
    /\ goal = [g \in Goals |-> [current |-> 0, status |-> "active", live |-> TRUE]]
    /\ free = Opening
    /\ open = [a \in Accounts |-> TRUE]
    /\ LockInit
    /\ pc = [p \in Sessions |-> "idle"]
    /\ job = [p \in Sessions |-> NoJob]
    /\ edit = [o \in Owners |-> Nothing]

-----------------------------------------------------------------------------
(* Occurrences *)

\* _calculate_next_occurrence: the first occurrence after now.
Following(day, now) ==
    LET candidate == now + ((day - now) % Period) IN
    IF candidate <= now THEN candidate + Period ELSE candidate

MissedNone(row, now) ==         \* a mutant: the first occurrence due, not the latest
    0

\* calculate_latest_due_occurrence: how many occurrences are skipped.
Missed(row, now) == (now - row.next) \div Period

Due(s, now) ==
    schedule[s] # Nothing /\ schedule[s].status = "active" /\ schedule[s].next <= now

PausedDated(row) ==     \* a mutant: the next occurrence is kept
    [row EXCEPT !.status = "paused"]

Paused(row) == [row EXCEPT !.status = "paused", !.next = Nothing]
Cancelled(row) == [row EXCEPT !.status = "cancelled", !.next = Nothing]

Advanced(row, now) == [row EXCEPT !.status = "active", !.next = Following(row.day, now)]

Operational(g) == goal[g].live /\ goal[g].status = "active"

\* What becomes of a schedule when an occurrence ended with code.
After(row, code, now, stopped) ==
    CASE code \in {"goal_completed", "account_inactive", "goal_archived"} -> Paused(row)
      [] code = "goal_cancelled" -> Cancelled(row)
      [] code = "insufficient" -> Advanced(row, now)
      [] code = "success" -> IF stopped THEN Paused(row) ELSE Advanced(row, now)

\* The ORM writes back the two columns of the row it has read.
WriteSchedule(s, row) ==
    schedule' = [schedule EXCEPT ![s].status = row.status, ![s].next = row.next]

-----------------------------------------------------------------------------
(* Executions: an invocation of the processor, or one occurrence on request *)

\* cron starts process_due_auto_contributions, which reads the time once.
Start(p) ==
    /\ pc[p] = "idle"
    /\ \E ahead \in 0 .. Skew : job' = [job EXCEPT ![p] = [NoJob EXCEPT !.now = clock + ahead]]
    /\ pc' = [pc EXCEPT ![p] = "loop"]
    /\ UNCHANGED <<clock, schedule, runs, moneyVars, lock, edit>>

\* FOR UPDATE SKIP LOCKED, in the order of next_run_at and id.
Selectable(p) ==
    {s \in Schedules : Due(s, job[p].now) /\ lock[s] = Nobody /\ s \notin job[p].tried}

Earliest(S) ==
    CHOOSE s \in S : \A t \in S :
        \/ schedule[s].next < schedule[t].next
        \/ schedule[s].next = schedule[t].next /\ IdOrder[s] <= IdOrder[t]

MoreToDo(p) == Cardinality(job[p].tried) < Batch /\ Selectable(p) # {}

\* The execution p now works on occurrence due of schedule s.
WorkOn(p, s, due, missed) ==
    /\ job' = [job EXCEPT ![p] = [job[p] EXCEPT !.tried = @ \cup {s}, !.id = s, !.due = due,
                                                !.missed = missed, !.seen = schedule[s]]]
    /\ pc' = [pc EXCEPT ![p] = "selected"]

SelectUnlocked(p) ==    \* a mutant: SELECT without FOR UPDATE
    /\ pc[p] = "loop"
    /\ MoreToDo(p)
    /\ LET s == Earliest(Selectable(p))
           missed == Missed(schedule[s], job[p].now)
       IN  WorkOn(p, s, schedule[s].next + missed * Period, missed)
    /\ UNCHANGED <<clock, schedule, runs, moneyVars, lock, edit>>

Select(p) ==
    /\ pc[p] = "loop"
    /\ MoreToDo(p)
    /\ LET s == Earliest(Selectable(p))
           missed == Missed(schedule[s], job[p].now)
       IN  Take(p, s) /\ WorkOn(p, s, schedule[s].next + missed * Period, missed)
    /\ UNCHANGED <<clock, schedule, runs, moneyVars, edit>>

Finish(p) ==
    /\ pc[p] = "loop"
    /\ ~MoreToDo(p)
    /\ pc' = [pc EXCEPT ![p] = "idle"]
    /\ job' = [job EXCEPT ![p] = NoJob]
    /\ UNCHANGED <<clock, schedule, runs, moneyVars, lock, edit>>

\* execute_auto_contribution_occurrence, when no run is found before the lock.
Call(p, s, due) ==
    /\ p \in Callers
    /\ pc[p] = "idle"
    /\ schedule[s] # Nothing
    /\ due <= clock
    /\ runs[s][due] = Nothing
    /\ job' = [job EXCEPT ![p] = [NoJob EXCEPT !.mode = "single", !.now = clock,
                                               !.id = s, !.due = due]]
    /\ pc' = [pc EXCEPT ![p] = "byid"]
    /\ UNCHANGED <<clock, schedule, runs, moneyVars, lock, edit>>

LockSchedule(p) ==
    /\ pc[p] = "byid"
    /\ Available(p, job[p].id)
    /\ Take(p, job[p].id)
    /\ WorkOn(p, job[p].id, job[p].due, 0)
    /\ UNCHANGED <<clock, schedule, runs, moneyVars, edit>>

\* The processor keeps the time it read and the schedules it has attempted.
Resume(p) ==
    IF job[p].mode = "batch"
    THEN /\ pc' = [pc EXCEPT ![p] = "loop"]
         /\ job' = [job EXCEPT ![p] = [NoJob EXCEPT !.now = job[p].now, !.tried = job[p].tried]]
    ELSE /\ pc' = [pc EXCEPT ![p] = "idle"]
         /\ job' = [job EXCEPT ![p] = NoJob]

EndOpen(p) ==       \* a mutant: the transaction is left open
    /\ UNCHANGED lock
    /\ Resume(p)

\* COMMIT or ROLLBACK; the processor goes on with its loop.
EndTransaction(p) ==
    /\ ReleaseAll(p)
    /\ Resume(p)

ExistingRun(p) == runs[job[p].id][job[p].due]

\* _reconcile_existing_auto_contribution_run: the schedule alone moves on.
Reconcile(p) ==
    LET s == job[p].id IN
    /\ pc[p] = "selected"
    /\ job[p].mode = "batch"
    /\ ExistingRun(p) # Nothing
    /\ LET g == goal[GoalOf[s]]
           code == IF ExistingRun(p).code = "success" /\ g.status = "cancelled"
                   THEN "goal_cancelled"
                   ELSE ExistingRun(p).code
           stopped == g.status = "completed" \/ ~g.live
       IN  WriteSchedule(s, After(job[p].seen, code, job[p].now, stopped))
    /\ EndTransaction(p)
    /\ UNCHANGED <<clock, runs, moneyVars, edit>>

\* A single execution finds the run of another, or a schedule it may not run.
Reject(p) ==
    /\ pc[p] = "selected"
    /\ job[p].mode = "single"
    /\ \/ ExistingRun(p) # Nothing
       \/ job[p].seen.status # "active"
       \/ job[p].due % Period # job[p].seen.day
    /\ EndTransaction(p)
    /\ UNCHANGED <<clock, schedule, runs, moneyVars, edit>>

Proceed(p) ==
    /\ pc[p] = "selected"
    /\ ExistingRun(p) = Nothing
    /\ job[p].seen.status = "active"
    /\ job[p].due % Period = job[p].seen.day
    /\ pc' = [pc EXCEPT ![p] = "account"]
    /\ UNCHANGED <<clock, schedule, runs, moneyVars, job, lock, edit>>

\* The account, then the goal, as create_contribution locks them.
LockRow(p) ==
    LET row == IF pc[p] = "account" THEN job[p].seen.acct ELSE GoalOf[job[p].id] IN
    /\ pc[p] \in {"account", "goal"}
    /\ Available(p, row)
    /\ Take(p, row)
    /\ pc' = [pc EXCEPT ![p] = IF pc[p] = "account" THEN "goal" ELSE "decide"]
    /\ UNCHANGED <<clock, schedule, runs, moneyVars, job, edit>>

Remaining(g) == Target[g] - goal[g].current

Candidate(row, g) == IF row.amount <= Remaining(g) THEN row.amount ELSE Remaining(g)

\* The business reasons not to contribute, in the order of the code.
Outcome(row, g) ==
    IF goal[g].status = "completed" THEN "goal_completed"
    ELSE IF goal[g].status = "cancelled" THEN "goal_cancelled"
    ELSE IF ~goal[g].live THEN "goal_archived"
    ELSE IF ~open[row.acct] THEN "account_inactive"
    ELSE IF Remaining(g) <= 0 THEN "goal_completed"
    ELSE IF Candidate(row, g) > free[row.acct] THEN "insufficient"
    ELSE "success"

\* create_contribution in one step: n of account a is reserved for goal g.
Contribute(g, a, n) ==
    /\ goal' = [goal EXCEPT ![g].current = @ + n,
                            ![g].status = IF n = Remaining(g) THEN "completed" ELSE "active"]
    /\ free' = [free EXCEPT ![a] = @ - n]

\* Contribution, schedule and run are one transaction.
Execute(p) ==
    LET s == job[p].id
        row == job[p].seen
        g == GoalOf[s]
        code == Outcome(row, g)
        amount == IF code = "success" THEN Candidate(row, g) ELSE 0
    IN  /\ pc[p] = "decide"
        /\ ExistingRun(p) = Nothing
        /\ IF code = "success" THEN Contribute(g, row.acct, amount) ELSE UNCHANGED <<goal, free>>
        /\ given' = [given EXCEPT ![s][job[p].due] = @ + amount]
        /\ WriteSchedule(s, After(row, code, job[p].now, amount = Remaining(g)))
        /\ runs' = [runs EXCEPT ![s][job[p].due] =
                      [code |-> code, amount |-> amount, missed |-> job[p].missed]]
        /\ EndTransaction(p)
        /\ UNCHANGED <<clock, open, edit>>

FailHalfway(p) ==       \* a mutant: the contribution commits on its own
    LET s == job[p].id
        row == job[p].seen
    IN  /\ pc[p] = "decide"
        /\ Outcome(row, GoalOf[s]) = "success"
        /\ Contribute(GoalOf[s], row.acct, Candidate(row, GoalOf[s]))
        /\ given' = [given EXCEPT ![s][job[p].due] = @ + Candidate(row, GoalOf[s])]
        /\ EndTransaction(p)
        /\ UNCHANGED <<clock, schedule, runs, open, edit>>

\* A technical failure: rollback, and the schedule stays due.
Fail(p) ==
    /\ pc[p] \in {"byid", "selected", "account", "goal", "decide"}
    /\ EndTransaction(p)
    /\ UNCHANGED <<clock, schedule, runs, moneyVars, edit>>

\* The process is killed.
Crash(p) ==
    /\ pc[p] # "idle"
    /\ ReleaseAll(p)
    /\ pc' = [pc EXCEPT ![p] = "idle"]
    /\ job' = [job EXCEPT ![p] = NoJob]
    /\ UNCHANGED <<clock, schedule, runs, moneyVars, edit>>

-----------------------------------------------------------------------------
(* Owners: the goal is read first, the schedule is locked to be written *)

\* put checks the goal and the account before it looks for the schedule.
Ask(o, e) ==
    /\ edit[o] = Nothing
    /\ e.op = "put" => Operational(e.goal) /\ open[e.config.acct]
    /\ edit' = [edit EXCEPT ![o] = [ask |-> e, fit |-> Operational(e.goal)]]
    /\ UNCHANGED <<clock, schedule, runs, moneyVars, jobVars>>

\* The schedule of goal g, if it has one that is not cancelled.
Current(g) ==
    {s \in Schedules : GoalOf[s] = g /\ schedule[s] # Nothing /\ schedule[s].status # "cancelled"}

Unused(g) == {s \in Schedules : GoalOf[s] = g /\ schedule[s] = Nothing}

Scheduled(c, status) ==
    [acct |-> c.acct, amount |-> c.amount, day |-> c.day, status |-> status,
     next |-> IF status = "active" THEN Following(c.day, clock) ELSE Nothing]

Create(o) ==
    LET e == edit[o].ask IN
    /\ edit[o] # Nothing
    /\ e.op = "put"
    /\ Current(e.goal) = {}
    /\ \E s \in Unused(e.goal) :
         schedule' = [schedule EXCEPT ![s] = Scheduled(e.config, "active")]
    /\ edit' = [edit EXCEPT ![o] = Nothing]
    /\ UNCHANGED <<clock, runs, moneyVars, jobVars>>

\* The row after the edit: patch keeps the calendar unless it is given.
Edited(row, e) ==
    CASE e.op = "put" -> Scheduled(e.config, row.status)
      [] e.op = "patch" /\ e.calendar -> Scheduled(e.config, row.status)
      [] e.op = "patch" /\ ~e.calendar ->
           [row EXCEPT !.acct = e.config.acct, !.amount = e.config.amount]
      [] e.op = "pause" -> IF row.status = "active" THEN Paused(row) ELSE row
      [] e.op = "resume" -> Advanced(row, clock)
      [] e.op = "delete" -> Cancelled(row)

\* What is checked once the schedule is locked, the goal as it was read.
Acceptable(row, e, fit) ==
    /\ e.op = "patch" /\ e.config.acct # row.acct => open[e.config.acct]
    /\ e.op = "resume" => fit /\ open[row.acct]

Save(o) ==
    LET e == edit[o].ask IN
    /\ edit[o] # Nothing
    /\ \E s \in Current(e.goal) :
         /\ lock[s] = Nobody
         /\ Acceptable(schedule[s], e, edit[o].fit)
         /\ schedule' = [schedule EXCEPT ![s] = Edited(schedule[s], e)]
    /\ edit' = [edit EXCEPT ![o] = Nothing]
    /\ UNCHANGED <<clock, runs, moneyVars, jobVars>>

\* Refused, or lost.
Drop(o) ==
    /\ edit[o] # Nothing
    /\ edit' = [edit EXCEPT ![o] = Nothing]
    /\ UNCHANGED <<clock, schedule, runs, moneyVars, jobVars>>

-----------------------------------------------------------------------------
(* Other requests, each in one step *)

Manual(g, a, n) ==
    /\ lock[a] = Nobody /\ lock[g] = Nobody
    /\ Operational(g) /\ open[a]
    /\ n <= Remaining(g) /\ n <= free[a]
    /\ Contribute(g, a, n)
    /\ UNCHANGED <<clock, schedule, runs, given, open, jobVars, edit>>

\* Incomes, expenses, transfers.
Move(a, n) ==
    /\ lock[a] = Nobody
    /\ n # free[a]
    /\ free' = [free EXCEPT ![a] = n]
    /\ UNCHANGED <<clock, schedule, runs, given, goal, open, jobVars, edit>>

Flip(a) ==
    /\ lock[a] = Nobody
    /\ open' = [open EXCEPT ![a] = ~@]
    /\ UNCHANGED <<clock, schedule, runs, given, goal, free, jobVars, edit>>

DeleteGoal(g) ==
    /\ lock[g] = Nobody
    /\ goal[g].current = 0 /\ goal[g].live
    /\ goal' = [goal EXCEPT ![g].live = FALSE, ![g].status = "cancelled"]
    /\ UNCHANGED <<clock, schedule, runs, given, free, open, jobVars, edit>>

Tick ==
    /\ clock < Horizon
    /\ clock' = clock + 1
    /\ UNCHANGED <<schedule, runs, moneyVars, jobVars, edit>>

-----------------------------------------------------------------------------
Work(p) ==
    \/ Select(p) \/ Finish(p) \/ LockSchedule(p)
    \/ Reconcile(p) \/ Reject(p) \/ Proceed(p) \/ LockRow(p) \/ Execute(p)

Others ==
    \/ \E g \in Goals, a \in Accounts, n \in 1 .. MaxFree : Manual(g, a, n)
    \/ \E a \in Accounts, n \in 0 .. MaxFree : Move(a, n)
    \/ \E a \in Accounts : Flip(a)
    \/ \E g \in Goals : DeleteGoal(g)

AutoNext ==
    \/ \E p \in Sessions :
         \/ Start(p) \/ Work(p) \/ Fail(p) \/ Crash(p)
         \/ \E s \in Schedules, due \in 0 .. Horizon : Call(p, s, due)
    \/ \E o \in Owners :
         \/ \E e \in Edits : Ask(o, e)
         \/ Create(o) \/ Save(o) \/ Drop(o)
    \/ Others
    \/ Tick

AutoSpec == AutoInit /\ [][AutoNext]_autoVars

(***************************************************************************)
(* cron starts the processor again and again, a running process goes on,   *)
(* and it does not fail every time it gets to the same stage: a technical  *)
(* failure (a lost connection, a killed process) passes.                   *)
(***************************************************************************)
FairAutoSpec ==
    /\ AutoSpec
    /\ \A p \in Sessions :
         /\ WF_autoVars(Start(p))
         /\ \A stage \in {"loop", "byid", "selected", "account", "goal", "decide"} :
              SF_autoVars(pc[p] = stage /\ Work(p))

=============================================================================
