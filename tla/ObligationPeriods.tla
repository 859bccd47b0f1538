--------------------------- MODULE ObligationPeriods ---------------------------
(***************************************************************************)
(* What one obligation does to its own rows: the calendar of its periods   *)
(* and their creation (app/obligations/period_engine.py), the edits of its *)
(* owner, the end of its life cycle and the split of a payment over        *)
(* periods (app/obligations/service_v17.py, and service.py, the older      *)
(* entry points that are still served).  All of it is computed from rows   *)
(* that the session has locked; Obligations runs the sessions.             *)
(*                                                                         *)
(* Time counts days and a period lasts Length of them, as a weekly or      *)
(* biweekly obligation's do; months and years of unequal length are left   *)
(* out.                                                                    *)
(***************************************************************************)
EXTENDS Integers, FiniteSets, Functions

CONSTANTS
    Obligations,
    Terms,      \* what each obligation was created with
    Length,     \* days of a period
    Horizon     \* bound: the last day

(***************************************************************************)
(* The terms: whether amounts are fixed or defined period by period, when  *)
(* the obligation ends (once, after `last' periods, by the day `last', or  *)
(* never), its first day, how long after the start of a period it is due,  *)
(* and the amount of a fixed one.                                          *)
(***************************************************************************)
Term == [amounts : {"fixed", "variable"}, ends : {"once", "count", "date", "never"},
         last : Nat, start : Nat, offset : Nat, base : Nat \ {0}]

ASSUME TermsAssumption ==
    /\ Length \in Nat \ {0} /\ Horizon \in Nat
    /\ Terms \in [Obligations -> Term]
    /\ \A o \in Obligations : Terms[o].ends = "count" => Terms[o].last > 0

Days == 0 .. Horizon

\* Sequence numbers that can be reached: one period ahead of the last day.
Numbers == 1 .. Horizon \div Length + 2

Open == {"pending_amount_definition", "pending_payment", "partially_paid", "overdue"}
Payable == Open \ {"pending_amount_definition"}
Closed == {"paid", "skipped", "cancelled"}

\* A period, absent until it is created; an amount of 0 stands for NULL.
Period == [status : {"absent"} \cup Open \cup Closed, amount : Nat, paid : Nat]

Absent == [status |-> "absent", amount |-> 0, paid |-> 0]

\* A row of obligations with its periods.
Row == [status : {"none", "active", "completed", "archived", "cancelled"},
        base : Nat, periods : [Numbers -> Period]]

NoRow == [status |-> "none", base |-> 0, periods |-> [n \in Numbers |-> Absent]]

Existing(ob) == {n \in Numbers : ob.periods[n].status # "absent"}

With(ob, n, status) == [ob EXCEPT !.periods[n].status = status]

-----------------------------------------------------------------------------
(* The calendar *)

StartOf(o, n) == Terms[o].start + (n - 1) * Length

DueOf(o, n) == StartOf(o, n) + Terms[o].offset

SequenceOn(o, day) ==
    IF day < Terms[o].start THEN 1 ELSE (day - Terms[o].start) \div Length + 1

\* The periods that must exist on a day: up to the current one and the next.
Wanted(o, day) ==
    {n \in Numbers :
        /\ n <= (IF Terms[o].ends = "once" THEN 1 ELSE SequenceOn(o, day) + 1)
        /\ Terms[o].ends = "count" => n <= Terms[o].last
        /\ Terms[o].ends = "date" => StartOf(o, n) <= Terms[o].last}

\* A new period; one created after its due day is overdue at once.
NewPeriod(o, base, n, day) ==
    IF Terms[o].amounts = "fixed"
    THEN [status |-> IF DueOf(o, n) < day THEN "overdue" ELSE "pending_payment",
          amount |-> base, paid |-> 0]
    ELSE [Absent EXCEPT !.status = "pending_amount_definition"]

\* The first period is never overdue when it is created, whatever its due day.
FirstPeriod(o) == NewPeriod(o, Terms[o].base, 1, 0)

\* create_obligation: the row and its first period.
Created(o) ==
    [status |-> "active", base |-> Terms[o].base,
     periods |-> [n \in Numbers |-> IF n = 1 THEN FirstPeriod(o) ELSE Absent]]

IsLate(o, p, n, day) ==
    /\ p.status \in {"pending_payment", "partially_paid"}
    /\ DueOf(o, n) < day

\* PeriodEngine.sync_periods: late periods are overdue, missing ones created.
Synced(o, ob, day) ==
    [ob EXCEPT !.periods =
        [n \in Numbers |->
            LET p == ob.periods[n] IN
            CASE p.status = "absent" /\ n \in Wanted(o, day) -> NewPeriod(o, ob.base, n, day)
              [] IsLate(o, p, n, day) -> [p EXCEPT !.status = "overdue"]
              [] OTHER -> p]]

-----------------------------------------------------------------------------
(* The life cycle *)

AllClosed(ob, numbers) == \A n \in numbers : ob.periods[n].status \in Closed

\* The obligation has nothing left to pay, now or later.
Settled(o, ob) ==
    LET there == Existing(ob)
        newest == CHOOSE n \in there : \A m \in there : m <= n
    IN  /\ there # {}
        /\ CASE Terms[o].ends = "once"  -> AllClosed(ob, there)
             [] Terms[o].ends = "count" ->
                  1 .. Terms[o].last \subseteq there /\ AllClosed(ob, 1 .. Terms[o].last)
             [] Terms[o].ends = "date"  ->
                  AllClosed(ob, there) /\ StartOf(o, newest + 1) > Terms[o].last
             [] OTHER -> FALSE

Evaluated(o, ob) ==
    IF ob.status = "active" /\ Settled(o, ob) THEN [ob EXCEPT !.status = "completed"] ELSE ob

RefreshedSyncOnly(o, ob, day) ==    \* a mutant: the life cycle is not evaluated
    IF ob.status = "active" THEN Synced(o, ob, day) ELSE ob

\* refresh_overdue_periods, which ends every operation of the current API.
Refreshed(o, ob, day) ==
    IF ob.status = "active" THEN Evaluated(o, Synced(o, ob, day)) ELSE ob

-----------------------------------------------------------------------------
(* Edits: what they ask of the rows, and what they make of them *)

RebasedAll(o, ob, amount, day) ==   \* a mutant: partly paid periods change too
    [ob EXCEPT !.base = amount,
               !.periods = [n \in Numbers |->
                  LET p == ob.periods[n] IN
                  IF p.status \in Payable THEN [p EXCEPT !.amount = amount] ELSE p]]

\* A new base amount reaches the periods that start later and are untouched.
Rebased(o, ob, amount, day) ==
    [ob EXCEPT !.base = amount,
               !.periods = [n \in Numbers |->
                  LET p == ob.periods[n] IN
                  IF /\ StartOf(o, n) > day
                     /\ p.status \in {"pending_payment", "overdue"}
                     /\ p.paid = 0
                  THEN [p EXCEPT !.amount = amount] ELSE p]]

\* The older endpoint may redefine an amount down to what is already paid.
Redefined(o, ob, n, amount, day) ==
    LET p == ob.periods[n]
        status == IF p.paid >= amount THEN "paid"
                  ELSE IF p.status # "pending_amount_definition" THEN p.status
                  ELSE IF DueOf(o, n) < day THEN "overdue" ELSE "pending_payment"
    IN  [ob EXCEPT !.periods[n] = [p EXCEPT !.amount = amount, !.status = status]]

\* update_obligation: what is completed or cancelled stays so.
MayBecome(ob, status) == ob.status \in {"active", "archived", status}

IsActive(ob) == ob.status = "active"

MayDefine(o, ob, n) ==
    /\ IsActive(ob) /\ Terms[o].amounts = "variable"
    /\ ob.periods[n].status = "pending_amount_definition"

Defined(o, ob, n, amount, day) ==
    LET priced == [ob EXCEPT !.periods[n].amount = amount]
    IN  Refreshed(o, With(priced, n, "pending_payment"), day)

Untouched == Open \ {"partially_paid"}

\* A period that was paid in part, and is overdue since, may be skipped.
MaySkip(ob, n) == IsActive(ob) /\ ob.periods[n].status \in Untouched

MayCancel(ob, n) ==
    /\ IsActive(ob) /\ ob.periods[n].paid = 0
    /\ ob.periods[n].status \in Untouched \cup {"skipped"}

\* skip_period and cancel_period: the life cycle is evaluated twice.
Dropped(o, ob, n, status, day) == Refreshed(o, Evaluated(o, With(ob, n, status)), day)

MayRedefine(o, ob, n, amount) ==
    /\ IsActive(ob) /\ Terms[o].amounts = "variable"
    /\ ob.periods[n].status \in Open
    /\ amount >= ob.periods[n].paid

MaySkipOld(ob, n) ==
    IsActive(ob) /\ ob.periods[n].status \in Open /\ ob.periods[n].paid = 0

SkippedOld(o, ob, n) == Evaluated(o, With(ob, n, "skipped"))

EditAllowed(o, ob, r) ==
    CASE r.op = "create"     -> ob.status = "none"
      [] r.op = "archive"    -> MayBecome(ob, "archived")
      [] r.op = "resume"     -> MayBecome(ob, "active")
      [] r.op = "stop"       -> MayBecome(ob, "cancelled")
      [] r.op = "rebase"     -> ob.status # "none" /\ Terms[o].amounts = "fixed"
      [] r.op = "refresh"    -> ob.status # "none"
      [] r.op = "define"     -> MayDefine(o, ob, r.n)
      [] r.op = "skip"       -> MaySkip(ob, r.n)
      [] r.op = "cancel"     -> MayCancel(ob, r.n)
      [] r.op = "old_define" -> MayRedefine(o, ob, r.n, r.amount)
      [] r.op = "old_skip"   -> MaySkipOld(ob, r.n)

Edited(o, ob, r, day) ==
    CASE r.op = "create"     -> Created(o)
      [] r.op = "archive"    -> [ob EXCEPT !.status = "archived"]
      [] r.op = "resume"     -> [ob EXCEPT !.status = "active"]
      [] r.op = "stop"       -> [ob EXCEPT !.status = "cancelled"]
      [] r.op = "rebase"     -> Rebased(o, ob, r.amount, day)
      [] r.op = "refresh"    -> Refreshed(o, ob, day)
      [] r.op = "define"     -> Defined(o, ob, r.n, r.amount, day)
      [] r.op = "skip"       -> Dropped(o, ob, r.n, "skipped", day)
      [] r.op = "cancel"     -> Dropped(o, ob, r.n, "cancelled", day)
      [] r.op = "old_define" -> Evaluated(o, Redefined(o, ob, r.n, r.amount, day))
      [] r.op = "old_skip"   -> SkippedOld(o, ob, r.n)

-----------------------------------------------------------------------------
(* Payments: of one period, the automatic ones among them, or split *)

SingleOps == {"pay", "auto", "old_pay"}

Remaining(ob, n) == ob.periods[n].amount - ob.periods[n].paid

PayableIn(ob) == {n \in Existing(ob) : ob.periods[n].status \in Payable}

BeforeNewest(ob, r, n) == {m \in PayableIn(ob) : m > n}     \* a mutant: descending order

\* The periods paid before n: by due day; the older endpoint, overdue first.
Before(ob, r, n) ==
    {m \in PayableIn(ob) :
        IF r.op = "old_fifo"
        THEN LET late(k) == ob.periods[k].status = "overdue"
             IN  IF late(m) = late(n) THEN m < n ELSE late(m)
        ELSE m < n}

\* A split payment needs the amount of the oldest period that is not closed.
FifoBlocked(ob) ==
    \E n \in Existing(ob) :
        /\ ob.periods[n].status = "pending_amount_definition"
        /\ \A m \in Existing(ob) : m < n => ob.periods[m].status \in Closed

Targets(ob, r) ==
    IF r.op \in SingleOps THEN PayableIn(ob) \cap {r.n} ELSE PayableIn(ob)

OwedNow(ob, r) == SumFunctionOnSet([n \in Numbers |-> Remaining(ob, n)], Targets(ob, r))

\* What a payment applies: 0 asks for all that is left, which the automatic
\* payments and the older endpoints do.
Applied(ob, r) == IF r.amount = 0 THEN OwedNow(ob, r) ELSE r.amount

Smaller(a, b) == IF a < b THEN a ELSE b

Slices(ob, r) ==
    [n \in Numbers |->
        IF n \notin Targets(ob, r) THEN 0
        ELSE LET earlier == SumFunctionOnSet([m \in Numbers |-> Remaining(ob, m)],
                                    Before(ob, r, n) \cap Targets(ob, r))
                 left == Applied(ob, r) - earlier
             IN  IF left <= 0 THEN 0 ELSE Smaller(left, Remaining(ob, n))]

PaymentFits(ob, r) ==
    /\ r.op \notin SingleOps => ~FifoBlocked(ob)
    /\ Applied(ob, r) > 0
    /\ Applied(ob, r) <= OwedNow(ob, r)

\* The periods after the payment; then the current API refreshes.
Paid(o, ob, r, slices, day) ==
    LET after == [ob EXCEPT !.periods =
                    [n \in Numbers |->
                        LET p == ob.periods[n] IN
                        IF slices[n] = 0 THEN p
                        ELSE [p EXCEPT !.paid = @ + slices[n],
                                       !.status = IF p.paid + slices[n] < p.amount
                                                  THEN "partially_paid" ELSE "paid"]]]
    IN  IF r.op \in {"old_pay", "old_fifo"} THEN Evaluated(o, after)
        ELSE Refreshed(o, after, day)

=============================================================================
