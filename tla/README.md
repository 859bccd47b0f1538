# A TLA+ model of the Nexum backend

Nexum is a FastAPI service over PostgreSQL for personal finance: accounts,
cash movements, transfers, savings goals, obligations, credit cards, exchange
rates and a chat that proposes operations. Paths below are relative to `src/`.
The specifications here model the part that moves money or decides about it, as
it runs: many requests at a time, each with its own database session and one
READ COMMITTED transaction, protected by row locks, by unique indexes on
idempotency keys, and by nothing else; and processors that cron starts.

Contents: 1 the system, 2 the modules, 3 the runs, 4 fairness and bounds,
5 the proofs, 6 findings, 7 what is not modelled, 8 what could come next.

## 1. The system

### Components

| Component | State | Operations | Modelled in |
|---|---|---|---|
| accounts (`app/accounts`) | `accounts`: balance, is_active | create, rename, archive, restore, adjust the balance, available balance | `LedgerMoves` |
| cash movements (`app/cash`) | none of its own | income, expense | `LedgerMoves`; their category in `Catalog` |
| transfers (`app/transfers`) | `transfers`, unique `command_id` | transfer, with or without exchange rate | `LedgerMoves`; two currencies in `FxQuotes` |
| ledger (`app/ledger`) | `financial_events`, unique `command_id`; audit of reclassifications | idempotent insert, reclassify, queries | `LedgerMoves`, `Catalog` |
| unit of work, sessions (`app/core`) | the open transactions | commit, rollback | `RowLocks`, and every module of sessions |
| goals (`app/goals`) | `goals` (target, cached amount, status), `goal_transactions` | create, update, delete, contribute, release | `GoalFunds` |
| automatic contributions (`app/goals`) | schedules, runs | create, pause, resume, edit, delete; cron processor, one occurrence on request | `AutoContributions` (weekly) |
| obligations (`app/obligations`) | obligations, periods, payments | create, edit, archive, resume, stop, refresh one or all, define, skip, cancel, pay one period or several; the older entry points | `ObligationPeriods`, `Obligations` |
| settlement in another currency (`app/obligations/settlement.py`) | quotes, snapshots used | preview, settle, split over periods | `FxQuotes` |
| automatic payments (`app/obligations/auto_*`) | configurations, runs | configure; cron processor with a second session for failures | `AutoPayments` |
| credit (`app/credit`) | cards, purchases, installments, payments | purchase, pay, pay early, preview, edit, delete | `Installments`, `Credit` |
| exchange rates (`app/fx`) | `exchange_rates`, `fx_quotes` | snapshot, quote | `FxQuotes` |
| conversations (`app/conversations`) | messages, pending actions | a turn: propose, clarify, pick, confirm, cancel | `Conversations` |
| categories (`app/categories`) | `categories` | create, rename, archive, restore | `Catalog` |
| users (`app/users`) | profiles | onboarding | `Catalog` |
| intelligence, integrations, configuration, migrations, scripts | reads, I/O | | no (section 7) |

### Interactions

Every component that moves money does the same three things: it locks rows of
`accounts` (`SELECT ... FOR UPDATE`, `accounts/repository.py:45-57`), inserts
ledger events under an idempotency key inside a savepoint
(`ledger/repository.py:106-189`), and writes the new balance on the locked row.
Goals never write a balance: a contribution *reserves* a part of it. What is
reserved is the signed sum of `goal_transactions`; accounts, obligations and
automatic payments read that sum before they take money, cash and transfers do
not. Automatic contributions and automatic payments are layers over the manual
ones: the same code, under a key derived from the schedule and the occurrence,
or from the obligation and the period, in one transaction with the run that
records them. A payment of an obligation in another currency asks the exchange
rates for a quote first and settles under it. The chat calls the services as a
route would, but cash and transfers commit a unit of work of their own.

### What is hard in this code

* **Read, decide, write.** Balances, goal amounts, periods, installments and
  statuses are computed in Python from rows read earlier and written back as
  values, so every lost lock is a lost update. Some operations hold the lock
  (money movements, obligations, cards), others do not (archive and restore,
  editing and deleting goals, names of categories, pending actions).
* **Locks in several orders.** A transfer takes two account rows, a
  contribution an account and a goal, a batch refresh all obligations of a
  user, a reclassification an event and two categories; payments and early
  payments of a card take card and account in opposite orders, and every
  insert may wait for an uncommitted key.
* **Retries.** A key may be reused after an answer, while the original is in
  flight, for another request, or for another operation.
* **Loss of a session** between any two statements; of a processor between the
  rollback of a failure and its record; of a chat turn between two commits.
* **The answer and the commit.** Most routes commit before they answer
  (`UnitOfWork`); releases, reclassifications and onboarding leave the commit
  to the dependency `get_db_session`, which runs after the answer.
* **Schedulers.** cron may start a second processor while the first still
  runs; both read the time once, at their start. Owners edit what they work on.
* **Rounding.** Installments, redistributions, converted amounts, slices of a
  settlement and stored rates are each rounded in their own way.

### What makes each part correct

Balances are what the ledger adds up to and are never overdrawn; a key is
applied once; every request ends. The cached amount of a goal is the sum of its
transactions, its status follows its amount, reserves are never negative and
grow only within the balance. An occurrence of a schedule moves money once and
with its run, none is lost, and a due schedule is served. Periods, payments,
events and balances of obligations tell one story; an obligation is completed
exactly when nothing is left to pay; what is closed stays; the oldest period is
paid first; an automatic payment has the owner's consent and comes in the end.
The debt of a card is what was charged less what was repaid, within the limit,
and later installments are left alone. Money changes currency at a price that
was answered and is still good, and slices add up. A question of the chat leads
to one operation at most, and what the user is told happened. The audit rows of
an event are the history of its category; names are distinct. `PROJECT.json`
lists the hazards line by line and the property that watches each.

## 2. The modules

| Module | What it is | Properties in | Proofs in | Instance |
|---|---|---|---|---|
| `RowLocks` | what the code relies on in PostgreSQL: exclusive rows and unique keys held to the end of the transaction | | | |
| `MoneyRequests` | requests as records, their key, the accounts they touch, what they post, the funds they need | | | |
| `LedgerMoves` | accounts, cash and transfers with concurrent sessions | `LedgerProperties` | `LedgerMoves_proofs` | `MCLedger` |
| `AtomicLedger` | what they promise: each request in one step | | | |
| `GoalFunds` | goals beside the ledger operations (EXTENDS `LedgerMoves`) | `GoalProperties` | `GoalFunds_proofs` | `MCGoals` |
| `AutoContributions` | the scheduler of contributions | `AutoProperties` | `AutoContributions_proofs` | `MCAuto` |
| `ObligationPeriods` | the rows of one obligation: calendar, edits, life cycle, split of a payment; pure | | | |
| `Obligations` | requests on obligations with concurrent sessions | `ObligationProperties` | `Obligations_proofs` | `MCObligations` |
| `AutoPayments` | the processor of automatic payments (EXTENDS `Obligations`) | `AutoPaymentProperties` | `Obligations_proofs` | `MCAutoPayments` |
| `Installments` | the arithmetic of purchases, waterfall and redistribution; pure | | | |
| `Credit` | cards with concurrent sessions | `CreditProperties` | `Credit_proofs` | `MCCredit` |
| `FxQuotes` | rates, offers and every path by which money changes currency | `FxProperties` | `CatalogFx_proofs` | `MCFx`, `MCCatalogFx` |
| `Conversations` | turns of a chat and their pending actions | `ConversationProperties` | `Conversations_proofs` | `MCConversations` |
| `Catalog` | profiles, categories, movements' categories, reclassifications | `CatalogProperties` | `CatalogFx_proofs` | `MCCatalogFx` |
| `FiniteSums` | lemmas about sums over finite sets | | | |

**Sessions.** `pc[s]` says where a session is and `req[s]` in which request. A
step of a model is a statement of the database or the Python between two of
them: that is all the interleaving there is, since sessions share nothing else.
A step may merge statements that run under locks all other writers of the same
rows need. What a session has read and will write back is a variable of its own
(`plan`, `draft`, `seen`, `funds`, `held`, `marks`), so that a stale read stays
stale. `Fail(s)` loses the session at any point. `Refuse(s)` is an error answer:
a rollback. `told` (`said` in the chat) records the answers "done".

**Ledger operations.** `Begin` receives a request (a transfer looks its key up
first: `EarlyReplay`), `LockFirst`/`LockSecond` take the rows, the two of a
transfer in id order. Then one of `Execute` (new key, accounts open, funds
found), `Adjust`, `AdjustNothing`, `Replay` (the key is known), `Refuse`; and
`Commit`. An insert waits while another transaction has inserted the same key:
`CanInsert`. `BeginFlip`/`Flip` are archive and restore: read without a lock,
UPDATE, then the check of the available balance with the balance read before.

**Goal operations.** `BeginReserve`, `LockReserve` (account, then goal),
`ReserveReplay`, `StageReserve`, `RefuseReserve`, `CommitReserve`;
`ReserveEarlyReplay` before any lock and `AnswerRelease` for the answer that
precedes the commit. `BeginRetarget`, `BeginDelete` and `WriteGoal` are
update_goal and delete_goal, without locks. `draft[s]` is the session's ORM copy
of the goal and the columns it has changed: the UPDATE writes those alone, which
is why an edit that raced with a contribution does not undo the amount. The sums
over `goal_transactions` are kept as `alloc` (goal and account), `progress`
(goal) and `reserved` (account), the only way the service reads that table.

**Automatic contributions.** `AutoContributions` is a layer over what
`GoalFunds` shows: a contribution, and every other request that moves money or
edits a goal, is one step here (`Contribute`, `Manual`, `Move`, `Flip`,
`DeleteGoal`), which waits for the rows an execution has locked. What stays
interleaved is the execution: `Start` (an invocation reads the time), `Select`
(the earliest due schedule nobody has locked, FOR UPDATE SKIP LOCKED, and the
latest of its due occurrences), `Reconcile` (its run exists: only the schedule
moves) or `Proceed`, `LockRow` (account, then goal), `Execute` (contribution,
run and schedule together), `Fail` (rollback, and the loop goes on), `Crash`,
`Finish`. `Call` and `LockSchedule` are the execution of one occurrence on
request, `execute_auto_contribution_occurrence`; nothing in `app/` or `scripts/`
calls it, the tests do, and a run without it has `Callers = {}`. An owner's edit
reads the goal (`Ask`), then waits for the schedule and writes it (`Create`,
`Save`); `edit[o].fit` is what it has read, so that a resume may act on a goal
that has been completed since: its next occurrence pauses it again.

**Obligations.** `ObligationPeriods` is what one request does to rows it has
locked, as operators: `Synced`, `Evaluated` and `Refreshed` are the period
engine and evaluate_lifecycle, `EditAllowed`/`Edited` every edit with its
refusals, `Targets`, `Slices` and `Paid` a payment of either API. `Obligations`
runs the sessions: `LockRoot` (the obligation, or one after the other all active
ones for refresh_due_periods_for_user, by id), `RootReplay`, `LockAccount`, and
`Pay`, `Edit` or `RefreshAll`, each of which commits. Periods are locked too,
always by the holder of their obligation, and share its lock. `Spend` and
`Archive` are the rest of the service, seen from the account.

**Automatic payments.** put_config is two steps: `ReadPut` reads configuration,
obligation, periods and account without a lock, and `WritePut` writes, when no
evaluation holds the row, the columns that differ from what was read (`Merged`),
as the ORM does; `puts` keeps the edits in flight, several at a time, over
midnight too. An edit reads its four tables in one step, and one that is never
written has failed. `Start` is an invocation, which
reads the date once and may outlive midnight (`late`), `Claim` FOR UPDATE SKIP
LOCKED, `Evaluate` every exit of an evaluation up to `AutoPay`, which commits
payment, run and next evaluation. `Raise` is an exception, `Persist` its record
by a fresh session, `Kill` a process that dies. `DuplicateRun` is an exception
the code always raises: the key of a run that found nothing, used up for a day.
It ends the invocation, since the handler reads attributes of a row that the
failed flush has expired; nothing is recorded then. Dates are relative to today
(-1, 0, 1), so that days go on for ever. One exit is simplified:
`AttemptedToday` leaves a next evaluation that is NULL as it is in the code, which
an enabled configuration can only have after about five overlapping edits.

**Credit.** `Begin`, `LockFirst` and `LockSecond` (account, then card, for a
payment; card, then account, for the rest), then `Charge`, `Pay`, `Replay`,
`Preview`, `SetLimit`, `Delete` or `Refuse`. Whether an early payment still has
an installment to move (`EndsEarly`) is decided once, when the purchase is read
under the card's lock, though the month may end before the commit. `Preview` is an early payment
computed on the ORM rows and rolled back. `Deadlock` is PostgreSQL's abort of one
of two sessions that wait for each other. A row the check constraints do not
allow (`RowsFit`) makes the commit an error.

**Exchange rates.** An offer is a row of `exchange_rates` or `fx_quotes`, its
rate rounded to the column when it is read again (`Stored`). `Snapshot`,
`Quote` and `Preview` make offers, `PayPeriod`, `PayFifo`, `PayNow` and `Exchange`
use them: what is accepted (`SnapshotFits`, `QuoteFits`), what is debited and
applied, and its slices by period. `market` and `now` move between steps.

**Conversations.** A message is received (`Begin`, `Redeliver` after a lost
session, `Duplicate`), reads and marks pending actions without locking them
(`Read`), cancels those beyond the last three, whatever they have become
(`Trim`), then cancels all, picks by number, holds one (`Hold`) or understands
something new (`Understand`, in any way a language model might). A held action
is clarified, when an expense may become a card purchase (`Promoted`), cancelled,
or executed: by `Execute` in one transaction; for cash and transfers by
`ExecuteCash`, which commits, and `Settle`, which marks the action in a second
one; for a new goal by `CheckName` and `CreateGoal`. create_goal is given no key:
all that keeps a second confirmation from a second goal is an unlocked look for
its name, made while the message holds the action's row, whose
`confirmation_message_id` it has written. `RenameGoal` is the user renaming or
deleting such a goal. `made` is what the services have recorded, by action, each
with the command it was given, or 0 for NULL, which only cash accepts and which
protects nothing.

**Catalog.** `Arrive` reads the profile and, of a category, the row, without a
lock; `Bootstrap`, `Create`, `Write` and `Record` are one statement each, under
the unique indexes. A reclassification locks its event, then the category it
enters (`LockEvent`, `KeyRetried`, `LockCategory`), inserts its audit row, whose
foreign key shares the category it leaves (`InsertAudit`), is answered, and
commits (`Commit`) afterwards. `Deadlock` as in `Credit`.

**Abstractions.** One user, except in `Catalog`; ownership checks succeed there
too for the owner and refuse for others. A command is compared as a whole
record, where the code compares fingerprints. Amounts are integers (cents); the
columns' bounds are modelled only where an amount is converted. Requests are a
fixed set, each of which may be sent any number of times, so that retries and
duplicates need no action of their own.

**Mutants.** `PROJECT.json` lists wrong versions of definitions (comments mark
those that stand in the modules): a lost FOR UPDATE, a missing check, a lock
order, a rounding. Each breaks the property it is listed with.

## 3. The runs

| Run | Instance | What it shows |
|---|---|---|
| `ledger_moves` | 2 sessions, 2 accounts, 2 keys; income, expenses, transfers both ways, adjustments, archive and restore, keys shared by different requests, an account with reserves; fair | `NoOverdraft`, `SuccessIsRecorded`, the inductive `StagedIsCurrent`; the sessions implement `AtomicLedger` (`AtomicSpec`), whose `AdjustAgain` is the exception the code makes; `EveryRequestAnswered` |
| `goals_reserves` | 2 sessions, 2 accounts, a goal fed from both, another fed without keys; releases, edits, delete, keys reused, expenses, archive and restore | `CurrentIsProgress`, `NoNegativeReserve`, `ReservesAreRecorded`, `ContributionSuccessIsOwn`, `NoGoalCircularWait`, `ReservesGrowFunded`, `FillsWithinTarget` |
| `autos_race` | 2 sessions, both run the processor, one also single occurrences; one schedule over three days, its owner, other requests | `AutoTypeOK`, `StagedRunIsCurrent` (so that the unique index of runs never has to decide, and its handler at `goals/service.py:1644` is a second line of defence), `RunsMatchMoney`, `EachOccurrenceAccounted` |
| `autos_due` | 2 schedules, 1 attempted per invocation, a host up to a day ahead; fair | `DueIsServed` |
| `obligations_pay` | 2 sessions, a fixed obligation of two periods and a variable one paid once, one account that others spend from and archive, two days; every payment of both APIs under one key, skip, define, rebase, archive, batch refresh | `MoneyAddsUp`, `LifeCycleIsSound`, `PaymentSuccessIsOwn`, `NoObligationCircularWait`, `HistoryIsKept`, `OldestFirst` |
| `autopay_due` | a processor, possibly a day late, one exception or kill, two accounts, a variable obligation of two periods that its owner defines, skips and archives; two edits of the configuration, which may overlap, enable, disable and move it; fair | `AutoPaymentsTypeOK`, `RunsMatchPayments`, `AutoPaysWithConsent`, `DueIsPaid` |
| `credit_pay` | 2 sessions, a card with 50 % interest, a purchase of three installments and one of one; payments, early payments, previews, a lower limit, deletion, a key shared by two operations; fair | `CreditTypeOK`, `DebtAddsUp`, `LimitHolds`, `FutureIsProtected`, `CreditRequestAnswered` |
| `conversations_chat` | 2 sessions, and a third for the first three messages; 4 messages, 2 open actions kept; an expense of cash, a card purchase, a new goal; a fifth message to an action that has run and lost its command | `OncePerQuestion`, `AnswersAreTrue` |
| `catalog_fx` | two systems without a table in common in one exploration, of which `running` chooses one: 2 sessions that name three categories and move two expenses between them in opposite directions under shared keys; and amounts that cross between dollars and pesos both ways by every path at two prices | `AuditChain`, `CategoryNamesDistinct`, `ReclassifiedIntoOpen`, `CatalogRequestAnswered`; `DebitsFollowThePrice`, `SplitsAddUp` |
| `ledger_drift`, `goals_edits`, `fx_preview` | as above | the findings of section 6: each ends in a violation |

The deadlock check of TLC is on, except where a bound stops the system: the
messages of a chat (`conversations_chat`), the offers and payments in
`FxQuotes` (`catalog_fx`, `fx_preview`). A run has from 22,000 (`credit_pay`) to
2.2 million states (`obligations_pay`) and takes up to about two minutes.

`OncePerQuestion` says what the code achieves and no more. For each command the
user was asked to confirm there is one operation at most that stands, and the
first operation of an action has such a command. A goal stands while it keeps its
name; what a cash action does that lost its command (section 6) is excluded,
after that first operation.

`EachOccurrenceAccounted` speaks of what the processor records: a single
execution that arrives late, or a clock ahead, may set a schedule back to an
occurrence that has run, and no money moves, since the processor finds the run
and reconciles. `FutureIsProtected` quotes the comment of the code it states.
`DebitsFollowThePrice` allows half a minimum unit of each currency and the error
of the stored rate, no more: it is where roundings made one after the other, in
the quote, the column and the settlement, would show.

## 4. Fairness and bounds

Safety properties assume nothing. Strong fairness of `Serve(s)`, the steps of a
session that has a request: the event loop runs every open request, and
PostgreSQL grants a row to its waiters in their order, so that a waiter whose
row becomes free again and again is not passed over for ever; weak fairness
would let it be. In `Credit` and `Catalog`, where sessions can wait in a circle,
weak fairness of `Deadlock(s)` is `deadlock_timeout`. Clients need not send
anything and connections need not break: `Begin` and `Fail` are not fair.

`FairAutoSpec` of `AutoContributions` has cron start the processor again and
again (weak fairness of `Start`), and strong fairness of a session's work at
each stage: a technical failure passes, it does not strike every attempt at the
same place. Without that the code promises nothing: a schedule that fails is
left due, and 50 that fail for ever fill every batch. `FairAutoSpec` of
`AutoPayments` has weak fairness of `Start` and of `Midnight`, strong fairness of
the progress of a processor and of the clients' open requests; exceptions are no
part of that progress, save the one the code always raises (`DuplicateRun`).
Owners and callers are not fair.

What is bounded, and where:

* The sizes of the sets in the MC modules. Two sessions, because every hazard
  here is a race of two. Two accounts and two or three keys: a transfer each
  way, two requests under one key, and one more.
* Balances of 1 and 2 and amounts of 1 and 2: an amount that fits once and not
  twice, one that exactly empties an account, one that exactly fills a goal. In
  `Credit` 4 in three installments leaves a remainder, 50 % of interest a
  fraction to round, and a limit of 6 is exactly reached.
* The key of an income or an expense is never freed, so that each key moves money
  once; only flips and keyless or repeated adjustments go on for ever, within
  the same balances. Keyless contributions and releases are bounded by the
  goal's target and by what is reserved.
* `Horizon`: the last day of `AutoContributions`, `ObligationPeriods` and
  `FxQuotes`, the last month of `Credit`, the last unit of 15 minutes of
  `Conversations`. Two periods of an obligation, one due and one ahead of it,
  become due and overdue within 1; a processor finds one occurrence missed and
  one due within 2; an offer, good for 2, expires at 2, and the shorter quote of
  a preview at 1.
* `Skew` 1 lets a host run an occurrence before the owner's clock has reached
  it. `Batch` 1 is the smallest that makes one schedule wait for another.
* `MaxFree` (what an account may ever have), `Schedules` (rows that may be
  created), `Closable` (accounts that may be archived), `MaxFaults` 1 and
  `MaxPuts` 2 (exceptions or kills, and edits of configurations: enabled, then
  disabled or moved, or two at once), `MaxOffers` 1 and `MaxMoves` 2 (an offer
  may be used twice; an offer never depends on another), `Turns` 5, `Keep` 2 (3
  in the code), `Scale` 1000 (10^8 in the column: a coarser rounding shows its
  errors at smaller amounts).
* Two runs bound combinations, by an action constraint of their MC module. In
  `autopay_due` (`MCFewDisturbances`) two of a list of disturbances come
  together: a second edit, a configuration moved, an exception or kill, a period
  skipped, and so on. All of them start with actions that have no fairness, so that no
  step a processor must take is cut off and `DueIsPaid` means what it says. In
  `conversations_chat` (`MCBounds`) four messages are a question, an answer, a
  redelivery or a second question, and one more; the fifth comes only to an
  action that has run and waits without a command, which takes four messages to
  arise; once time has passed there are three messages or a single action; and
  three sessions are busy only when the first three messages each propose
  something, which is how there come to be more open actions than are kept.
* `autopay_due` has one processor: what a second one may have done between a
  failure and its record is what the same processor's earlier attempt did
  (`Overtaken`); that two of them never work on one configuration is SKIP LOCKED,
  as in `autos_race`, which has two.

## 5. The proofs

For any sets of accounts, sessions, goals, keys and requests that satisfy the
named assumptions: requests carry amounts the schemas accept, ids are totally
ordered (`Rank` injective), rows of different tables are different, opening
balances are natural numbers, tables are finite. They are the assumptions TLC evaluates on each
instance.

**`LedgerMoves_proofs`.** `TypeCorrect`. The inductive invariant is
`TypeOK /\ StagedIsCurrent`. `NoOverdraft` is not inductive: the commit writes
a value computed earlier. `StagedIsCurrent` says what carries it: a session
past its locks holds its rows (`HoldsItsRows`), and one about to commit staged
exactly what its request gives on the *current* balances, with its accounts
open, its funds there and its key its own (`Staged`). The step of a session
keeps the staging of every other (`OthersKept`, `AccountKept`, `KeyKept`: a row
or key that changes was held by the session that changed it), and its own
decision establishes its own (`StageIsCurrent`). From it:

* `ImplementsAtomicLedger`: a commit is a step of `AtomicLedger`
  (`CommitIsAtomic`), an archive or restore is its `Flip`, all the rest
  stutters. The mapping is the identity on the committed tables;
* `NeverOverdrawn`, from an atomic step's guard (`AtomicOverdraft`);
* `SuccessStaysRecorded`: an answer is given with or after the commit, and a
  recorded key never changes.

**`GoalFunds_proofs`.** `GoalTypeCorrect`, then the invariant
`GoalTypeOK /\ StagedIsCurrent /\ StagedReserveIsCurrent` (`GoalInvCorrect`):
the staged contribution or release is what its request gives on the current
sums and goal row, an edit in flight does not write the amount. The goal
operations must keep the ledger's invariant too, and the other way round:
`GoalHoldsRowsStep`, `GoalStagedStep`, `OthersReserveStaged`. An edit holds no
lock when it reads a goal, but its UPDATE waits for the row
(`Available(s, r.goal)`), so that it cannot write between the decision and the
commit of a contribution. From
it: `CurrentStaysProgress`, `PostVerificationAlwaysHolds`,
`ReservesNeverNegative`, `ReservesAlwaysGrowFunded`, `AlwaysFillsWithinTarget`,
`ContributionSuccessStaysOwn`. `ReservesStayRecorded` sums the recorded
transactions of a pair of goal and account: a commit changes one of them, that
of its own key, which was free. `NoGoalCircle` follows from the order of the
locks (accounts by id, then a goal, then a key), which `GoalWaitInv` states of
every session.

**`AutoContributions_proofs`.** The invariant is `AutoInv`: the types, what an
execution works on exists (`JobsFit`), `StagedRunIsCurrent` and
`RunsMatchMoney`. It is carried execution by execution: `Own(p)` is what it says
of one, `Step(p)` what any of its steps achieves, namely its own part again and
`Kept(q)` for every other, whose schedule it cannot hold. The money follows: an
execution writes the run it found missing under a lock it still has, so that
nothing was given for that occurrence before (`ExecuteKeeps`). That a selection
names a schedule that is due and free (`SelectedDue`) needs the least element of
a set of dates and ids (`EarliestIn`), which well-foundedness of the natural
numbers gives. From it: `AutoTypeCorrect`, `StagedRunStaysCurrent`,
`RunsAlwaysMatchMoney`.

`OccurrencesAccounted` counts. `OccurrenceInv` says that the next occurrence of
every schedule falls on its day (`OnCalendar`), and of an execution of the
processor that its candidate is the last occurrence before its time and
what it calls missed the quotient that led there (`LatestDue`). The occurrences from
the one due first to the candidate are then in bijection with 0 .. missed
(`CountOccurrences`), since two of them are apart by whole periods
(`OccurrencesApart`), and between the candidate and the next date written there is none
(`OneOccurrence`). TLC has checked `OccurrenceInv` on the instances of `autos_race`
and `autos_due`.

**`CatalogFx_proofs`.** `CatalogInv` adds to the types what a session is busy with
(`Busy`), that an edit's category stays its owner's and of its type (`Editing`),
and what the locks of a reclassification buy it: the event still has the
category read (`HoldsEvent`), the category entered stays usable
(`HoldsCategory`). `AuditChain` rests on the first, `ReclassifiedIntoOpen` on
the second, `CategoryNamesDistinct` on the unique index alone, since names are
checked without a lock. Theorems: `CatalogTypeCorrect`, `AuditStaysChained`,
`NamesStayDistinct`, `AlwaysReclassifiedIntoOpen`.

The second half is about `FxQuotes`. Its arithmetic is not linear, so that every
product is named before it is compared and common factors are cancelled
(`Cancel`); what a rounded quotient is off by is `HalfUpIs` and `HalfEvenIs`.
`FxInv` says that the rate of every row, read back from the table, is the price of
its moment or its inverse to half of the last decimal (`RateOf`), whichever of the
three ways it came in (`RatesAreSound`), and that the row expires within
`Validity` of that moment. What the settlement accepts then agrees with that rate up
to one rounding, of the source or of the target (`SettledSound`, `Agree`), and what
agrees with a rate follows the price (`AgreedPrice`): for the inverse the two
errors, of the rate and of the amount, are multiplied out in `AgreeAtInverse`. The
slices of a payment by period add up by `FillingAddsUp`; their sources do because
the last takes the rest, which is off by no more than the others together
(`LastTakesRest`, `SumsClose`). Theorems: `FxInvariant`, `PricesAreFollowed`,
`SlicesAddUp`. They assume of the constants what the code fixes (`FxAssumption`):
two currencies (`core/currency.py:69`), requests for positive amounts, a preview
that is good for no longer than a quote (1.5 and 5 minutes,
`service_v17.py:615`, `fx/service.py:21`), and prices the column can invert
(at most `Scale`, 10^8 pesos for a dollar, so that the inverse is not stored as 0).

**`Conversations_proofs`.** No lock protects a pending action, so that
`ConversationInv` is about what survives every interleaving: an action a session
has read is never deleted (`Known`), a command it waits with was shown to the
user (`KeysAsked`) for the very intent, a session that settles, or has read
"executed", comes after the operation (`Done`), and a session that has looked for
the name of a goal holds the action's row and finds the name still free when it
inserts (`Naming`). From these, `OncePerQuestion` (`AlwaysOncePerQuestion`)
and `AnswersAreTrue` (`AnswersStayTrue`) are inductive.

**`Obligations_proofs`.** Three invariants, one above the other. What a row of an
obligation contains does not matter to `PayInv`: what a session has read of an
obligation it holds, and the row is still that (`RowIsCurrent`), and so is the
balance of the account it pays from (`ReadIsCurrent`). Each session carries its
part (`Own`), which another one's step keeps (`Kept`, `LeaveKeeps`), the batch
refresh too, which writes exactly the obligations it has read
(`RefreshAllKeeps`). Hence `ReadsStayCurrent`, that no edit, refresh or payment
undoes another's commit, and `PaymentSuccessStaysOwn`.

`BookInv` adds what the rows contain. `RowSound` says of one obligation that
every period has received what its payments say and has the status that money
asks for, that its status agrees with its periods and that they have no gaps;
every operator of `ObligationPeriods` that a commit may apply turns a sound row
into a sound one that has taken nothing back (`Follows`), whatever the terms, the
amounts and the day. The steps of sessions are then read off: each writes rows
that follow from current ones. The payments of both APIs fill the periods in an
order; that the slices add up to the payment, and that a slice is given only
when those before are full, are `FillingAddsUp` and `FillingInOrder` of
`FiniteSums`. From it: `ObligationTypes`, `MoneyAlwaysAddsUp`,
`LifeCycleStaysSound`, and the action properties `HistoryStays` and
`OldestComeFirst`. `NoCircleOfWaits` needs of sessions only that they take the
obligations in the order of their ids and an account last (`LocksInOrder`): a
session that waits for the greatest row waits for nobody who waits.

`AutoPayInv` is about `AutoSpec`, for any number of processors beside any number
of clients. `PayInv` does not hold there as it stands, since a processor works on
the row it has read *brought up to its own day*, a day that may be over
(`asOf`); clients keep it for themselves (`ClientOwn`), which is why the lemmas above
are stated per session, of what one of them does (`Achieves`) and of what it leaves to
any other (`Kept`), and why what a payment needs is a hypothesis of its own
(`PaysFrom`, `HoldsBoth`). A processor holds, from its claim to its commit, the
configuration, which stays enabled, and asks for the account that this one names
(`WorkerOwn`); once it has locked the account it also knows that what it pays is
the oldest period due on its day (`SourceHeld`). That a claim exists needs the
least of dates and then of ids (`NextConfigIn`). Edits in flight have an
invariant of their own beside it (`EditsSound`): one that has read a configuration
will find it there, and it names an account as configurations do, so that its changed
columns over whatever is there by then are a sound configuration (`MergedIs`). A refresh up to an earlier day,
even repeated, is an operation that `Follows` allows (`BroughtOn`,
`BroughtFollows`), and an automatic payment leaves its period paid (`AllOfOne`),
after which `RunsMatchPayments` is kept by whoever keeps histories (`MatchKept`).
Midnight changes the day under a processor: the period it chose is still the oldest
due, because what has become due since is newer and what was open stays open
through a refresh (`OldestToday`). From it: `AutoPaymentTypes`,
`RunsStayMatched`, the action property `AutoPaymentsObeyOwner`, and
`AutoBooksAddUp`, that `MoneyAddsUp`, `LifeCycleIsSound` and
`PaymentSuccessIsOwn` hold beside processors too, which no run checks. TLC has
checked the parts of `AutoPayInv` on smaller instances, one of them with two
processors. It is assumed (`AutoPaymentsAssumption`) that sessions are either
clients or processors, that a configuration row can be locked, that `Nothing` is
neither a configuration nor a request, and that an owner puts accounts that
requests may name.

**`Credit_proofs`.** A session reads all purchases but holds one card. `CardInv`
says that the two agree about that card (`Agree`) and that a purchase is recorded
under the key of the request that made it, without which a second purchase
under a known id could take one away from another card (`WrittenOfCard`). What
is owed depends on the purchases of the card alone (`DebtAgree`), so that the
debt a purchase was checked against is the debt at its commit:
`LimitAlwaysHolds`.

`CreditInv` adds that every row of every purchase fits the check constraints
(`SoundBooks`), which purchases, payments and redistributions keep, and that a
payment holds the account it pays from with what it needs on it. `DebtAddsUp`
is not inductive: how much interest has been forgiven is not recorded anywhere.
`Accounted` carries it. Of the rows of a card take the sum of the principal they
owe (`Lows`), and the same less the interest of closed rows (`Highs`); what was
charged and not repaid lies between the two. A purchase raises both by its
amount; a payment or an early payment of n lowers the first by n at most and
the second by n at least (`PaymentGoesDown`, `EarlyGoesDown`). For a payment the
lemma on the way is that the waterfall, a total order on its demands
(`DemandsOrdered`), gives away all it has and no demand more than it asks
(`SlicesAddUp`); for an early payment, that the new parts add up
(`PartsAddUp`) and are not negative (`PartsNeverNegative`, up to
`EvenlyDivided` installments, as section 6 explains). Theorems: `CreditInvariant`,
`CreditTypes`, `DebtAlwaysAddsUp`; and `FutureStaysProtected`, that an
installment of a later month gets no share of a payment (`ShareFacts`).

**`FiniteSums`.** The sums of the properties run over sets whose size is a
parameter, and the library's induction theorems cannot be used (they take an
operator). The module proves what is needed from the well-foundedness of strict
inclusion between the subsets of a finite set, applied to a *set* of subsets
instead of a predicate (`SubsetInduction`): the recursion of the sum, that it
does not depend on the order, sums of unions, of equal parts and over the fibers
of a function, the filling of a finite set in a total order; and the last
elements of finite sets, for the two theorems on waiting. It is assumed that the
tables are finite (`FiniteLedger`, `FiniteTables`, `FinitePurchases`), as tables are.

**Model-checked only.** `EveryRequestAnswered`, `CreditRequestAnswered`,
`CatalogRequestAnswered`, `DueIsServed` and `DueIsPaid` are liveness under
fairness, out of the prover's reach. Every invariant and action property of the
passing runs is the subject of a theorem.

## 6. Findings

1. `ledger_drift`. create_balance_adjustment writes the balance before
   insert_event and ignores its `idempotent` answer
   (`accounts/service.py:219-237`): under a used key the balance moves and
   the ledger does not. `AtomicLedger` has it as `AdjustAgain`.
2. `goals_edits`. delete_goal and update_goal check without a lock: a
   contribution in between leaves a cancelled goal with funds, or a target
   below the amount. The run ends in the first; the same interleaving with
   update_goal violates the second conjunct.
3. `fx_preview`. A preview makes a quote with the exact inverse of the rate and
   accepts it while the row is still in the session; the payment reads the row
   again, with the rate its column keeps, recomputes both amounts and compares
   them exactly (`obligations/settlement.py:192-196`). With 8 decimals, about 8 %
   of payments around 100 USD from an account in COP are refused, 39 % at 500
   and 71 % at 1000.

What the models reproduce without a run of its own:

* Expenses and transfers compare with the gross balance (`cash/service.py:158`,
  `transfers/service.py:103`): they spend what goals reserve, and the account
  can then no longer be read (`accounts/service.py:54-57` answers 409). Hence
  `ReservesGrowFunded` speaks of steps that reserve more.
* A release, a reclassification and an onboarding are answered before their
  commit (`goals/router.py:133`, `core/database.py:137-144`): a session lost in
  between has told a client of something that is not there.
* A duplicate of a transfer in flight can be refused for lack of funds, because
  the funds are checked (`transfers/service.py:103`) before the second lookup of
  the key (196). A cash operation under a key another operation used is answered
  as done without comparing the two (`cash/service.py:93-100`, `147-154`), which
  is why `SuccessIsRecorded` says less of cash than of transfers.
* An update and a delete of one goal in flight together can leave it deleted and
  "completed".
* A chat action of cash or transfers that is cancelled on another channel, or
  whose session is lost, between its two commits is recorded although the answer
  says "Acción cancelada sin guardar." (`conversations/service.py:725`, 792) or
  "Listo, cancelé las operaciones pendientes." (154). `AnswersAreTrue` is about
  the other direction.
* A second confirmation of a new goal, sent before the first was answered, makes
  a second goal if the first is renamed or deleted in between, and is otherwise
  refused, where other operations answer "¡Operación registrada con éxito!" again
  (`conversations/service.py:893-900`, `goals/service.py:213`).
* A clarification that overlaps the confirmation of a cash operation and leaves
  questions open takes the command of the action away (line 528); the first commit
  of the confirmation then has the action await confirmation again (802), without a
  command, and every further confirmation whose session is lost before `Settle`,
  or that overlaps another, records the movement once more. `conversations_chat`
  goes through such histories.
* Two onboardings at once: `users/service.py:64` catches the IntegrityError of a
  failed flush without a savepoint, so that the read after it raises again and
  the loser gets an error, where
  `tests/unit/test_users_onboarding_logic.py` expects `created=False`. In
  `Catalog` the loser of `Bootstrap` is refused.
* Two opposite reclassifications deadlock through the share the foreign key of
  the audit takes of the category they leave; a movement may be recorded under a
  category archived after it was checked (`Record`); the audit rows of an event
  may be out of order by `created_at`, which is the start of their transactions.
* The last of several installments takes what rounding leaves, and that may be
  negative: 3 cents over 5 are 1, 1, 1, 1 and -1 (`credit/service.py:66-71`). An
  early payment of 2 cents of a purchase of 5 in 5 leaves four installments of a
  cent and closes the fifth (line 672 on), where the answer says that the debt is
  3 (line 691). `DebtAddsUp` therefore speaks of cards whose purchases have at most
  `EvenlyDivided` installments, over which no part is ever negative.
* Payments and early payments of a card lock account and card in opposite orders
  (`credit/service.py:357`, 540). Installments with interest can be paid beyond
  their principal, which the check constraint `paid_amount <= principal_amount` of
  the baseline migration (676-678) refuses: such a payment is an error
  (`Writable`).
* Quotes are never used up: one may pay twice while it is good. A quote's target
  is rounded to cents though pesos have a minimum unit of 50; its
  `idempotency_key` is stored and never read; a snapshot belongs to nobody.

## 7. What is not modelled

Within the modelled components: names and dates of accounts and goals, listings,
presentation. The uniqueness of account names (`accounts/repository.py:31-38`) is
an unlocked read without an index behind it and restore_account does not check
it: there is no mechanism to verify. Calendars of months and years, time zones,
daylight saving and `start_date`, of schedules and of obligations: the calendars
here count days in periods of equal length. Of automatic contributions,
releases and target edits beside them (so that a completed goal stays so, and
the branch `remaining <= 0` of an active goal, which needs a target edited as in
finding 2, is never taken), and currencies. Of obligations, the older
create_obligation, which makes no first period, its preview, and the overview,
summary and listings, which read. Of credit, statements and summaries, which
read, and statement charges, which nothing creates; the monthly rate of a card,
which update_card may edit too, is a constant, and its is_active is set by
`Delete` alone. Of conversations, the
understanding of language and the resolution of names, which are inputs, and
answers to questions, which only read. Tokens of users are inputs too.

Not at all: intelligence (read-only aggregates), integrations (an HTTP client),
configuration, logging and middleware, and migrations and scripts, run by hand:
what the constraints of the tables demand is in the invariants of the modules
that write them. The release gate and the development scripts are no part of the
running service.

## 8. What could come next

1. An abstract specification of goals and one of obligations (each request in one
   step), implemented by `GoalFunds` and `Obligations` as `AtomicLedger` is by
   `LedgerMoves`.
2. A calendar of months with the last day of each, and time zones.
3. Two processors in `autopay_due`, once its liveness is not what bounds it.
