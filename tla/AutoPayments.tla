----------------------------- MODULE AutoPayments -----------------------------
(***************************************************************************)
(* Automatic payments of obligations (app/obligations/auto_service.py):    *)
(* the configuration an owner puts on an obligation, and the processor     *)
(* that cron starts, on possibly several hosts, to evaluate those that are *)
(* due.  An evaluation claims a configuration (FOR UPDATE SKIP LOCKED),    *)
(* locks the obligation and the account as any payment does, pays the      *)
(* oldest due period through the same code, and commits the run, the next  *)
(* evaluation and the payment together.  An exception rolls that back and  *)
(* is recorded by a fresh session; a killed process records nothing.       *)
(*                                                                         *)
(* A processor reads the date once and may go on into the next day.  After *)
(* the last day of the calendar the days go on, with no new period; the    *)
(* dates that matter to processors therefore count from today: -1 is       *)
(* yesterday or before, 0 today and 1 tomorrow.                            *)
(***************************************************************************)
EXTENDS Obligations, Sequences

CONSTANTS
    Clients, Workers,   \* sessions of HTTP requests, and of processors
    Puts,               \* the configurations an owner may put
    MaxFaults,          \* bound: exceptions and kills of processors
    MaxPuts             \* bound: PUT requests

ConfigRow(o) == <<"config", o>>

AutoRequest(o, n, a) ==
    [op |-> "auto", obl |-> o, n |-> n, acct |-> a, amount |-> 0, cmd |-> <<o, n>>]

Dates == -1 .. 1

Config == [acct : Accounts, enabled : BOOLEAN, next : Dates \cup {Nothing}]

ASSUME AutoPaymentsAssumption ==
    /\ Sessions = Clients \cup Workers /\ Clients \cap Workers = {}
    /\ {ConfigRow(o) : o \in Obligations} \subseteq Rows
    /\ Nothing \notin Config
    /\ \A o \in Obligations, n \in Numbers, a \in Accounts : Nothing # AutoRequest(o, n, a)
    /\ \A p \in Puts : p.obl \in Obligations /\ p.acct \in Accounts /\ p.enabled \in BOOLEAN
    /\ \A p \in Puts : \A n \in Numbers : AutoRequest(p.obl, n, p.acct) \in Requests
    /\ MaxFaults \in Nat /\ MaxPuts \in Nat

\* A PUT that has read the configuration, or that there is none: the row it
\* makes of it, and the columns that differ from what it read.
Columns == {"acct", "enabled", "next"}

PutEdit == [obl : Obligations, row : Config, cols : SUBSET Columns, new : BOOLEAN]

Sent == [sent |-> TRUE]

\* The attempt key of a run: the period it is about, or 0 for "none", and its day.
Attempts == ({0} \cup Numbers) \X {-1, 0}

VARIABLES
    config,     \* obligation_auto_payment_configs
    attempts,   \* the attempt keys of the runs of today and yesterday
    won,        \* those of runs that succeeded
    wins,       \* the periods that have a succeeded run
    stage,      \* what each processor is doing
    asOf,       \* the date it read when it started
    late,       \* whether midnight has passed since
    tried,      \* the configurations it has attempted
    job,        \* the obligation whose configuration it has claimed
    faults,
    puts        \* the PUT requests so far

configVars == <<config, attempts, won, wins, faults, puts>>
workerVars == <<stage, asOf, late, tried, job>>
autoVars == <<vars, configVars, workerVars>>

(***************************************************************************)
(* The type invariant; the attempts of a succeeded run are recorded.       *)
(***************************************************************************)
AutoPaymentsTypeOK ==
    /\ ObligationsTypeOK
    /\ config \in [Obligations -> Config \cup {Nothing}]
    /\ attempts \in [Obligations -> SUBSET Attempts]
    /\ \A o \in Obligations : won[o] \subseteq attempts[o]
    /\ wins \in [Obligations -> SUBSET Numbers]
    /\ stage \in [Workers -> {"off", "loop", "work", "persist"}]
    /\ asOf \in [Workers -> Days]
    /\ late \in [Workers -> BOOLEAN]
    /\ tried \in [Workers -> SUBSET Obligations]
    /\ job \in [Workers -> Obligations \cup {Nothing}]
    /\ faults \in 0 .. MaxFaults
    /\ puts \in Seq(PutEdit \cup {Sent}) /\ Len(puts) <= MaxPuts

AutoInit ==
    /\ Init
    /\ config = [o \in Obligations |-> Nothing]
    /\ attempts = [o \in Obligations |-> {}]
    /\ won = [o \in Obligations |-> {}]
    /\ wins = [o \in Obligations |-> {}]
    /\ stage = [w \in Workers |-> "off"]
    /\ asOf = [w \in Workers |-> 0]
    /\ late = [w \in Workers |-> FALSE]
    /\ tried = [w \in Workers |-> {}]
    /\ job = [w \in Workers |-> Nothing]
    /\ faults = 0 /\ puts = <<>>

-----------------------------------------------------------------------------
(* The owner *)

DueOn(o, ob, day) ==
    {n \in Existing(ob) : ob.periods[n].status \in Open /\ DueOf(o, n) <= day}

Oldest(S) == CHOOSE n \in S : \A m \in S : n <= m

Enabled(o) == config[o] # Nothing /\ config[o].enabled

\* What put_config makes of the configuration it reads.  Disabling one keeps
\* its account, whatever the payload says.
PutRow(p) ==
    LET o == p.obl
        due == DueOn(o, obligation[o], today) # {}
    IN  IF p.enabled THEN [acct |-> p.acct, enabled |-> TRUE, next |-> IF due THEN 0 ELSE 1]
        ELSE [acct |-> IF config[o] = Nothing THEN p.acct ELSE config[o].acct,
              enabled |-> FALSE, next |-> Nothing]

\* The ORM writes what has changed; "now" is never what it was.
Changed(row, was) == {c \in Columns : row[c] # was[c] \/ (c = "next" /\ row[c] = 0)}

\* put_config reads, without a lock, the configuration, the obligation, its
\* due periods and the account, in one step here.
ReadPut(p) ==
    LET o == p.obl
        new == config[o] = Nothing
    IN  /\ Len(puts) < MaxPuts
        /\ obligation[o].status # "none"
        /\ p.enabled => obligation[o].status = "active"
        /\ p.enabled \/ new => open[p.acct]
        /\ puts' = Append(puts, [obl |-> o, row |-> PutRow(p), new |-> new,
                                 cols |-> IF new THEN {} ELSE Changed(PutRow(p), config[o])])
        /\ UNCHANGED <<vars, config, attempts, won, wins, faults, workerVars>>

\* The row with the columns an edit has changed.
Merged(e, row) ==
    [acct |-> IF "acct" \in e.cols THEN e.row.acct ELSE row.acct,
     enabled |-> IF "enabled" \in e.cols THEN e.row.enabled ELSE row.enabled,
     next |-> IF "next" \in e.cols THEN e.row.next ELSE row.next]

WriteBeside(k) ==   \* a mutant: the row of an evaluation is not locked
    LET e == puts[k]
        o == e.obl
    IN  /\ e # Sent
        /\ e.new => config[o] = Nothing
        /\ config' = [config EXCEPT ![o] = IF e.new THEN e.row ELSE Merged(e, @)]
        /\ puts' = [puts EXCEPT ![k] = Sent]
        /\ UNCHANGED <<vars, attempts, won, wins, faults, workerVars>>

\* Then it writes, when no evaluation holds the row; a second INSERT for the
\* obligation is refused.  An edit that is never written has failed.
WritePut(k) ==
    LET e == puts[k]
        o == e.obl
    IN  /\ e # Sent
        /\ lock[ConfigRow(o)] = Nobody
        /\ e.new => config[o] = Nothing
        /\ config' = [config EXCEPT ![o] = IF e.new THEN e.row ELSE Merged(e, @)]
        /\ puts' = [puts EXCEPT ![k] = Sent]
        /\ UNCHANGED <<vars, attempts, won, wins, faults, workerVars>>

-----------------------------------------------------------------------------
(* The processor: its loop *)

Start(w) ==
    /\ stage[w] = "off"
    /\ stage' = [stage EXCEPT ![w] = "loop"]
    /\ asOf' = [asOf EXCEPT ![w] = today]
    /\ UNCHANGED <<vars, configVars, late, tried, job>>

\* The day it believes it is.
Day(w) == IF late[w] THEN -1 ELSE 0

\* NULL comes before all dates.
NextAt(o) == IF config[o].next = Nothing THEN -2 ELSE config[o].next

Due(w, o) == Enabled(o) /\ o \notin tried[w] /\ NextAt(o) <= Day(w)

Eligible(w) == {o \in Obligations : Due(w, o) /\ lock[ConfigRow(o)] = Nobody}

\* The longest due first, then by creation.
NextConfig(w) ==
    LET first(o, p) == \/ NextAt(o) < NextAt(p)
                       \/ NextAt(o) = NextAt(p) /\ IdOrder[o] <= IdOrder[p]
    IN  CHOOSE o \in Eligible(w) : \A p \in Eligible(w) : first(o, p)

\* The request carries the account; its period is chosen under the lock.
Claim(w) ==
    /\ stage[w] = "loop"
    /\ Eligible(w) # {}
    /\ LET o == NextConfig(w) IN
         /\ Take(w, ConfigRow(o))
         /\ job' = [job EXCEPT ![w] = o]
         /\ tried' = [tried EXCEPT ![w] = @ \cup {o}]
         /\ req' = [req EXCEPT ![w] = AutoRequest(o, 1, config[o].acct)]
         /\ todo' = [todo EXCEPT ![w] = {o}]
    /\ pc' = [pc EXCEPT ![w] = "root"]
    /\ stage' = [stage EXCEPT ![w] = "work"]
    /\ UNCHANGED <<today, tableVars, seen, funds, configVars, asOf, late>>

Stop(w) ==
    /\ stage' = [stage EXCEPT ![w] = "off"]
    /\ asOf' = [asOf EXCEPT ![w] = 0]
    /\ late' = [late EXCEPT ![w] = FALSE]
    /\ tried' = [tried EXCEPT ![w] = {}]

Finish(w) ==
    /\ stage[w] = "loop"
    /\ Eligible(w) = {}
    /\ Stop(w)
    /\ UNCHANGED <<vars, configVars, job>>

-----------------------------------------------------------------------------
(* The processor: one configuration *)

LockObligation(w) ==
    /\ stage[w] = "work"
    /\ LockRoot(w)
    /\ UNCHANGED <<configVars, workerVars>>

\* The obligation with its periods brought up to the date of the processor.
Evolved(w) == Synced(job[w], seen[w][job[w]], asOf[w])

DuePeriods(w) == DueOn(job[w], Evolved(w), asOf[w])

Key(w, n) == <<n, Day(w)>>

Working(w) == stage[w] = "work" /\ AtRoot(w)

\* Back to the loop, with the configuration's next evaluation.
Done(w, next, enabled) ==
    /\ config' = [config EXCEPT ![job[w]].next = next, ![job[w]].enabled = enabled]
    /\ stage' = [stage EXCEPT ![w] = "loop"]
    /\ job' = [job EXCEPT ![w] = Nothing]
    /\ UNCHANGED <<asOf, late, tried, faults, puts>>

\* The next evaluation is tomorrow, of the day the processor started.
Tomorrow(w) == Done(w, Day(w) + 1, TRUE)

Pause(w) == Done(w, Nothing, FALSE)

\* A run that moved no money, committed with the synced periods.
Run(w, n) ==
    /\ Key(w, n) \notin attempts[job[w]]
    /\ attempts' = [attempts EXCEPT ![job[w]] = @ \cup {Key(w, n)}]
    /\ UNCHANGED <<won, wins>>

Sync(w) ==
    /\ obligation' = [obligation EXCEPT ![job[w]] = Evolved(w)]
    /\ Leave(w)
    /\ UNCHANGED <<today, balance, open, applied, posted, spent, recorded, told>>

EndsInactive(w) ==
    /\ Working(w)
    /\ seen[w][job[w]].status # "active"
    /\ Run(w, 0)
    /\ Pause(w)
    /\ Leave(w)
    /\ UNCHANGED <<today, tableVars>>

NothingDue(w) ==
    /\ Working(w)
    /\ seen[w][job[w]].status = "active"
    /\ DuePeriods(w) = {}
    /\ Run(w, 0)
    /\ Tomorrow(w)
    /\ Sync(w)

Chosen(w) == Oldest(DuePeriods(w))

Attempting(w) ==
    /\ Working(w)
    /\ seen[w][job[w]].status = "active"
    /\ DuePeriods(w) # {}

\* The period was attempted today: a second attempt waits for tomorrow.  (The
\* code leaves a next evaluation that is NULL; an enabled configuration has one
\* only after about five edits that overlap, more than MaxPuts in the runs.)
AttemptedToday(w) ==
    /\ Attempting(w)
    /\ Key(w, Chosen(w)) \in attempts[job[w]]
    /\ UNCHANGED <<attempts, won, wins>>
    /\ Tomorrow(w)
    /\ Sync(w)

Undefined(w) ==
    /\ Attempting(w)
    /\ Evolved(w).periods[Chosen(w)].status = "pending_amount_definition"
    /\ Run(w, Chosen(w))
    /\ Tomorrow(w)
    /\ Sync(w)

(***************************************************************************)
(* A period that is open was never paid automatically, because that pays   *)
(* all of it and closes it: the exits of the code for a period already     *)
(* paid, or a command already recorded, cannot be taken.                   *)
(***************************************************************************)
LockSource(w) ==
    /\ Attempting(w)
    /\ Key(w, Chosen(w)) \notin attempts[job[w]]
    /\ Evolved(w).periods[Chosen(w)].status \in Payable
    /\ Available(w, req[w].acct)
    /\ Take(w, req[w].acct)
    /\ funds' = [funds EXCEPT ![w] = balance[req[w].acct]]
    /\ pc' = [pc EXCEPT ![w] = "account"]
    /\ req' = [req EXCEPT ![w] = AutoRequest(job[w], Chosen(w), req[w].acct)]
    /\ seen' = [seen EXCEPT ![w][job[w]] = Evolved(w)]
    /\ UNCHANGED <<today, tableVars, todo, configVars, workerVars>>

AtSource(w) == stage[w] = "work" /\ pc[w] = "account"

Covered(w) == Affordable(w, Applied(seen[w][job[w]], req[w]))

ClosedSource(w) ==
    /\ AtSource(w)
    /\ ~open[req[w].acct]
    /\ Run(w, req[w].n)
    /\ Pause(w)
    /\ Sync(w)

Insufficient(w) ==
    /\ AtSource(w)
    /\ open[req[w].acct]
    /\ ~Covered(w)
    /\ Run(w, req[w].n)
    /\ Tomorrow(w)
    /\ Sync(w)

AutoPayAlone(w) ==  \* a mutant: the payment commits before its run is added
    /\ AtSource(w)
    /\ Pay(w)
    /\ stage' = [stage EXCEPT ![w] = "persist"]
    /\ UNCHANGED <<configVars, asOf, late, tried, job>>

AutoPayUnkeyed(w) ==    \* a mutant: the run is added without its attempt key
    /\ AtSource(w)
    /\ Pay(w)
    /\ won' = [won EXCEPT ![job[w]] = @ \cup {Key(w, req[w].n)}]
    /\ wins' = [wins EXCEPT ![job[w]] = @ \cup {req[w].n}]
    /\ UNCHANGED attempts
    /\ Tomorrow(w)

\* The payment, its run and the next evaluation are one commit.
AutoPay(w) ==
    /\ AtSource(w)
    /\ Pay(w)
    /\ attempts' = [attempts EXCEPT ![job[w]] = @ \cup {Key(w, req[w].n)}]
    /\ won' = [won EXCEPT ![job[w]] = @ \cup {Key(w, req[w].n)}]
    /\ wins' = [wins EXCEPT ![job[w]] = @ \cup {req[w].n}]
    /\ Tomorrow(w)

-----------------------------------------------------------------------------
(* Failures *)

Rollback(w) ==
    /\ Leave(w)
    /\ stage' = [stage EXCEPT ![w] = "persist"]
    /\ UNCHANGED <<today, tableVars, config, attempts, won, wins, puts, asOf, late, tried, job>>

Raise(w) ==
    /\ stage[w] = "work" /\ faults < MaxFaults
    /\ faults' = faults + 1
    /\ Rollback(w)

\* Another processor may have attempted the configuration since the rollback.
Overtaken(w) ==
    \/ Key(w, 0) \in attempts[job[w]]
    \/ \E key \in won[job[w]] : key[2] = Day(w)

PersistHolding(w) ==    \* a mutant: the fresh session is never closed
    LET o == job[w] IN
    /\ stage[w] = "persist"
    /\ lock[ConfigRow(o)] = Nobody
    /\ Take(w, ConfigRow(o))
    /\ config' = [config EXCEPT ![o].next = Day(w) + 1]
    /\ stage' = [stage EXCEPT ![w] = "off"]
    /\ job' = [job EXCEPT ![w] = Nothing]
    /\ UNCHANGED <<today, tableVars, pc, req, todo, seen, funds, attempts, won, wins,
                   faults, puts, asOf, late, tried>>

Persist(w) ==
    LET o == job[w] IN
    /\ stage[w] = "persist"
    /\ lock[ConfigRow(o)] = Nobody
    /\ IF Overtaken(w) THEN UNCHANGED <<config, attempts>>
       ELSE /\ config' = [config EXCEPT ![o].next = Day(w) + 1]
            /\ attempts' = [attempts EXCEPT ![o] = @ \cup {Key(w, 0)}]
    /\ stage' = [stage EXCEPT ![w] = "loop"]
    /\ job' = [job EXCEPT ![w] = Nothing]
    /\ UNCHANGED <<vars, won, wins, faults, puts, asOf, late, tried>>

\* The invocation ends, and its transaction with it.
End(w) ==
    /\ Leave(w)
    /\ Stop(w)
    /\ job' = [job EXCEPT ![w] = Nothing]
    /\ UNCHANGED <<today, tableVars, config, attempts, won, wins, puts>>

\* A process is killed, or its session is beyond use after a failed flush.
Kill(w) ==
    /\ stage[w] # "off" /\ faults < MaxFaults
    /\ faults' = faults + 1
    /\ End(w)

\* The run of an attempt that found nothing exists: the flush of another one
\* is refused, and leaves rows that the handler of the exception cannot read.
DuplicateRun(w) ==
    /\ Working(w)
    /\ seen[w][job[w]].status = "active" => DuePeriods(w) = {}
    /\ Key(w, 0) \in attempts[job[w]]
    /\ UNCHANGED faults
    /\ End(w)

-----------------------------------------------------------------------------
(* Time *)

Recent(keys) == {<<key[1], -1>> : key \in {k \in keys : k[2] = 0}}

\* The same row as of tomorrow.
Later(row) == IF row.next = Nothing THEN row ELSE [row EXCEPT !.next = IF @ = 1 THEN 0 ELSE -1]

(***************************************************************************)
(* Midnight.  A processor does not outlive the day after it started.       *)
(***************************************************************************)
Midnight ==
    /\ \A w \in Workers : ~late[w]
    /\ today' = IF today < Horizon THEN today + 1 ELSE today
    /\ late' = [w \in Workers |-> stage[w] # "off"]
    /\ config' = [o \in Obligations |->
                    IF config[o] = Nothing THEN Nothing ELSE Later(config[o])]
    /\ puts' = [k \in DOMAIN puts |->
                  IF puts[k] = Sent THEN Sent ELSE [puts[k] EXCEPT !.row = Later(@)]]
    /\ attempts' = [o \in Obligations |-> Recent(attempts[o])]
    /\ won' = [o \in Obligations |-> Recent(won[o])]
    /\ UNCHANGED <<tableVars, sessionVars, wins, faults, stage, asOf, tried, job>>

-----------------------------------------------------------------------------
Evaluate(w) ==
    \/ LockObligation(w) \/ EndsInactive(w) \/ NothingDue(w) \/ AttemptedToday(w)
    \/ Undefined(w) \/ LockSource(w) \/ ClosedSource(w) \/ Insufficient(w) \/ AutoPay(w)

WorkerStep(w) ==
    Claim(w) \/ Finish(w) \/ Evaluate(w) \/ Raise(w) \/ Persist(w) \/ DuplicateRun(w)

ClientOrOther ==
    /\ (\E c \in Clients : ClientStep(c)) \/ OtherServices
    /\ UNCHANGED <<configVars, workerVars>>

AutoNext ==
    \/ ClientOrOther
    \/ (\E p \in Puts : ReadPut(p)) \/ (\E k \in DOMAIN puts : WritePut(k))
    \/ \E w \in Workers : Start(w) \/ WorkerStep(w) \/ Kill(w)
    \/ Midnight

AutoSpec == AutoInit /\ [][AutoNext]_autoVars

(***************************************************************************)
(* Cron starts the processors every day, a processor that runs goes on,    *)
(* days pass, and the requests of clients end; an exception is nothing to  *)
(* rely on, so that it is no part of the progress of a processor, except   *)
(* where the code always raises.                                           *)
(***************************************************************************)
Progress(w) ==
    Claim(w) \/ Finish(w) \/ Evaluate(w) \/ Persist(w) \/ DuplicateRun(w)

FairAutoSpec ==
    /\ AutoSpec
    /\ \A w \in Workers : WF_autoVars(Start(w)) /\ SF_autoVars(Progress(w))
    /\ \A c \in Clients : SF_autoVars(Serve(c) /\ UNCHANGED <<configVars, workerVars>>)
    /\ WF_autoVars(Midnight)

=============================================================================
