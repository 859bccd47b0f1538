---------------------------- MODULE AutoProperties ----------------------------
(***************************************************************************)
(* What AutoContributions must satisfy.                                    *)
(***************************************************************************)
EXTENDS AutoContributions

(***************************************************************************)
(* From its selection to its commit an execution works on a schedule that  *)
(* its owner cannot edit, pause or delete and no other execution can move, *)
(* and on an occurrence that nobody else records: the unique index of runs *)
(* is never what decides, although three callers may race for it.          *)
(***************************************************************************)
StagedRunIsCurrent ==
    \A p \in Sessions :
        /\ pc[p] \in {"selected", "account", "goal", "decide"} =>
             /\ lock[job[p].id] = p
             /\ schedule[job[p].id] = job[p].seen
        /\ pc[p] \in {"account", "goal", "decide"} => ExistingRun(p) = Nothing

(***************************************************************************)
(* Money and its record go together: an occurrence has moved exactly what  *)
(* its run says, and nothing when it was skipped, never ran, or failed,    *)
(* however often it was attempted, by whom, and wherever it was killed.    *)
(***************************************************************************)
RunsMatchMoney ==
    \A s \in Schedules, d \in Days :
        given[s][d] = IF runs[s][d] = Nothing THEN 0 ELSE runs[s][d].amount

(***************************************************************************)
(* No occurrence is lost or counted twice: when the processor records a    *)
(* run, the occurrences from the one that was due first to the one         *)
(* executed are this one and those counted as missed, and the schedule's   *)
(* next one is the occurrence that follows it.                             *)
(***************************************************************************)
Between(row, first, last) == {d \in first .. last : d % Period = row.day}

ProcessorRecords(s, d) ==
    /\ runs[s][d] = Nothing /\ runs'[s][d] # Nothing
    /\ \E p \in Sessions : lock[s] = p /\ job[p].mode = "batch"

EachOccurrenceAccounted ==
    [][\A s \in Schedules, d \in Days :
         ProcessorRecords(s, d) =>
             LET row == schedule[s]
                 after == schedule'[s]
             IN  /\ Cardinality(Between(row, row.next, d)) = runs'[s][d].missed + 1
                 /\ d \in Between(row, row.next, d)
                 /\ after.status = "active" => Between(row, d + 1, after.next) = {after.next}
      ]_autoVars

(***************************************************************************)
(* A schedule that is due does not stay due: whatever fails on the way, an *)
(* invocation executes its occurrence, skips it, or its owner stops it.    *)
(***************************************************************************)
DueIsServed == \A s \in Schedules : Due(s, clock) ~> ~Due(s, clock)

=============================================================================
