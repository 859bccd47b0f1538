--------------------------- MODULE LedgerProperties ---------------------------
(***************************************************************************)
(* What LedgerMoves must satisfy.                                          *)
(***************************************************************************)
EXTENDS LedgerMoves, Functions

(***************************************************************************)
(* The ledger is the source of truth: the balance of an account is what    *)
(* its opening event and the events recorded since add up to.  A lost      *)
(* update, a movement applied twice, or one applied without its event      *)
(* breaks it.  It relates AccountRepository.update_balance to              *)
(* LedgerRepository.insert_event across sessions.                          *)
(***************************************************************************)
Posted(a) == [k \in Keys |-> IF recorded[k] = Nothing THEN 0 ELSE recorded[k].post[a]]

LedgerExplainsBalances ==
    \A a \in Accounts : balance[a] = Opening[a] + SumFunction(Posted(a))

(***************************************************************************)
(* No account is overdrawn, whatever expenses and transfers race for its   *)
(* funds: the check of create_expense and create_transfer is made on the   *)
(* balance that their commit replaces.                                     *)
(***************************************************************************)
NoOverdraft == \A a \in Accounts : balance[a] >= 0

(***************************************************************************)
(* A client that was told its cash movement or transfer is done finds its  *)
(* key recorded; and for a transfer, whose replays compare the stored      *)
(* command, recorded for that very transfer and no other.                  *)
(***************************************************************************)
SuccessIsRecorded ==
    \A k \in Keys : \A r \in told[k] :
        /\ r.op \in CashOps \cup {"transfer"} => recorded[k] # Nothing
        /\ r.op = "transfer" => recorded[k].req = r

(***************************************************************************)
(* What a session is about to commit still fits the rows it will write:    *)
(* between the decision of an operation and its commit no other session    *)
(* moves the balance it read, archives the account, spends the funds it    *)
(* found or uses the key it inserted.  It is what the FOR UPDATE reads and *)
(* the unique indexes are for, and the reason for the other invariants.    *)
(***************************************************************************)
HoldsItsRows ==
    \A s \in Sessions :
        /\ pc[s] = "second" /\ req[s].op = "transfer" => lock[FirstRow(req[s])] = s
        /\ pc[s] \in {"ready", "commit"} /\ req[s].op \in MoveOps =>
             \A a \in Touched(req[s]) : lock[a] = s

Staged(s) ==
    LET r == req[s]
        post == Posting(r, balance)
    IN  /\ \A a \in Touched(r) : active[a] /\ plan[s].bal[a] = balance[a] + post[a]
        /\ Funded(r, balance)
        /\ r.op = "adjust" => r.amount >= reserved[r.acct]
        /\ IF Fresh(r)
           THEN plan[s].row = [req |-> r, post |-> post] /\ lock[KeyOf(r)] = s
           ELSE plan[s].row = Nothing /\ r.op = "adjust"

StagedIsCurrent ==
    /\ HoldsItsRows
    /\ \A s \in Sessions : pc[s] = "commit" /\ req[s].op \in MoveOps => Staged(s)

(***************************************************************************)
(* The sessions together implement the services as atomic operations.      *)
(***************************************************************************)
Atomic == INSTANCE AtomicLedger WITH
    balance <- balance, active <- active, reserved <- reserved, recorded <- recorded

AtomicSpec == Atomic!Spec

(***************************************************************************)
(* Every request gets an answer (or its connection is lost): no session    *)
(* waits for ever for a row or a key.  Two transfers in opposite           *)
(* directions would, in a circle, if create_transfer did not sort its two  *)
(* account ids, and so would the waiters of a session that kept its locks. *)
(***************************************************************************)
EveryRequestAnswered == \A s \in Sessions : pc[s] # "idle" ~> pc[s] = "idle"

=============================================================================
