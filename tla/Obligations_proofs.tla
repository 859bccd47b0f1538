--------------------------- MODULE Obligations_proofs ---------------------------
(***************************************************************************)
(* Proofs about Obligations and AutoPayments, for any sessions,            *)
(* obligations, terms, accounts, requests and configurations.  Theorems    *)
(* of Spec use nothing of what AutoPayments assumes.                       *)
(*                                                                         *)
(* First the sessions (PayInv): what a session decides on is current, and  *)
(* a payment answered as done is the one recorded; this needs nothing of   *)
(* what a row contains.  Then one row (RowSound, LifeSound): what edits,   *)
(* refreshes and payments make of an obligation and its periods.  Then     *)
(* the tables together (BookInv): a session that decides on current rows   *)
(* keeps every row sound and the sums in agreement.  Then the order in     *)
(* which rows are locked (WaitInv).  Last, automatic payments              *)
(* (AutoPayInv): what a processor holds from its claim to its commit.      *)
(***************************************************************************)
EXTENDS AutoPaymentProperties, FiniteSums

(***************************************************************************)
(* The types these proofs need.                                            *)
(***************************************************************************)
RequestTypes ==
    /\ LockTypeOK
    /\ DOMAIN obligation = Obligations
    /\ DOMAIN balance = Accounts
    /\ recorded \in [Keys -> Payments \cup {Nothing}]
    /\ told \subseteq Payments
    /\ pc \in [Sessions -> {"idle", "root", "account"}]
    /\ req \in [Sessions -> Requests \cup {Nothing}]
    /\ todo \in [Sessions -> SUBSET Obligations]
    /\ DOMAIN seen = Sessions /\ \A s \in Sessions : DOMAIN seen[s] = Obligations
    /\ DOMAIN funds = Sessions

\* A session at work has a request; at an account, a payment.
Occupied ==
    \A s \in Sessions :
        /\ pc[s] # "idle" => req[s] \in Requests
        /\ pc[s] = "account" => req[s].op \in PayOps /\ todo[s] = {}

(***************************************************************************)
(* What a session has read of an obligation is what it still is, and the   *)
(* session holds it until it commits: an edit, a refresh or a payment that *)
(* was decided on it cannot undo what another one wrote meanwhile.         *)
(***************************************************************************)
RowIsCurrent(s, o) == lock[o] = s /\ obligation[o] = seen[s][o]

ReadIsCurrent ==
    \A s \in Sessions :
        /\ \A o \in Obligations : seen[s][o] # Nothing => RowIsCurrent(s, o)
        /\ pc[s] # "idle" /\ req[s].op # "refresh_all" =>
             req[s].obl \in todo[s] \/ RowIsCurrent(s, req[s].obl)
        /\ pc[s] = "account" => lock[req[s].acct] = s /\ funds[s] = balance[req[s].acct]

PayInv == RequestTypes /\ Occupied /\ ReadIsCurrent /\ PaymentSuccessIsOwn

-----------------------------------------------------------------------------
(* Requests and rows *)

\* The rows and keys of requests.
LEMMA RequestRows ==
    ASSUME NEW r \in Requests
    PROVE  /\ r # Nothing
           /\ r.op # "refresh_all" => r.obl \in Obligations /\ r.obl \in Rows
           /\ r.op \in PayOps => r \in Payments /\ r.acct \in Accounts /\ r.acct \in Rows
                                 /\ r.op # "refresh_all"
           /\ r.op \in PayOps /\ Keyed(r) => KeyOf(r) \in Keys
  BY ObligationsAssumption DEF Payments, Keys, PayOps, V17PayOps

\* The next obligation to lock is one of those still to be locked.
LEMMA NextRootIn ==
    ASSUME NEW s \in Sessions, todo[s] \in SUBSET Obligations, todo[s] # {}
    PROVE  /\ NextRoot(s) \in todo[s] /\ NextRoot(s) \in Obligations /\ NextRoot(s) \in Rows
           /\ \A p \in todo[s] : IdOrder[NextRoot(s)] <= IdOrder[p]
<1> DEFINE ids == {IdOrder[o] : o \in todo[s]}
<1>1. ids \in SUBSET Nat /\ ids # {}
  BY ObligationsAssumption
<1>2. PICK i \in ids : \A j \in ids : i <= j
  BY <1>1, LeastNat
<1>3. \E o \in todo[s] : \A p \in todo[s] : IdOrder[o] <= IdOrder[p]
  <2>1. PICK o \in todo[s] : IdOrder[o] = i
    OBVIOUS
  <2> QED
    BY <1>2, <2>1
<1> QED
  BY <1>3, ObligationsAssumption DEF NextRoot

-----------------------------------------------------------------------------
(* Sessions *)

\* The part of the invariant that is about one session.
Own(s) ==
    /\ pc[s] # "idle" => req[s] \in Requests
    /\ pc[s] = "account" => req[s].op \in PayOps /\ todo[s] = {}
    /\ \A o \in Obligations : seen[s][o] # Nothing => RowIsCurrent(s, o)
    /\ pc[s] # "idle" /\ req[s].op # "refresh_all" =>
         req[s].obl \in todo[s] \/ RowIsCurrent(s, req[s].obl)
    /\ pc[s] = "account" => lock[req[s].acct] = s /\ funds[s] = balance[req[s].acct]

\* The part that is about none.
PayBase == RequestTypes /\ PaymentSuccessIsOwn

LEMMA PayParts == /\ PayInv <=> PayBase /\ \A s \in Sessions : Own(s)
                  /\ PayInv' <=> PayBase' /\ \A s \in Sessions : Own(s)'
<1>1. /\ (Occupied /\ ReadIsCurrent) <=> \A s \in Sessions : Own(s)
      /\ (Occupied /\ ReadIsCurrent)' <=> \A s \in Sessions : Own(s)'
  BY DEF Occupied, ReadIsCurrent, Own
<1> QED
  BY <1>1 DEF PayInv, PayBase

\* A step leaves session t where it is, and alone with the rows it has locked.
Kept(t) ==
    /\ pc'[t] = pc[t] /\ req'[t] = req[t] /\ todo'[t] = todo[t]
    /\ seen'[t] = seen[t] /\ funds'[t] = funds[t]
    /\ \A row \in Rows : lock[row] = t => lock'[row] = t
    /\ \A o \in Obligations : lock[o] = t => obligation'[o] = obligation[o]
    /\ \A a \in Accounts : lock[a] = t => balance'[a] = balance[a]

\* What a step of session s achieves.
Achieves(s) == PayBase' /\ Own(s)' /\ \A t \in Sessions \ {s} : Kept(t)

LEMMA KeptOwn ==
    ASSUME NEW t \in Sessions, Own(t), Kept(t)
    PROVE  Own(t)'
<1>1. \A o \in Obligations : RowIsCurrent(t, o) => RowIsCurrent(t, o)'
  BY ObligationsAssumption DEF Kept, RowIsCurrent
<1>2. pc[t] # "idle" /\ req[t].op # "refresh_all" => req[t].obl \in Obligations
  BY RequestRows DEF Own
<1>3. pc[t] = "account" => req[t].acct \in Accounts /\ req[t].acct \in Rows
  BY RequestRows DEF Own
<1> QED
  BY <1>1, <1>2, <1>3 DEF Own, Kept

LEMMA AchievesAll ==
    ASSUME PayInv, NEW s \in Sessions, Achieves(s)
    PROVE  PayInv'
  BY PayParts, KeptOwn DEF Achieves

\* The end of a transaction, whether it commits or rolls back.
LEMMA LeaveFrame ==
    ASSUME RequestTypes, NEW s \in Sessions, Leave(s)
    PROVE  /\ LockTypeOK'
           /\ pc' \in [Sessions -> {"idle", "root", "account"}]
           /\ req' \in [Sessions -> Requests \cup {Nothing}]
           /\ todo' \in [Sessions -> SUBSET Obligations]
           /\ DOMAIN seen' = Sessions /\ \A t \in Sessions : DOMAIN seen'[t] = Obligations
           /\ DOMAIN funds' = Sessions
           /\ pc'[s] = "idle" /\ req'[s] = Nothing /\ seen'[s] = NoneSeen
           /\ Own(s)'
           /\ \A t \in Sessions \ {s} :
                /\ pc'[t] = pc[t] /\ req'[t] = req[t] /\ todo'[t] = todo[t]
                /\ seen'[t] = seen[t] /\ funds'[t] = funds[t]
                /\ \A row \in Rows : lock[row] = t => lock'[row] = t
<1>1. LockTypeOK' /\ \A t \in Sessions \ {s}, row \in Rows : lock[row] = t => lock'[row] = t
  BY DEF Leave, ReleaseAll, LockTypeOK, RequestTypes
<1>2. /\ pc' = [pc EXCEPT ![s] = "idle"] /\ req' = [req EXCEPT ![s] = Nothing]
      /\ todo' = [todo EXCEPT ![s] = {}] /\ seen' = [seen EXCEPT ![s] = NoneSeen]
      /\ funds' = [funds EXCEPT ![s] = 0]
  BY DEF Leave
<1>3. /\ pc'[s] = "idle" /\ req'[s] = Nothing /\ seen'[s] = NoneSeen
      /\ \A o \in Obligations : seen'[s][o] = Nothing
  BY <1>2 DEF RequestTypes, NoneSeen
<1>4. Own(s)'
  BY <1>3 DEF Own
<1>5. /\ DOMAIN seen' = Sessions /\ \A t \in Sessions : DOMAIN seen'[t] = Obligations
      /\ DOMAIN funds' = Sessions
  BY <1>2 DEF RequestTypes, NoneSeen
<1> QED
  BY <1>1, <1>2, <1>3, <1>4, <1>5 DEF RequestTypes

\* Whatever a session writes as it ends is its own.
LEMMA LeaveKeeps ==
    ASSUME PayBase, NEW s \in Sessions, Leave(s),
           DOMAIN obligation' = Obligations, DOMAIN balance' = Accounts,
           recorded' \in [Keys -> Payments \cup {Nothing}], told' \subseteq Payments,
           PaymentSuccessIsOwn',
           \A o \in Obligations : lock[o] # s => obligation'[o] = obligation[o],
           \A a \in Accounts : lock[a] # s => balance'[a] = balance[a]
    PROVE  Achieves(s)
<1>1. RequestTypes' /\ Own(s)'
  BY LeaveFrame DEF RequestTypes, PayBase
<1>2. \A t \in Sessions \ {s} :
        /\ pc'[t] = pc[t] /\ req'[t] = req[t] /\ todo'[t] = todo[t]
        /\ seen'[t] = seen[t] /\ funds'[t] = funds[t]
        /\ \A row \in Rows : lock[row] = t => lock'[row] = t
  BY LeaveFrame DEF PayBase
<1>3. \A t \in Sessions \ {s} : Kept(t)
  BY <1>2 DEF Kept
<1> QED
  BY <1>1, <1>3 DEF Achieves, PayBase

\* A payment that is answered is recorded.
LEMMA TellKeeps ==
    ASSUME PayBase, NEW r \in Payments, Tell(r), RecordedAs(r) = r, UNCHANGED recorded
    PROVE  told' \subseteq Payments /\ PaymentSuccessIsOwn'
<1>1. told \subseteq Payments /\ PaymentSuccessIsOwn
  BY DEF PayBase, RequestTypes
<1>2. Keyed(r) => recorded'[KeyOf(r)] = r
  BY DEF RecordedAs
<1> QED
  BY <1>1, <1>2 DEF Tell, PaymentSuccessIsOwn

\* A step that answers and records nothing.
LEMMA AnswersKept ==
    ASSUME PayBase, UNCHANGED <<recorded, told>>
    PROVE  /\ recorded' \in [Keys -> Payments \cup {Nothing}] /\ told' \subseteq Payments
           /\ PaymentSuccessIsOwn'
  BY DEF PayBase, RequestTypes, PaymentSuccessIsOwn

\* A session that ends and writes obligations that it holds.
LEMMA EndKeeps ==
    ASSUME PayBase, NEW s \in Sessions, Leave(s), UNCHANGED <<balance, recorded, told>>,
           DOMAIN obligation' = Obligations,
           \A o \in Obligations : lock[o] # s => obligation'[o] = obligation[o]
    PROVE  Achieves(s)
<1>1. DOMAIN balance' = Accounts
  BY DEF PayBase, RequestTypes
<1> QED
  BY <1>1, LeaveKeeps, AnswersKept

LEMMA EarlyReplayKeeps ==
    ASSUME PayBase, NEW s \in Sessions, Own(s), NEW r \in Requests, EarlyReplay(s, r)
    PROVE  Achieves(s)
<1>1. r \in Payments /\ Tell(r) /\ RecordedAs(r) = r
  BY DEF EarlyReplay, Payments, PayOps, Same
<1>2. UNCHANGED <<obligation, balance, recorded, lock, pc, req, todo, seen, funds>>
  BY DEF EarlyReplay, sessionVars
<1>3. told' \subseteq Payments /\ PaymentSuccessIsOwn'
  BY <1>1, <1>2, TellKeeps
<1>4. RequestTypes'
  BY <1>2, <1>3 DEF PayBase, RequestTypes, LockTypeOK
<1>5. \A t \in Sessions : Kept(t)
  BY <1>2 DEF Kept
<1> QED
  BY <1>3, <1>4, <1>5, KeptOwn DEF Achieves, PayBase

\* A request begins: Begin, and the Claim of a processor.
LEMMA BeginsKeeps ==
    ASSUME PayBase, NEW s \in Sessions, Own(s), NEW r \in Requests,
           NEW roots \in SUBSET Obligations, r.op # "refresh_all" => r.obl \in roots,
           pc[s] = "idle",
           UNCHANGED <<obligation, balance, recorded, told, seen, funds>>,
           LockTypeOK', \A x \in Rows, t \in Sessions : lock[x] = t => lock'[x] = t,
           pc' = [pc EXCEPT ![s] = "root"], req' = [req EXCEPT ![s] = r],
           todo' = [todo EXCEPT ![s] = roots]
    PROVE  Achieves(s)
<1>1. RequestTypes
  BY DEF PayBase
<1>2. RequestTypes'
  BY <1>1 DEF RequestTypes
<1>3. /\ pc'[s] = "root" /\ req'[s] = r /\ todo'[s] = roots
      /\ \A t \in Sessions \ {s} : pc'[t] = pc[t] /\ req'[t] = req[t] /\ todo'[t] = todo[t]
  BY <1>1 DEF RequestTypes
<1>4. Own(s)'
  <2>1. \A o \in Obligations : RowIsCurrent(s, o) => RowIsCurrent(s, o)'
    BY ObligationsAssumption DEF RowIsCurrent
  <2> QED
    BY <1>3, <2>1 DEF Own
<1>5. \A t \in Sessions \ {s} : Kept(t)
  BY <1>3 DEF Kept
<1> QED
  BY <1>2, <1>4, <1>5, AnswersKept DEF Achieves, PayBase

LEMMA BeginKeeps ==
    ASSUME PayBase, NEW s \in Sessions, Own(s), NEW r \in Requests, Begin(s, r)
    PROVE  Achieves(s)
<1>1. /\ UNCHANGED <<obligation, balance, recorded, told, lock, seen, funds>> /\ pc[s] = "idle"
      /\ pc' = [pc EXCEPT ![s] = "root"] /\ req' = [req EXCEPT ![s] = r]
      /\ todo' = [todo EXCEPT ![s] = Roots(r)]
  BY DEF Begin, tableVars
<1>2. /\ Roots(r) \in SUBSET Obligations
      /\ r.op # "refresh_all" => r.obl \in Roots(r)
  BY RequestRows DEF Roots
<1>3. LockTypeOK' /\ \A x \in Rows, t \in Sessions : lock[x] = t => lock'[x] = t
  BY <1>1 DEF PayBase, RequestTypes, LockTypeOK
<1> QED
  BY <1>1, <1>2, <1>3, BeginsKeeps

\* A row that was free, or its own, is taken.
LEMMA TakeFrame ==
    ASSUME RequestTypes, NEW s \in Sessions, NEW row \in Rows, Available(s, row), Take(s, row)
    PROVE  /\ LockTypeOK' /\ lock'[row] = s
           /\ \A x \in Rows, t \in Sessions : lock[x] = t => lock'[x] = t
  BY NobodyAssumption DEF Available, Take, LockTypeOK, RequestTypes

LEMMA LockRootKeeps ==
    ASSUME PayBase, NEW s \in Sessions, Own(s), LockRoot(s)
    PROVE  Achieves(s)
<1>1. RequestTypes
  BY DEF PayBase
<1>2. todo[s] # {} /\ todo[s] \in SUBSET Obligations
  BY <1>1 DEF LockRoot, RequestTypes
<1>3. PICK o \in Obligations : o = NextRoot(s) /\ o \in Rows
  BY <1>2, NextRootIn
<1> DEFINE left == req[s].op = "refresh_all" /\ obligation[o].status # "active"
<1>4. /\ UNCHANGED <<obligation, balance, recorded, told, pc, req, funds>> /\ pc[s] = "root"
      /\ todo' = [todo EXCEPT ![s] = todo[s] \ {o}]
      /\ Available(s, o)
  BY <1>3 DEF LockRoot, tableVars
<1>5. /\ todo' \in [Sessions -> SUBSET Obligations]
      /\ todo'[s] = todo[s] \ {o} /\ \A t \in Sessions \ {s} : todo'[t] = todo[t]
  BY <1>1, <1>2, <1>4 DEF RequestTypes
<1>6. CASE left
  <2>1. UNCHANGED <<lock, seen>>
    BY <1>3, <1>6 DEF LockRoot
  <2>2. RequestTypes'
    BY <1>1, <1>4, <1>5, <2>1 DEF RequestTypes, LockTypeOK
  <2>3. Own(s)'
    BY <1>4, <1>6, <2>1 DEF Own, RowIsCurrent
  <2>4. \A t \in Sessions \ {s} : Kept(t)
    BY <1>4, <1>5, <2>1 DEF Kept
  <2> QED
    BY <1>4, <2>2, <2>3, <2>4, AnswersKept DEF Achieves, PayBase
<1>7. CASE ~left
  <2>1. Take(s, o) /\ seen' = [seen EXCEPT ![s][o] = obligation[o]]
    BY <1>3, <1>7 DEF LockRoot
  <2> HIDE DEF left
  <2>2. /\ LockTypeOK' /\ lock'[o] = s
        /\ \A x \in Rows, t \in Sessions : lock[x] = t => lock'[x] = t
    BY <1>1, <1>4, <1>3, <2>1, TakeFrame
  <2>3. /\ DOMAIN seen' = Sessions /\ \A t \in Sessions : DOMAIN seen'[t] = Obligations
        /\ seen'[s][o] = obligation[o]
        /\ \A x \in Obligations \ {o} : seen'[s][x] = seen[s][x]
        /\ \A t \in Sessions \ {s} : seen'[t] = seen[t]
    BY <1>1, <1>3, <2>1 DEF RequestTypes
  <2>4. RequestTypes'
    BY <1>1, <1>4, <1>5, <2>2, <2>3 DEF RequestTypes
  <2>5. Own(s)'
    <3>1. RowIsCurrent(s, o)'
      BY <1>4, <2>2, <2>3 DEF RowIsCurrent
    <3>2. \A x \in Obligations : RowIsCurrent(s, x) => RowIsCurrent(s, x)'
      BY <1>4, <2>2, <2>3, <3>1, ObligationsAssumption DEF RowIsCurrent
    <3>3. \A x \in Obligations : seen'[s][x] # Nothing => RowIsCurrent(s, x)'
      BY <2>3, <3>1, <3>2 DEF Own
    <3>4. req[s] \in Requests /\ (req[s].op # "refresh_all" => req[s].obl \in Obligations)
      BY <1>4, RequestRows DEF Own
    <3>5. req[s].op # "refresh_all" => req[s].obl \in todo'[s] \/ RowIsCurrent(s, req[s].obl)'
      BY <1>4, <1>5, <3>1, <3>2, <3>4 DEF Own
    <3> QED
      BY <1>4, <3>3, <3>4, <3>5 DEF Own
  <2>6. \A t \in Sessions \ {s} : Kept(t)
    BY <1>4, <1>5, <2>2, <2>3 DEF Kept
  <2> QED
    BY <1>4, <2>4, <2>5, <2>6, AnswersKept DEF Achieves, PayBase
<1> QED
  BY <1>6, <1>7

LEMMA LockAccountKeeps ==
    ASSUME PayBase, NEW s \in Sessions, Own(s), LockAccount(s)
    PROVE  Achieves(s)
<1>1. RequestTypes
  BY DEF PayBase
<1>2. req[s] \in Requests /\ req[s].op \in PayOps /\ pc[s] = "root" /\ todo[s] = {}
  BY DEF LockAccount, AtRoot, MayPay, Own
<1>3. PICK a \in Accounts : a = req[s].acct /\ a \in Rows
  BY <1>2, RequestRows
<1>4. /\ UNCHANGED <<obligation, balance, recorded, told, req, todo, seen>>
      /\ pc' = [pc EXCEPT ![s] = "account"] /\ funds' = [funds EXCEPT ![s] = balance[a]]
      /\ Available(s, a) /\ Take(s, a)
  BY <1>3 DEF LockAccount, tableVars
<1>5. /\ LockTypeOK' /\ lock'[a] = s
      /\ \A x \in Rows, t \in Sessions : lock[x] = t => lock'[x] = t
  BY <1>1, <1>3, <1>4, TakeFrame
<1>6. /\ pc'[s] = "account" /\ funds'[s] = balance[a]
      /\ \A t \in Sessions \ {s} : pc'[t] = pc[t] /\ funds'[t] = funds[t]
  BY <1>1, <1>4 DEF RequestTypes
<1>7. RequestTypes'
  BY <1>1, <1>4, <1>5 DEF RequestTypes
<1>8. Own(s)'
  <2>1. \A x \in Obligations : RowIsCurrent(s, x) => RowIsCurrent(s, x)'
    BY <1>4, <1>5, ObligationsAssumption DEF RowIsCurrent
  <2>2. req[s].obl \in Obligations /\ req[s].op # "refresh_all"
    BY <1>2, RequestRows
  <2>3. RowIsCurrent(s, req[s].obl)
    BY <1>2, <2>2 DEF Own
  <2>4. req'[s] = req[s] /\ RowIsCurrent(s, req[s].obl)'
    BY <1>4, <2>1, <2>2, <2>3
  <2>5. \A x \in Obligations : seen'[s][x] # Nothing => RowIsCurrent(s, x)'
    BY <1>4, <2>1 DEF Own
  <2> QED
    BY <1>2, <1>3, <1>4, <1>5, <1>6, <2>4, <2>5 DEF Own
<1>9. \A t \in Sessions \ {s} : Kept(t)
  BY <1>4, <1>5, <1>6 DEF Kept
<1> QED
  BY <1>4, <1>7, <1>8, <1>9, AnswersKept DEF Achieves, PayBase

-----------------------------------------------------------------------------
(* The ends of a request *)

\* A request that has locked its obligation holds it.
LEMMA Deciding ==
    ASSUME NEW s \in Sessions, Own(s), AtRoot(s) \/ pc[s] = "account",
           req[s].op # "refresh_all"
    PROVE  /\ req[s] \in Requests /\ req[s].obl \in Obligations
           /\ lock[req[s].obl] = s /\ seen[s][req[s].obl] = obligation[req[s].obl]
<1>1. pc[s] # "idle" /\ todo[s] = {}
  BY DEF AtRoot, Own
<1> QED
  BY <1>1, RequestRows DEF Own, RowIsCurrent

LEMMA RootReplayKeeps ==
    ASSUME PayBase, NEW s \in Sessions, Own(s), RootReplay(s)
    PROVE  Achieves(s)
<1>1. RequestTypes /\ DOMAIN obligation = Obligations /\ DOMAIN balance = Accounts
  BY DEF PayBase, RequestTypes
<1>2. /\ UNCHANGED <<obligation, balance, recorded>> /\ Leave(s) /\ Tell(req[s])
      /\ RecordedAs(req[s]) = req[s]
      /\ pc[s] = "root" /\ req[s].op \in PayOps
  BY DEF RootReplay, Same, AtRoot
<1>3. req[s] \in Payments
  BY <1>2, RequestRows DEF Own
<1>4. told' \subseteq Payments /\ PaymentSuccessIsOwn'
  BY <1>2, <1>3, TellKeeps
<1>5. recorded' \in [Keys -> Payments \cup {Nothing}]
  BY <1>1, <1>2 DEF RequestTypes
<1> QED
  BY <1>1, <1>2, <1>4, <1>5, LeaveKeeps

\* A session that may pay: it holds the rows that its payment writes.
HoldsBoth(s) ==
    /\ req[s] \in Requests /\ req[s].op \in PayOps
    /\ lock[req[s].obl] = s /\ lock[req[s].acct] = s

LEMMA OwnHolds ==
    ASSUME NEW s \in Sessions, Own(s), pc[s] = "account"
    PROVE  HoldsBoth(s)
  BY RequestRows, Deciding DEF Own, HoldsBoth

LEMMA PayKeeps ==
    ASSUME PayBase, NEW s \in Sessions, HoldsBoth(s), Pay(s)
    PROVE  Achieves(s)
<1>1. RequestTypes
  BY DEF PayBase
<1>2. pc[s] = "account" /\ Leave(s) /\ RecordedAs(req[s]) = Nothing /\ Tell(req[s])
  BY DEF Pay, Payment
<1>3. /\ req[s] \in Payments /\ req[s] # Nothing /\ req[s].obl \in Obligations
      /\ req[s].acct \in Accounts /\ (Keyed(req[s]) => KeyOf(req[s]) \in Keys)
  BY RequestRows DEF HoldsBoth
<1>4. lock[req[s].obl] = s /\ lock[req[s].acct] = s
  BY DEF HoldsBoth
<1>5. /\ DOMAIN obligation' = Obligations
      /\ \A o \in Obligations : lock[o] # s => obligation'[o] = obligation[o]
  BY <1>1, <1>3, <1>4 DEF Pay, RequestTypes
<1>6. /\ DOMAIN balance' = Accounts
      /\ \A a \in Accounts : lock[a] # s => balance'[a] = balance[a]
  BY <1>1, <1>3, <1>4 DEF Pay, RequestTypes
<1>7. recorded' = IF Keyed(req[s]) THEN [recorded EXCEPT ![KeyOf(req[s])] = req[s]] ELSE recorded
  BY DEF Pay
<1>8. recorded' \in [Keys -> Payments \cup {Nothing}]
  BY <1>1, <1>3, <1>7 DEF RequestTypes
<1>9. told' \subseteq Payments
  BY <1>1, <1>2, <1>3 DEF Tell, RequestTypes
<1>10. PaymentSuccessIsOwn'
  <2> SUFFICES ASSUME NEW q \in told', Keyed(q)
               PROVE  recorded'[KeyOf(q)] = q
    BY DEF PaymentSuccessIsOwn
  <2>1. CASE q = req[s]
    <3>1. recorded' = [recorded EXCEPT ![KeyOf(req[s])] = req[s]]
      BY <1>7, <2>1
    <3> QED
      BY <1>1, <1>3, <2>1, <3>1 DEF RequestTypes
  <2>2. CASE q # req[s]
    <3>1. q \in told /\ q \in Payments /\ q \in Requests /\ q # Nothing
      BY <1>1, <1>2, <2>2, RequestRows DEF Tell, RequestTypes, Payments
    <3>2. recorded[KeyOf(q)] = q
      BY <3>1 DEF PayBase, PaymentSuccessIsOwn
    <3>3. Keyed(req[s]) => KeyOf(req[s]) # KeyOf(q)
      BY <1>2, <3>1, <3>2 DEF RecordedAs
    <3> QED
      BY <1>1, <1>3, <1>7, <3>2, <3>3 DEF RequestTypes
  <2> QED
    BY <2>1, <2>2
<1> QED
  BY <1>2, <1>5, <1>6, <1>8, <1>9, <1>10, LeaveKeeps

LEMMA EditKeeps ==
    ASSUME PayBase, NEW s \in Sessions, Own(s), Edit(s)
    PROVE  Achieves(s)
<1>1. DOMAIN obligation = Obligations
  BY DEF PayBase, RequestTypes
<1>2. /\ AtRoot(s) /\ Leave(s) /\ UNCHANGED <<balance, recorded, told>>
      /\ req[s].op # "refresh_all"
  BY DEF Edit, EditOps
<1>3. req[s].obl \in Obligations /\ lock[req[s].obl] = s
  BY <1>2, Deciding
<1>4. /\ DOMAIN obligation' = Obligations
      /\ \A o \in Obligations : lock[o] # s => obligation'[o] = obligation[o]
  BY <1>1, <1>3 DEF Edit
<1> QED
  BY <1>2, <1>4, EndKeeps

LEMMA RefreshAllKeeps ==
    ASSUME PayBase, NEW s \in Sessions, Own(s), RefreshAll(s)
    PROVE  Achieves(s)
<1>1. DOMAIN obligation = Obligations
  BY DEF PayBase, RequestTypes
<1>2. Leave(s) /\ UNCHANGED <<balance, recorded, told>>
  BY DEF RefreshAll
<1>3. /\ DOMAIN obligation' = Obligations
      /\ \A o \in Obligations : lock[o] # s => obligation'[o] = obligation[o]
  BY <1>1 DEF RefreshAll, Own, RowIsCurrent
<1> QED
  BY <1>2, <1>3, EndKeeps

\* A refusal, a lost session, or a rollback.
LEMMA QuietEndKeeps ==
    ASSUME PayBase, NEW s \in Sessions, Leave(s), UNCHANGED tableVars
    PROVE  Achieves(s)
<1>1. DOMAIN obligation' = Obligations /\ UNCHANGED <<obligation, balance, recorded, told>>
  BY DEF PayBase, RequestTypes, tableVars
<1> QED
  BY <1>1, EndKeeps

LEMMA ClientKeeps ==
    ASSUME PayBase, NEW s \in Sessions, Own(s), ClientStep(s)
    PROVE  Achieves(s)
<1>1. CASE Refuse(s) \/ Fail(s)
  BY <1>1, QuietEndKeeps DEF Refuse, Fail
<1>2. CASE Pay(s)
  BY <1>2, PayKeeps, OwnHolds DEF Pay, Payment
<1> QED
  BY <1>1, <1>2, EarlyReplayKeeps, BeginKeeps, LockRootKeeps, LockAccountKeeps,
     RootReplayKeeps, EditKeeps, RefreshAllKeeps DEF ClientStep, Serve

\* Other services wait for the account, and days pass.
LEMMA OthersKeep ==
    ASSUME PayBase, OtherServices \/ (UNCHANGED <<tableVars, sessionVars>>)
    PROVE  PayBase' /\ \A t \in Sessions : Kept(t)
<1>1. RequestTypes
  BY DEF PayBase
<1>2. UNCHANGED <<obligation, recorded, told, lock, pc, req, todo, seen, funds>>
  BY DEF OtherServices, Spend, Archive, sessionVars, tableVars
<1>3. /\ DOMAIN balance' = Accounts
      /\ \A a \in Accounts, t \in Sessions : lock[a] = t => balance'[a] = balance[a]
  BY <1>1, NobodyAssumption
  DEF OtherServices, Spend, Archive, tableVars, RequestTypes
<1>4. RequestTypes'
  BY <1>1, <1>2, <1>3 DEF RequestTypes, LockTypeOK
<1>5. \A t \in Sessions : Kept(t)
  BY <1>2, <1>3 DEF Kept
<1> QED
  BY <1>2, <1>4, <1>5, AnswersKept DEF PayBase

-----------------------------------------------------------------------------
LEMMA PayInitially == Init => PayInv
<1> SUFFICES ASSUME Init PROVE PayInv
  OBVIOUS
<1>1. /\ LockTypeOK /\ DOMAIN obligation = Obligations /\ DOMAIN balance = Accounts
      /\ recorded \in [Keys -> Payments \cup {Nothing}] /\ told = {}
  BY ObligationsAssumption DEF Init, LockInit, LockTypeOK
<1>2. /\ pc = [s \in Sessions |-> "idle"] /\ req = [s \in Sessions |-> Nothing]
      /\ todo = [s \in Sessions |-> {}] /\ seen = [s \in Sessions |-> NoneSeen]
      /\ funds = [s \in Sessions |-> 0]
  BY DEF Init
<1>3. \A s \in Sessions : DOMAIN seen[s] = Obligations /\ \A o \in Obligations : seen[s][o] = Nothing
  BY <1>2 DEF NoneSeen
<1>4. RequestTypes
  BY <1>1, <1>2, <1>3 DEF RequestTypes
<1> QED
  BY <1>1, <1>2, <1>3, <1>4 DEF PayInv, Occupied, ReadIsCurrent, PaymentSuccessIsOwn

LEMMA PayInductive == PayInv /\ [Next]_vars => PayInv'
<1> SUFFICES ASSUME PayInv, [Next]_vars PROVE PayInv'
  OBVIOUS
<1>1. PayBase /\ \A s \in Sessions : Own(s)
  BY PayParts
<1>2. ASSUME NEW s \in Sessions, ClientStep(s) PROVE PayInv'
  BY <1>1, <1>2, ClientKeeps, AchievesAll
<1>3. CASE OtherServices \/ NextDay \/ UNCHANGED vars
  <2>1. PayBase' /\ \A t \in Sessions : Kept(t)
    BY <1>1, <1>3, OthersKeep DEF NextDay, vars
  <2> QED
    BY <1>1, <2>1, KeptOwn, PayParts
<1> QED
  BY <1>2, <1>3 DEF Next

(***************************************************************************)
(* Whatever clients ask, sessions fail, others spend and days pass, the    *)
(* inductive invariant of payments holds.                                  *)
(***************************************************************************)
THEOREM PaymentInvariant == Spec => []PayInv
<1> QED
  BY PayInitially, PayInductive, PTL DEF Spec

(***************************************************************************)
(* An edit, a refresh of all obligations or a payment is decided on rows   *)
(* and a balance that nobody has changed since: none of them undoes what   *)
(* another session committed (with_for_update and populate_existing).      *)
(***************************************************************************)
THEOREM ReadsStayCurrent == Spec => []ReadIsCurrent
<1>1. PayInv => ReadIsCurrent
  BY DEF PayInv
<1> QED
  BY <1>1, PaymentInvariant, PTL

(***************************************************************************)
(* A client told that its payment is done finds that very payment recorded *)
(* under its key, whatever raced with it for the key.                      *)
(***************************************************************************)
THEOREM PaymentSuccessStaysOwn == Spec => []PaymentSuccessIsOwn
<1>1. PayInv => PaymentSuccessIsOwn
  BY DEF PayInv
<1> QED
  BY <1>1, PaymentInvariant, PTL


-----------------------------------------------------------------------------
(* One row: an obligation with its periods *)

\* A period that is overdue was due before some day.
PeriodSound(o, n, p, day) ==
    /\ p \in Period /\ StatusFits(p)
    /\ p.status = "absent" => p = Absent
    /\ p.status = "overdue" => DueOf(o, n) < day

Bounded(o, there) ==
    /\ \A n \in there : 1 .. n \subseteq there
    /\ Terms[o].ends = "once" => there \subseteq {1}
    /\ Terms[o].ends = "count" => there \subseteq 1 .. Terms[o].last
    /\ Terms[o].ends = "date" => \A n \in there \ {1} : StartOf(o, n) <= Terms[o].last

RowSound(o, ob, day) ==
    /\ ob \in Row
    /\ \A n \in Numbers : PeriodSound(o, n, ob.periods[n], day)
    /\ ob.status = "none" <=> Existing(ob) = {}
    /\ ob.status # "none" => ob.base > 0
    /\ Bounded(o, Existing(ob))

\* An archived obligation goes on as it was when it is resumed.
LifeSound(o, ob) ==
    /\ ob.status = "completed" => Settled(o, ob)
    /\ ob.status \in {"active", "archived"} => ~Settled(o, ob)

LEMMA NumbersAre ==
    /\ Numbers \subseteq Nat \ {0} /\ 1 \in Numbers /\ IsFiniteSet(Numbers)
    /\ \A n \in Numbers : 1 .. n \subseteq Numbers
<1>1. Horizon \in Nat /\ Length \in Nat \ {0}
  BY TermsAssumption
<1>2. Horizon \div Length \in Nat
  BY <1>1
<1>3. Horizon \div Length + 2 \in Nat /\ Horizon \div Length + 2 >= 1
  BY <1>2
<1> DEFINE last == Horizon \div Length + 2
<1> HIDE DEF last
<1>4. last \in Nat /\ last >= 1 /\ Numbers = 1 .. last
  BY <1>3 DEF last, Numbers
<1>5. IsFiniteSet(1 .. last)
  BY <1>4, FS_Interval
<1> QED
  BY <1>4, <1>5

LEMMA TermsOf ==
    ASSUME NEW o \in Obligations
    PROVE  /\ Terms[o] \in Term /\ Terms[o].base \in Nat \ {0}
           /\ Terms[o].last \in Nat /\ Terms[o].start \in Nat /\ Terms[o].offset \in Nat
           /\ Terms[o].ends = "count" => Terms[o].last > 0
           /\ \A n \in Numbers : StartOf(o, n) \in Nat /\ DueOf(o, n) \in Nat
           /\ \A m, n \in Numbers : m < n => StartOf(o, m) < StartOf(o, n)
                                            /\ DueOf(o, m) < DueOf(o, n)
<1>1. Terms[o] \in Term /\ (Terms[o].ends = "count" => Terms[o].last > 0)
  BY TermsAssumption
<1>2. /\ Terms[o].base \in Nat \ {0} /\ Terms[o].last \in Nat
      /\ Terms[o].start \in Nat /\ Terms[o].offset \in Nat
  BY <1>1 DEF Term
<1>3. Length \in Nat \ {0}
  BY TermsAssumption
<1>4. \A k \in Nat : k * Length \in Nat
  BY <1>3
<1>5. ASSUME NEW n \in Numbers PROVE StartOf(o, n) \in Nat /\ DueOf(o, n) \in Nat
  <2>1. n - 1 \in Nat
    BY NumbersAre
  <2>2. (n - 1) * Length \in Nat
    BY <1>4, <2>1
  <2> QED
    BY <1>2, <2>2 DEF StartOf, DueOf
<1>6. ASSUME NEW m \in Numbers, NEW n \in Numbers, m < n
      PROVE  StartOf(o, m) < StartOf(o, n) /\ DueOf(o, m) < DueOf(o, n)
  <2>1. m \in Nat \ {0} /\ n \in Nat \ {0}
    BY NumbersAre
  <2>2. (n - 1) * Length = (m - 1) * Length + (n - m) * Length
    BY <1>3, <2>1
  <2>3. (n - m) * Length > 0
    BY <1>3, <1>6, <2>1
  <2>4. (m - 1) * Length \in Nat /\ (n - m) * Length \in Nat
    BY <1>4, <1>6, <2>1
  <2>5. (m - 1) * Length < (n - 1) * Length
    BY <2>2, <2>3, <2>4
  <2>6. (n - 1) * Length \in Nat
    BY <1>4, <2>1
  <2> QED
    BY <1>2, <2>4, <2>5, <2>6 DEF StartOf, DueOf
<1> QED
  BY <1>1, <1>2, <1>5, <1>6

\* The same periods are settled, whatever else changes.
LEMMA SettledSame ==
    ASSUME NEW o, NEW ob, NEW oc,
           \A n \in Numbers : oc.periods[n].status = ob.periods[n].status
    PROVE  Existing(oc) = Existing(ob) /\ (Settled(o, oc) <=> Settled(o, ob))
<1>1. Existing(oc) = Existing(ob)
  BY DEF Existing
<1>2. \A S : S \subseteq Existing(ob) => (AllClosed(oc, S) <=> AllClosed(ob, S))
  BY DEF AllClosed, Existing
<1> QED
  BY <1>1, <1>2 DEF Settled

\* Days pass.
LEMMA SoundLater ==
    ASSUME NEW o \in Obligations, NEW ob, NEW day \in Int, NEW later \in Int, day <= later,
           RowSound(o, ob, day)
    PROVE  RowSound(o, ob, later)
<1>1. \A n \in Numbers : DueOf(o, n) \in Nat
  BY TermsOf
<1> QED
  BY <1>1 DEF RowSound, PeriodSound

LEMMA CreatedSound ==
    ASSUME NEW o \in Obligations, NEW day \in Nat
    PROVE  RowSound(o, Created(o), day) /\ LifeSound(o, Created(o))
<1> DEFINE ob == Created(o)
           p == FirstPeriod(o)
<1>1. /\ p \in Period /\ StatusFits(p)
      /\ p.status \in {"pending_payment", "pending_amount_definition"}
  <2>1. /\ DueOf(o, 1) \in Nat /\ Terms[o].base \in Nat \ {0}
        /\ ~(DueOf(o, 1) < 0)
    BY TermsOf, NumbersAre
  <2> QED
    BY <2>1 DEF FirstPeriod, NewPeriod, Period, Absent, StatusFits, Open, Closed
<1>2. /\ ob.status = "active" /\ ob.base = Terms[o].base
      /\ ob.periods[1] = p /\ \A n \in Numbers \ {1} : ob.periods[n] = Absent
  BY NumbersAre DEF Created
<1>3. Absent \in Period /\ StatusFits(Absent) /\ Absent.status = "absent"
  BY DEF Absent, Period, StatusFits
<1>4. ob \in Row
  BY <1>1, <1>3, TermsOf, NumbersAre DEF Created, Row
<1>5. Existing(ob) = {1}
  BY <1>1, <1>2, <1>3, NumbersAre DEF Existing
<1>6. Bounded(o, {1})
  BY TermsOf DEF Bounded
<1>7. ~Settled(o, ob)
  <2>1. ~AllClosed(ob, {1})
    BY <1>1, <1>2 DEF AllClosed, Closed
  <2>2. Terms[o].ends = "count" => ~AllClosed(ob, 1 .. Terms[o].last)
    <3>1. Terms[o].ends = "count" => 1 \in 1 .. Terms[o].last
      BY TermsOf
    <3> QED
      BY <2>1, <3>1 DEF AllClosed
  <2> QED
    BY <1>5, <2>1, <2>2 DEF Settled
<1>8. \A n \in Numbers : PeriodSound(o, n, ob.periods[n], day)
  BY <1>1, <1>2, <1>3 DEF PeriodSound
<1> QED
  BY <1>2, <1>4, <1>5, <1>6, <1>7, <1>8, TermsOf DEF RowSound, LifeSound

\* The numbers of a gapless row with those up to a bound.
LEMMA BoundedGrows ==
    ASSUME NEW o \in Obligations, NEW there \in SUBSET Numbers, Bounded(o, there),
           NEW day \in Int
    PROVE  Bounded(o, there \cup Wanted(o, day))
<1> DEFINE W == Wanted(o, day)
           bound == IF Terms[o].ends = "once" THEN 1 ELSE SequenceOn(o, day) + 1
<1>1. SequenceOn(o, day) \in Int
  <2>1. Terms[o].start \in Nat /\ Length \in Nat \ {0}
    BY TermsOf, TermsAssumption
  <2>2. ~(day < Terms[o].start) => day - Terms[o].start \in Nat
    BY <2>1
  <2>3. \A k \in Nat : k \div Length \in Int
    BY <2>1
  <2> QED
    BY <2>2, <2>3 DEF SequenceOn
<1>2. bound \in Int
  BY <1>1
<1>3. \A n \in W : /\ n \in Numbers /\ n <= bound
                   /\ Terms[o].ends = "count" => n <= Terms[o].last
                   /\ Terms[o].ends = "date" => StartOf(o, n) <= Terms[o].last
  BY DEF Wanted
<1>4. \A n \in Numbers :
        /\ n <= bound
        /\ Terms[o].ends = "count" => n <= Terms[o].last
        /\ Terms[o].ends = "date" => StartOf(o, n) <= Terms[o].last
        => n \in W
  BY DEF Wanted
<1> HIDE DEF W, bound
<1>5. ASSUME NEW n \in W PROVE 1 .. n \subseteq W
  <2> SUFFICES ASSUME NEW m \in 1 .. n, m # n PROVE m \in W
    BY <1>5
  <2>0. n \in Numbers
    BY <1>3
  <2>1. n \in Nat /\ m \in Numbers /\ m \in Nat /\ m < n
    BY <2>0, NumbersAre
  <2>2. StartOf(o, m) < StartOf(o, n) /\ StartOf(o, m) \in Nat /\ StartOf(o, n) \in Nat
        /\ Terms[o].last \in Nat
    BY <2>0, <2>1, TermsOf
  <2>3. /\ n <= bound
        /\ Terms[o].ends = "count" => n <= Terms[o].last
        /\ Terms[o].ends = "date" => StartOf(o, n) <= Terms[o].last
    BY <1>3
  <2>4. m <= bound /\ (Terms[o].ends = "count" => m <= Terms[o].last)
    BY <1>2, <2>1, <2>2, <2>3
  <2>5. Terms[o].ends = "date" => StartOf(o, m) <= Terms[o].last
    BY <2>2, <2>3
  <2> QED
    BY <1>4, <2>1, <2>4, <2>5
<1>6. Terms[o].ends = "once" => W \subseteq {1}
  <2> SUFFICES ASSUME Terms[o].ends = "once", NEW n \in W PROVE n = 1
    OBVIOUS
  <2>1. bound = 1
    BY DEF bound
  <2>2. n \in Numbers /\ n <= bound
    BY <1>3
  <2> QED
    BY <2>1, <2>2, NumbersAre
<1>7. Terms[o].ends = "count" => W \subseteq 1 .. Terms[o].last
  <2> SUFFICES ASSUME Terms[o].ends = "count", NEW n \in W PROVE n \in 1 .. Terms[o].last
    OBVIOUS
  <2>1. n \in Nat \ {0} /\ n <= Terms[o].last /\ Terms[o].last \in Nat
    BY <1>3, NumbersAre, TermsOf
  <2> QED
    BY <2>1
<1>8. \A n \in there \cup W : 1 .. n \subseteq there \cup W
  BY <1>5 DEF Bounded
<1>9. Terms[o].ends = "date" => \A n \in (there \cup W) \ {1} : StartOf(o, n) <= Terms[o].last
  BY <1>3 DEF Bounded
<1>10. /\ Terms[o].ends = "once" => there \cup W \subseteq {1}
       /\ Terms[o].ends = "count" => there \cup W \subseteq 1 .. Terms[o].last
  BY <1>6, <1>7 DEF Bounded
<1> QED
  BY <1>8, <1>9, <1>10 DEF Bounded, W

\* A period that a refresh creates.
LEMMA NewPeriodSound ==
    ASSUME NEW o \in Obligations, NEW base \in Nat \ {0}, NEW n \in Numbers,
           NEW day \in Int, NEW now \in Int, day <= now
    PROVE  LET p == NewPeriod(o, base, n, day) IN
           PeriodSound(o, n, p, now) /\ p.status \in Open /\ p.paid = 0
<1>1. DueOf(o, n) \in Nat
  BY TermsOf
<1>2. CASE Terms[o].amounts = "fixed"
  BY <1>1, <1>2 DEF NewPeriod, PeriodSound, Period, StatusFits, Open
<1>3. CASE Terms[o].amounts # "fixed"
  BY <1>3 DEF NewPeriod, PeriodSound, Period, StatusFits, Absent, Open
<1> QED
  BY <1>2, <1>3

\* What a refresh leaves of a period.
Aged(p, q) ==
    /\ q.paid = p.paid
    /\ p.status # "absent" => q.amount = p.amount /\ q.status # "absent"
    /\ p.status \in Closed \cup {"pending_amount_definition"} => q = p
    /\ q.status \in Closed => q = p

LEMMA SyncedSound ==
    ASSUME NEW o \in Obligations, NEW now \in Int, NEW day \in Int, day <= now,
           NEW ob, RowSound(o, ob, now), ob.status # "none"
    PROVE  LET oc == Synced(o, ob, day) IN
           /\ RowSound(o, oc, now) /\ oc.status = ob.status
           /\ \A n \in Numbers : Aged(ob.periods[n], oc.periods[n])
<1> DEFINE oc == Synced(o, ob, day)
           Fresh(n) == LET p == ob.periods[n] IN
            CASE p.status = "absent" /\ n \in Wanted(o, day) -> NewPeriod(o, ob.base, n, day)
              [] IsLate(o, p, n, day) -> [p EXCEPT !.status = "overdue"]
              [] OTHER -> p
<1>1. /\ ob \in Row /\ ob.base \in Nat \ {0}
      /\ \A n \in Numbers : PeriodSound(o, n, ob.periods[n], now)
  BY DEF RowSound, Row
<1>2. ASSUME NEW n \in Numbers
      PROVE  /\ PeriodSound(o, n, Fresh(n), now) /\ Aged(ob.periods[n], Fresh(n))
             /\ Fresh(n).status # "absent" <=> (ob.periods[n].status # "absent" \/ n \in Wanted(o, day))
  <2> DEFINE p == ob.periods[n]
  <2>1. PeriodSound(o, n, p, now) /\ DueOf(o, n) \in Nat
    BY <1>1, TermsOf
  <2>2. CASE p.status = "absent" /\ n \in Wanted(o, day)
    <3>1. Fresh(n) = NewPeriod(o, ob.base, n, day)
      BY <2>2 DEF IsLate
    <3> HIDE DEF Fresh
    <3>2. PeriodSound(o, n, Fresh(n), now) /\ Fresh(n).status \in Open /\ Fresh(n).paid = 0
      BY <1>1, <3>1, NewPeriodSound
    <3> QED
      BY <2>1, <2>2, <3>2 DEF Aged, PeriodSound, Absent, Open, Closed
  <2>3. CASE ~(p.status = "absent" /\ n \in Wanted(o, day)) /\ IsLate(o, p, n, day)
    <3>1. Fresh(n) = [p EXCEPT !.status = "overdue"]
      BY <2>3
    <3> HIDE DEF Fresh
    <3>2. p.status \in {"pending_payment", "partially_paid"} /\ DueOf(o, n) < day
      BY <2>3 DEF IsLate
    <3>3. PeriodSound(o, n, Fresh(n), now)
      BY <2>1, <3>1, <3>2 DEF PeriodSound, Period, StatusFits, Open
    <3> QED
      BY <2>1, <3>1, <3>2, <3>3 DEF PeriodSound, Period, Aged, Closed
  <2>4. CASE ~(p.status = "absent" /\ n \in Wanted(o, day)) /\ ~IsLate(o, p, n, day)
    <3>1. Fresh(n) = p
      BY <2>4
    <3> HIDE DEF Fresh
    <3> QED
      BY <2>1, <2>4, <3>1 DEF Aged
  <2> QED
    BY <2>2, <2>3, <2>4
<1>3. oc = [ob EXCEPT !.periods = [n \in Numbers |-> Fresh(n)]]
  BY DEF Synced
<1> HIDE DEF Fresh
<1>4. /\ oc.status = ob.status /\ oc.base = ob.base
      /\ \A n \in Numbers : oc.periods[n] = Fresh(n)
  BY <1>1, <1>3 DEF Row
<1>5. oc \in Row
  BY <1>1, <1>2, <1>3 DEF Row, PeriodSound
<1> HIDE DEF oc
<1>6. Existing(oc) = Existing(ob) \cup Wanted(o, day)
  BY <1>2, <1>4 DEF Existing, Wanted
<1>7. Bounded(o, Existing(oc))
  BY <1>6, BoundedGrows DEF RowSound, Existing
<1>8. oc.status # "none" /\ Existing(oc) # {}
  BY <1>4, <1>6 DEF RowSound
<1>9. RowSound(o, oc, now)
  BY <1>1, <1>2, <1>4, <1>5, <1>7, <1>8 DEF RowSound
<1> QED
  BY <1>2, <1>4, <1>9 DEF oc

\* The end of the life cycle.
LEMMA EvaluatedSound ==
    ASSUME NEW o \in Obligations, NEW now \in Int, NEW ob, RowSound(o, ob, now)
    PROVE  LET oc == Evaluated(o, ob) IN
           /\ RowSound(o, oc, now) /\ oc.periods = ob.periods
           /\ ob.status = "active" \/ LifeSound(o, ob) => LifeSound(o, oc)
           /\ oc.status = ob.status \/ (ob.status = "active" /\ oc.status = "completed")
<1> DEFINE oc == Evaluated(o, ob)
<1>1. CASE ob.status = "active" /\ Settled(o, ob)
  <2>1. oc = [ob EXCEPT !.status = "completed"]
    BY <1>1 DEF Evaluated
  <2> HIDE DEF oc
  <2>2. /\ oc \in Row /\ oc.periods = ob.periods /\ oc.status = "completed"
        /\ oc.base = ob.base /\ ob.status # "none"
    BY <1>1, <2>1 DEF RowSound, Row
  <2>3. Existing(oc) = Existing(ob) /\ Settled(o, oc)
    BY <1>1, <2>2, SettledSame
  <2> QED
    BY <1>1, <2>2, <2>3 DEF RowSound, LifeSound, oc
<1>2. CASE ~(ob.status = "active" /\ Settled(o, ob))
  <2>1. oc = ob
    BY <1>2 DEF Evaluated
  <2> QED
    BY <1>2, <2>1 DEF LifeSound
<1> QED
  BY <1>1, <1>2

\* Bringing periods up to date settles nothing: what it adds or ages is open.
LEMMA SyncedUnsettled ==
    ASSUME NEW o \in Obligations, NEW now \in Int, NEW day \in Int, day <= now,
           NEW ob, RowSound(o, ob, now), ob.status # "none", ~Settled(o, ob)
    PROVE  ~Settled(o, Synced(o, ob, day))
<1> DEFINE oc == Synced(o, ob, day)
<1>1. /\ RowSound(o, oc, now)
      /\ \A n \in Numbers : Aged(ob.periods[n], oc.periods[n])
  BY SyncedSound
<1> HIDE DEF oc
<1>2. Existing(ob) \subseteq Existing(oc)
  BY <1>1 DEF Existing, Aged
<1>3. ASSUME NEW n \in Existing(oc), oc.periods[n].status \in Closed
      PROVE  n \in Existing(ob) /\ ob.periods[n].status \in Closed
  BY <1>1, <1>3 DEF Existing, Aged
<1>4. ASSUME AllClosed(oc, Existing(oc))
      PROVE  Existing(oc) = Existing(ob) /\ AllClosed(ob, Existing(ob))
  BY <1>2, <1>3, <1>4 DEF AllClosed
<1>5. Settled(o, oc) => Settled(o, ob)
  <2> SUFFICES ASSUME Settled(o, oc) PROVE Settled(o, ob)
    OBVIOUS
  <2>1. CASE Terms[o].ends = "once"
    <3>1. AllClosed(oc, Existing(oc)) /\ Existing(oc) # {}
      BY <2>1 DEF Settled
    <3> QED
      BY <1>4, <2>1, <3>1 DEF Settled
  <2>2. CASE Terms[o].ends = "count"
    <3>1. 1 .. Terms[o].last \subseteq Existing(oc) /\ AllClosed(oc, 1 .. Terms[o].last)
      BY <2>2 DEF Settled
    <3>2. 1 .. Terms[o].last \subseteq Existing(ob) /\ AllClosed(ob, 1 .. Terms[o].last)
      BY <1>3, <3>1 DEF AllClosed
    <3>3. 1 \in 1 .. Terms[o].last
      BY <2>2, TermsAssumption DEF Term
    <3> QED
      BY <2>2, <3>2, <3>3 DEF Settled
  <2>3. CASE Terms[o].ends = "date"
    <3> DEFINE newest == CHOOSE n \in Existing(oc) : \A m \in Existing(oc) : m <= n
    <3>1. /\ AllClosed(oc, Existing(oc)) /\ Existing(oc) # {}
          /\ StartOf(o, newest + 1) > Terms[o].last
      BY <2>3 DEF Settled
    <3>2. Existing(oc) = Existing(ob) /\ AllClosed(ob, Existing(ob))
      BY <1>4, <3>1
    <3> QED
      BY <2>3, <3>1, <3>2 DEF Settled
  <2>4. CASE Terms[o].ends \notin {"once", "count", "date"}
    BY <2>4 DEF Settled
  <2> QED
    BY <2>1, <2>2, <2>3, <2>4
<1> QED
  BY <1>5 DEF oc

LEMMA RefreshedSound ==
    ASSUME NEW o \in Obligations, NEW now \in Int, NEW day \in Int, day <= now,
           NEW ob, RowSound(o, ob, now), ob.status = "active" \/ LifeSound(o, ob)
    PROVE  LET oc == Refreshed(o, ob, day) IN
           /\ RowSound(o, oc, now) /\ LifeSound(o, oc)
           /\ \A n \in Numbers : Aged(ob.periods[n], oc.periods[n])
           /\ oc.status = ob.status \/ (ob.status = "active" /\ oc.status = "completed")
<1> DEFINE oc == Refreshed(o, ob, day)
           os == Synced(o, ob, day)
<1>1. CASE ob.status = "active"
  <2>1. RowSound(o, os, now) /\ os.status = "active"
        /\ \A n \in Numbers : Aged(ob.periods[n], os.periods[n])
    BY <1>1, SyncedSound
  <2>2. oc = Evaluated(o, os)
    BY <1>1 DEF Refreshed
  <2> HIDE DEF os
  <2> QED
    BY <1>1, <2>1, <2>2, EvaluatedSound
<1>2. CASE ob.status # "active"
  <2>1. oc = ob
    BY <1>2 DEF Refreshed
  <2>2. \A n \in Numbers : ob.periods[n] \in Period
    BY DEF RowSound, PeriodSound
  <2> QED
    BY <1>2, <2>1, <2>2 DEF Aged
<1> QED
  BY <1>1, <1>2

-----------------------------------------------------------------------------
(* Edits and payments of one row *)

\* What no operation does to a period, whatever it does.
History(o, p, q) ==
    /\ p.status \in Closed => q.status \in Closed /\ q.amount = p.amount /\ q.paid = p.paid
    /\ p.status = "paid" => q.status = "paid"
    /\ p.paid > 0 /\ q.amount # p.amount =>
         Terms[o].amounts = "variable" /\ q.amount >= p.paid

Lasting(ob, oc) == ob.status \in {"completed", "cancelled"} => oc.status = ob.status

LEMMA RowSoundPeriod ==
    ASSUME NEW o, NEW ob, NEW now, RowSound(o, ob, now), NEW n \in Numbers
    PROVE  /\ ob.periods[n] \in Period
           /\ ob.periods[n].paid \in Nat /\ ob.periods[n].amount \in Nat
           /\ ob.periods[n].status = "absent" => ob.periods[n].paid = 0
  BY DEF RowSound, PeriodSound, Period, Absent

\* A refresh after a step keeps the history of the step.
LEMMA AgedHistory ==
    ASSUME NEW o, NEW p, NEW q, NEW r, Aged(q, r), History(o, p, q),
           q.status = "absent" => p.paid = 0
    PROVE  History(o, p, r)
  BY DEF Aged, History, Closed

LEMMA AgedIsHistory ==
    ASSUME NEW o, NEW p, NEW q, Aged(p, q), p.status = "absent" => p.paid = 0, p.paid \in Nat
    PROVE  History(o, p, q)
  BY DEF Aged, History, Closed

LEMMA OnePeriod ==
    ASSUME NEW o \in Obligations, NEW now \in Int, NEW ob, RowSound(o, ob, now),
           NEW n \in Existing(ob), NEW q, PeriodSound(o, n, q, now), q.status # "absent"
    PROVE  LET oc == [ob EXCEPT !.periods[n] = q] IN
           /\ RowSound(o, oc, now) /\ oc.status = ob.status
           /\ oc.periods[n] = q
           /\ \A m \in Numbers \ {n} : oc.periods[m] = ob.periods[m]
<1> DEFINE oc == [ob EXCEPT !.periods[n] = q]
<1>1. ob \in Row /\ n \in Numbers /\ q \in Period
  BY DEF RowSound, Existing, PeriodSound
<1>2. /\ oc \in Row /\ oc.status = ob.status /\ oc.base = ob.base /\ oc.periods[n] = q
      /\ \A m \in Numbers \ {n} : oc.periods[m] = ob.periods[m]
  BY <1>1 DEF Row
<1> HIDE DEF oc
<1>3. Existing(oc) = Existing(ob)
  BY <1>1, <1>2 DEF Existing
<1>4. \A m \in Numbers : PeriodSound(o, m, oc.periods[m], now)
  BY <1>2 DEF RowSound
<1>5. RowSound(o, oc, now)
  BY <1>2, <1>3, <1>4 DEF RowSound
<1> QED
  BY <1>2, <1>5 DEF oc

\* A period gets another status.
LEMMA WithSound ==
    ASSUME NEW o \in Obligations, NEW now \in Int, NEW ob, RowSound(o, ob, now),
           NEW n \in Numbers, NEW status \in Closed,
           LET p == ob.periods[n] IN
           /\ p.status # "absent" /\ p.status # "paid" /\ status # "paid"
           /\ status = "cancelled" => p.paid = 0
    PROVE  LET oc == With(ob, n, status) IN
           /\ RowSound(o, oc, now) /\ oc.status = ob.status
           /\ \A m \in Numbers : /\ oc.periods[m].paid = ob.periods[m].paid
                                 /\ History(o, ob.periods[m], oc.periods[m])
<1> DEFINE p == ob.periods[n]
           q == [p EXCEPT !.status = status]
           oc == With(ob, n, status)
<1>1. ob \in Row /\ PeriodSound(o, n, p, now) /\ n \in Existing(ob)
  BY DEF RowSound, Existing
<1>2. /\ q.status = status /\ q.paid = p.paid /\ q.amount = p.amount
      /\ p \in Period /\ q \in Period
  BY <1>1 DEF PeriodSound, Period, Closed
<1>3. p.paid <= p.amount
  <2>1. p.paid \in Nat /\ p.amount \in Nat
    BY <1>2 DEF Period
  <2>2. StatusFits(p)
    BY <1>1 DEF PeriodSound
  <2>3. p.status = "pending_amount_definition" => p.paid = 0
    BY <2>2 DEF StatusFits, Absent
  <2> QED
    BY <2>1, <2>2, <2>3 DEF StatusFits
<1>4. PeriodSound(o, n, q, now) /\ q.status # "absent"
  BY <1>2, <1>3 DEF PeriodSound, StatusFits, Closed
<1>5. oc = [ob EXCEPT !.periods[n] = q]
  BY DEF With
<1> HIDE DEF q
<1>6. /\ RowSound(o, oc, now) /\ oc.status = ob.status /\ oc.periods[n] = q
      /\ \A m \in Numbers \ {n} : oc.periods[m] = ob.periods[m]
  BY <1>1, <1>4, <1>5, OnePeriod
<1> HIDE DEF oc
<1>7. \A m \in Numbers : /\ oc.periods[m].paid = ob.periods[m].paid
                         /\ History(o, ob.periods[m], oc.periods[m])
  BY <1>2, <1>6 DEF History
<1> QED
  BY <1>6, <1>7 DEF oc

LEMMA RebasedSound ==
    ASSUME NEW o \in Obligations, NEW now \in Int, NEW ob, RowSound(o, ob, now),
           LifeSound(o, ob), NEW amount \in Nat \ {0}, ob.status # "none"
    PROVE  LET oc == Rebased(o, ob, amount, now) IN
           /\ RowSound(o, oc, now) /\ LifeSound(o, oc) /\ oc.status = ob.status
           /\ \A m \in Numbers : /\ oc.periods[m].paid = ob.periods[m].paid
                                 /\ History(o, ob.periods[m], oc.periods[m])
<1> DEFINE oc == Rebased(o, ob, amount, now)
           Price(n) == LET p == ob.periods[n] IN
                  IF /\ StartOf(o, n) > now
                     /\ p.status \in {"pending_payment", "overdue"}
                     /\ p.paid = 0
                  THEN [p EXCEPT !.amount = amount] ELSE p
<1>1. ob \in Row /\ \A n \in Numbers : PeriodSound(o, n, ob.periods[n], now)
  BY DEF RowSound
<1>2. ASSUME NEW n \in Numbers
      PROVE  /\ PeriodSound(o, n, Price(n), now) /\ Price(n).status = ob.periods[n].status
             /\ Price(n).paid = ob.periods[n].paid /\ History(o, ob.periods[n], Price(n))
  <2> DEFINE p == ob.periods[n]
  <2>1. PeriodSound(o, n, p, now) /\ p \in Period
    BY <1>1 DEF PeriodSound
  <2>2. CASE p.status \in {"pending_payment", "overdue"} /\ p.paid = 0
             /\ Price(n) = [p EXCEPT !.amount = amount]
    <3> DEFINE q == Price(n)
    <3>1. q \in Period /\ q.status = p.status /\ q.amount = amount /\ q.paid = 0
      BY <2>1, <2>2 DEF Period
    <3> HIDE DEF Price
    <3>2. StatusFits(q)
      BY <2>2, <3>1 DEF StatusFits
    <3> QED
      BY <2>1, <2>2, <3>1, <3>2 DEF PeriodSound, History, Closed
  <2>3. CASE Price(n) = p
    <3> HIDE DEF Price
    <3> QED
      BY <2>1, <2>3 DEF History
  <2> QED
    BY <2>2, <2>3
<1>3. oc = [ob EXCEPT !.base = amount, !.periods = [n \in Numbers |-> Price(n)]]
  BY DEF Rebased
<1> HIDE DEF Price
<1>4. /\ oc \in Row /\ oc.status = ob.status /\ oc.base = amount
      /\ \A n \in Numbers : oc.periods[n] = Price(n)
  <2> DEFINE priced == [n \in Numbers |-> Price(n)]
  <2>1. priced \in [Numbers -> Period] /\ \A n \in Numbers : priced[n] = Price(n)
    BY <1>2 DEF PeriodSound
  <2>2. oc = [ob EXCEPT !.base = amount, !.periods = priced]
    BY <1>3
  <2> HIDE DEF priced, oc
  <2> QED
    BY <1>1, <2>1, <2>2 DEF Row
<1> HIDE DEF oc
<1>5. /\ Existing(oc) = Existing(ob) /\ (Settled(o, oc) <=> Settled(o, ob))
  BY <1>2, <1>4, SettledSame
<1>6. RowSound(o, oc, now) /\ LifeSound(o, oc)
  BY <1>2, <1>4, <1>5 DEF RowSound, LifeSound
<1> QED
  BY <1>2, <1>4, <1>6 DEF oc
LEMMA DefinedSound ==
    ASSUME NEW o \in Obligations, NEW now \in Int, NEW ob, RowSound(o, ob, now),
           NEW n \in Numbers, NEW amount \in Nat \ {0}, MayDefine(o, ob, n)
    PROVE  LET oc == Defined(o, ob, n, amount, now) IN
           /\ RowSound(o, oc, now) /\ LifeSound(o, oc)
           /\ \A m \in Numbers : /\ oc.periods[m].paid = ob.periods[m].paid
                                 /\ History(o, ob.periods[m], oc.periods[m])
<1> DEFINE p == ob.periods[n]
           q == [status |-> "pending_payment", amount |-> amount, paid |-> 0]
           od == [ob EXCEPT !.periods[n] = q]
           oc == Defined(o, ob, n, amount, now)
<1>1. ob \in Row /\ PeriodSound(o, n, p, now) /\ ob.status = "active"
      /\ p.status = "pending_amount_definition"
  BY DEF RowSound, MayDefine, IsActive
<1>2. n \in Existing(ob) /\ p = [Absent EXCEPT !.status = "pending_amount_definition"]
  BY <1>1 DEF Existing, PeriodSound, StatusFits
<1>3. PeriodSound(o, n, q, now) /\ q.status # "absent"
  BY DEF PeriodSound, StatusFits, Period, Open
<1>4. With([ob EXCEPT !.periods[n].amount = amount], n, "pending_payment") = od
  <2>1. p = [status |-> "pending_amount_definition", amount |-> 0, paid |-> 0]
    BY <1>2 DEF Absent
  <2> DEFINE p1 == [p EXCEPT !.amount = amount]
             P1 == [ob.periods EXCEPT ![n] = p1]
             a == [ob EXCEPT !.periods = P1]
             P2 == [ob.periods EXCEPT ![n] = q]
  <2>2. p1 = [status |-> "pending_amount_definition", amount |-> amount, paid |-> 0]
    BY <2>1
  <2> HIDE DEF p1
  <2>3. [p1 EXCEPT !.status = "pending_payment"] = q
    BY <2>2
  <2>4. [ob EXCEPT !.periods[n].amount = amount] = a
    BY DEF p1
  <2> HIDE DEF p, q
  <2>5. P1[n] = p1 /\ [P1 EXCEPT ![n] = q] = P2
    BY <1>1 DEF Row
  <2> HIDE DEF P1, P2
  <2>6. a.periods = P1 /\ [a EXCEPT !.periods = P2] = [ob EXCEPT !.periods = P2]
    BY <1>1 DEF Row
  <2> HIDE DEF a
  <2>7. With(a, n, "pending_payment") = [a EXCEPT !.periods = P2]
    BY <2>3, <2>5, <2>6 DEF With
  <2>8. od = [ob EXCEPT !.periods = P2]
    BY DEF P2
  <2> QED
    BY <2>4, <2>6, <2>7, <2>8
<1> HIDE DEF q
<1>5. /\ RowSound(o, od, now) /\ od.status = "active" /\ od.periods[n] = q
      /\ \A m \in Numbers \ {n} : od.periods[m] = ob.periods[m]
  BY <1>1, <1>2, <1>3, OnePeriod
<1>6. oc = Refreshed(o, od, now)
  BY <1>4 DEF Defined
<1> HIDE DEF od
<1>7. /\ RowSound(o, oc, now) /\ LifeSound(o, oc)
      /\ \A m \in Numbers : Aged(od.periods[m], oc.periods[m])
  BY <1>5, <1>6, RefreshedSound
<1> HIDE DEF oc
<1>8. ASSUME NEW m \in Numbers
      PROVE oc.periods[m].paid = ob.periods[m].paid
            /\ History(o, ob.periods[m], oc.periods[m])
  <2>1. Aged(od.periods[m], oc.periods[m])
    BY <1>7
  <2>2. CASE m = n
    <3>1. ob.periods[n].paid = 0 /\ ob.periods[n].status \notin Closed /\ od.periods[n].paid = 0
      BY <1>2, <1>5 DEF Absent, Closed, q
    <3> QED
      BY <2>1, <2>2, <3>1 DEF Aged, History, Closed
  <2>3. CASE m # n
    <3>1. od.periods[m] = ob.periods[m]
      BY <1>5, <2>3
    <3> QED
      BY <2>1, <3>1, AgedIsHistory, RowSoundPeriod DEF Aged
  <2> QED
    BY <2>2, <2>3
<1> QED
  BY <1>7, <1>8 DEF oc

\* Skips and cancellations: the life cycle is evaluated, and then refreshed.
LEMMA DroppedSound ==
    ASSUME NEW o \in Obligations, NEW now \in Int, NEW ob, RowSound(o, ob, now),
           ob.status = "active", NEW n \in Numbers, NEW status \in {"skipped", "cancelled"},
           LET p == ob.periods[n] IN
           /\ p.status # "absent" /\ p.status # "paid"
           /\ status = "cancelled" => p.paid = 0
    PROVE  /\ LET oc == Dropped(o, ob, n, status, now) IN
              /\ RowSound(o, oc, now) /\ LifeSound(o, oc)
              /\ \A m \in Numbers : /\ oc.periods[m].paid = ob.periods[m].paid
                                    /\ History(o, ob.periods[m], oc.periods[m])
           /\ LET oc == Evaluated(o, With(ob, n, status)) IN
              /\ RowSound(o, oc, now) /\ LifeSound(o, oc)
              /\ \A m \in Numbers : /\ oc.periods[m].paid = ob.periods[m].paid
                                    /\ History(o, ob.periods[m], oc.periods[m])
<1> DEFINE ow == With(ob, n, status)
           oe == Evaluated(o, ow)
           oc == Refreshed(o, oe, now)
<1>1. /\ RowSound(o, ow, now) /\ ow.status = "active"
      /\ \A m \in Numbers : /\ ow.periods[m].paid = ob.periods[m].paid
                            /\ History(o, ob.periods[m], ow.periods[m])
  BY WithSound DEF Closed
<1> HIDE DEF ow
<1>2. /\ RowSound(o, oe, now) /\ oe.periods = ow.periods /\ LifeSound(o, oe)
  BY <1>1, EvaluatedSound
<1> HIDE DEF oe
<1>3. /\ RowSound(o, oc, now) /\ LifeSound(o, oc)
      /\ \A m \in Numbers : Aged(oe.periods[m], oc.periods[m])
  BY <1>2, RefreshedSound
<1> HIDE DEF oc
<1>4. ASSUME NEW m \in Numbers
      PROVE  /\ oc.periods[m].paid = ob.periods[m].paid
             /\ History(o, ob.periods[m], oc.periods[m])
  <2>1. /\ oe.periods[m].paid = ob.periods[m].paid
        /\ History(o, ob.periods[m], oe.periods[m])
        /\ Aged(oe.periods[m], oc.periods[m])
    BY <1>1, <1>2, <1>3
  <2>2. oe.periods[m].status = "absent" => oe.periods[m].paid = 0
    BY <1>2, RowSoundPeriod
  <2>3. oc.periods[m].paid = oe.periods[m].paid
    BY <2>1 DEF Aged
  <2> QED
    BY <2>1, <2>2, <2>3, AgedHistory
<1>5. Dropped(o, ob, n, status, now) = oc
  BY DEF Dropped, oc, oe, ow
<1> QED
  BY <1>1, <1>2, <1>3, <1>4, <1>5 DEF oe, ow
LEMMA RedefinedSound ==
    ASSUME NEW o \in Obligations, NEW now \in Int, NEW ob, RowSound(o, ob, now),
           NEW n \in Numbers, NEW amount \in Nat \ {0}, MayRedefine(o, ob, n, amount)
    PROVE  LET oc == Evaluated(o, Redefined(o, ob, n, amount, now)) IN
           /\ RowSound(o, oc, now) /\ LifeSound(o, oc)
           /\ \A m \in Numbers : /\ oc.periods[m].paid = ob.periods[m].paid
                                 /\ History(o, ob.periods[m], oc.periods[m])
<1> DEFINE p == ob.periods[n]
           status == IF p.paid >= amount THEN "paid"
                     ELSE IF p.status # "pending_amount_definition" THEN p.status
                     ELSE IF DueOf(o, n) < now THEN "overdue" ELSE "pending_payment"
           q == [p EXCEPT !.amount = amount, !.status = status]
           od == Redefined(o, ob, n, amount, now)
           oc == Evaluated(o, od)
<1>1. /\ ob.status = "active" /\ Terms[o].amounts = "variable" /\ p.status \in Open
      /\ PeriodSound(o, n, p, now) /\ p \in Period /\ n \in Existing(ob)
      /\ p.paid \in Nat /\ p.amount \in Nat /\ p.paid <= amount
  BY DEF RowSound, PeriodSound, Period, MayRedefine, IsActive, Existing, Open
<1>2. DueOf(o, n) \in Nat
  BY TermsOf
<1> HIDE DEF p
<1>3. \/ p.paid = amount /\ status = "paid"
      \/ /\ p.paid < amount
         /\ p.status # "pending_amount_definition" /\ status = p.status
      \/ /\ p.paid < amount /\ p.status = "pending_amount_definition"
         /\ \/ status = "overdue" /\ DueOf(o, n) < now
            \/ status = "pending_payment"
  BY <1>1
<1> HIDE DEF status
<1>4. q \in Period /\ q.amount = amount /\ q.status = status /\ q.paid = p.paid
  BY <1>1, <1>3 DEF Period, Open, Closed
<1>5. PeriodSound(o, n, q, now) /\ q.status # "absent"
  <2> HIDE DEF q
  <2>1. p.status = "pending_amount_definition" => p.paid = 0
    BY <1>1 DEF PeriodSound, StatusFits, Absent
  <2>2. p.status = "partially_paid" => p.paid > 0
    BY <1>1 DEF PeriodSound, StatusFits
  <2>3. StatusFits(q) /\ (q.status = "overdue" => DueOf(o, n) < now)
    BY <1>1, <1>3, <1>4, <2>1, <2>2 DEF StatusFits, Open, PeriodSound
  <2> QED
    BY <1>1, <1>3, <1>4, <2>3 DEF PeriodSound, Open
<1>6. od = [ob EXCEPT !.periods[n] = q]
  BY DEF Redefined, p, status
<1> HIDE DEF q, od
<1>7. /\ RowSound(o, od, now) /\ od.status = "active" /\ od.periods[n] = q
      /\ \A m \in Numbers \ {n} : od.periods[m] = ob.periods[m]
  BY <1>1, <1>5, <1>6, OnePeriod
<1>8. RowSound(o, oc, now) /\ LifeSound(o, oc) /\ oc.periods = od.periods
  BY <1>7, EvaluatedSound
<1>9. \A m \in Numbers : /\ oc.periods[m].paid = ob.periods[m].paid
                         /\ History(o, ob.periods[m], oc.periods[m])
  <2>1. q.paid = ob.periods[n].paid /\ History(o, ob.periods[n], q)
    BY <1>1, <1>4 DEF History, Open, Closed, p
  <2>2. \A m \in Numbers \ {n} : History(o, ob.periods[m], ob.periods[m])
    BY DEF History
  <2> HIDE DEF oc
  <2> QED
    BY <1>7, <1>8, <2>1, <2>2
<1> QED
  BY <1>8, <1>9 DEF od

\* What an operation may make of a row.
Follows(o, ob, oc, now) ==
    /\ RowSound(o, oc, now) /\ LifeSound(o, oc) /\ Lasting(ob, oc)
    /\ \A n \in Numbers : History(o, ob.periods[n], oc.periods[n])

LEMMA EditedSound ==
    ASSUME NEW now \in Nat, NEW r \in Requests, r.op \in EditOps, NEW ob,
           RowSound(r.obl, ob, now), LifeSound(r.obl, ob), EditAllowed(r.obl, ob, r)
    PROVE  LET oc == Edited(r.obl, ob, r, now) IN
           /\ Follows(r.obl, ob, oc, now)
           /\ \A n \in Numbers : oc.periods[n].paid = ob.periods[n].paid
<1> DEFINE o == r.obl
           oc == Edited(o, ob, r, now)
           Good(od) == /\ Follows(o, ob, od, now)
                       /\ \A n \in Numbers : od.periods[n].paid = ob.periods[n].paid
<1>1. o \in Obligations /\ ob \in Row
      /\ (r.op \in {"define", "skip", "cancel", "old_define", "old_skip"} => r.n \in Numbers)
      /\ (r.op \in {"rebase", "define", "old_define"} => r.amount \in Nat \ {0})
  BY ObligationsAssumption DEF EditOps, RowSound
<1> HIDE DEF o
<1>2. CASE r.op = "create"
  <2>1. ob.status = "none" /\ oc = Created(o)
    BY <1>2 DEF EditAllowed, Edited, o
  <2> DEFINE od == Created(o)
  <2>2. RowSound(o, od, now) /\ LifeSound(o, od)
    BY <1>1, CreatedSound
  <2>3. \A n \in Numbers : ob.periods[n] = Absent
    BY <2>1 DEF RowSound, PeriodSound, Existing, o
  <2>4. \A n \in Numbers : od.periods[n].paid = 0
    BY DEF Created, FirstPeriod, NewPeriod, Absent
  <2> HIDE DEF od
  <2>5. Good(od)
    BY <2>1, <2>2, <2>3, <2>4 DEF Follows, Lasting, History, Absent, Closed
  <2> QED
    BY <2>1, <2>5 DEF od, o
<1>3. CASE r.op \in {"archive", "resume", "stop"}
  <2> DEFINE to == CASE r.op = "archive" -> "archived" [] r.op = "resume" -> "active"
                     [] OTHER -> "cancelled"
             od == [ob EXCEPT !.status = to]
  <2>1. /\ to \in {"archived", "active", "cancelled"} /\ oc = od
        /\ ob.status \in {"active", "archived", to}
        /\ to \in {"archived", "active"} => ob.status \in {"active", "archived"}
    <3>1. CASE r.op = "archive"
      BY <3>1 DEF EditAllowed, Edited, MayBecome, o
    <3>2. CASE r.op = "resume"
      BY <3>2 DEF EditAllowed, Edited, MayBecome, o
    <3>3. CASE r.op = "stop"
      BY <3>3 DEF EditAllowed, Edited, MayBecome, o
    <3> QED
      BY <1>3, <3>1, <3>2, <3>3
  <2> HIDE DEF to
  <2>2. od \in Row /\ od.status = to /\ od.base = ob.base /\ od.periods = ob.periods
    BY <1>1, <2>1 DEF Row
  <2> HIDE DEF od
  <2>3. Existing(od) = Existing(ob) /\ (Settled(o, od) <=> Settled(o, ob))
    BY <2>2, SettledSame
  <2>4. RowSound(o, od, now)
    BY <2>1, <2>2, <2>3 DEF RowSound, o
  <2>5. LifeSound(o, od) /\ Lasting(ob, od)
    BY <2>1, <2>2, <2>3 DEF LifeSound, Lasting, o
  <2>6. Good(od)
    BY <2>2, <2>4, <2>5 DEF Follows, History
  <2> QED
    BY <2>1, <2>6 DEF od, o
<1>4. CASE r.op = "rebase"
  <2>1. oc = Rebased(o, ob, r.amount, now) /\ ob.status # "none"
    BY <1>4 DEF EditAllowed, Edited, o
  <2>2. Good(Rebased(o, ob, r.amount, now))
    BY <1>1, <1>4, <2>1, RebasedSound DEF Follows, Lasting, o
  <2> QED
    BY <2>1, <2>2 DEF o
<1>5. CASE r.op = "refresh"
  <2> DEFINE od == Refreshed(o, ob, now)
  <2>1. oc = od
    BY <1>5 DEF Edited, o
  <2>2. /\ RowSound(o, od, now) /\ LifeSound(o, od) /\ Lasting(ob, od)
        /\ \A n \in Numbers : Aged(ob.periods[n], od.periods[n])
    BY <1>1, RefreshedSound DEF Lasting, o
  <2> HIDE DEF od
  <2>3. \A n \in Numbers : od.periods[n].paid = ob.periods[n].paid
                           /\ History(o, ob.periods[n], od.periods[n])
    BY <2>2, AgedIsHistory, RowSoundPeriod DEF Aged, o
  <2> QED
    BY <2>1, <2>2, <2>3 DEF od, o, Follows
<1>6. CASE r.op = "define"
  <2>1. oc = Defined(o, ob, r.n, r.amount, now) /\ MayDefine(o, ob, r.n)
    BY <1>6 DEF EditAllowed, Edited, o
  <2>2. Good(Defined(o, ob, r.n, r.amount, now))
    BY <1>1, <1>6, <2>1, DefinedSound DEF Follows, Lasting, MayDefine, IsActive, o
  <2> QED
    BY <2>1, <2>2 DEF o
<1>7. CASE r.op = "skip"
  <2>1. oc = Dropped(o, ob, r.n, "skipped", now) /\ MaySkip(ob, r.n)
    BY <1>7 DEF EditAllowed, Edited, o
  <2>2. Good(Dropped(o, ob, r.n, "skipped", now))
    BY <1>1, <1>7, <2>1, DroppedSound DEF Follows, Lasting, MaySkip, IsActive, Untouched, Open, o
  <2> QED
    BY <2>1, <2>2 DEF o
<1>8. CASE r.op = "cancel"
  <2>1. oc = Dropped(o, ob, r.n, "cancelled", now) /\ MayCancel(ob, r.n)
    BY <1>8 DEF EditAllowed, Edited, o
  <2>2. Good(Dropped(o, ob, r.n, "cancelled", now))
    BY <1>1, <1>8, <2>1, DroppedSound DEF Follows, Lasting, MayCancel, IsActive, Untouched, Open, o
  <2> QED
    BY <2>1, <2>2 DEF o
<1>9. CASE r.op = "old_define"
  <2> DEFINE od == Evaluated(o, Redefined(o, ob, r.n, r.amount, now))
  <2>1. oc = od /\ MayRedefine(o, ob, r.n, r.amount)
    BY <1>9 DEF EditAllowed, Edited, o
  <2>2. Good(od)
    BY <1>1, <1>9, <2>1, RedefinedSound DEF Follows, Lasting, MayRedefine, IsActive, o
  <2> HIDE DEF od
  <2> QED
    BY <2>1, <2>2 DEF o
<1>10. CASE r.op = "old_skip"
  <2> DEFINE od == Evaluated(o, With(ob, r.n, "skipped"))
  <2>1. oc = od /\ MaySkipOld(ob, r.n)
    BY <1>10 DEF EditAllowed, Edited, SkippedOld, o
  <2>2. Good(od)
    BY <1>1, <1>10, <2>1, DroppedSound DEF Follows, Lasting, MaySkipOld, IsActive, Open, o
  <2> HIDE DEF od
  <2> QED
    BY <2>1, <2>2 DEF o
<1> QED
  BY <1>2, <1>3, <1>4, <1>5, <1>6, <1>7, <1>8, <1>9, <1>10 DEF EditOps, o
-----------------------------------------------------------------------------
(* Payments of one row *)

\* What is overdue among what can be paid was due first.
LateFirst(ob) ==
    \A m, n \in PayableIn(ob) :
        m < n /\ ob.periods[n].status = "overdue" => ob.periods[m].status = "overdue"

LEMMA RemainingIs ==
    ASSUME NEW o, NEW ob, NEW now, RowSound(o, ob, now), NEW n \in Numbers
    PROVE  /\ Remaining(ob, n) \in Nat
           /\ n \in PayableIn(ob) => Remaining(ob, n) > 0
<1> DEFINE p == ob.periods[n]
<1>1. PeriodSound(o, n, p, now) /\ p.paid \in Nat /\ p.amount \in Nat
  BY RowSoundPeriod DEF RowSound
<1>2. p.status = "pending_amount_definition" \/ p.status = "absent" => p.paid = 0
  BY <1>1 DEF PeriodSound, StatusFits, Absent
<1>3. p.status \in Payable => p.paid < p.amount
  BY <1>1 DEF PeriodSound, StatusFits, Payable, Open
<1>4. p.paid <= p.amount
  BY <1>1, <1>2 DEF PeriodSound, StatusFits
<1> QED
  BY <1>1, <1>3, <1>4 DEF Remaining, PayableIn

\* A payment takes its periods in the order of their numbers.
LEMMA BeforeIsOlder ==
    ASSUME NEW o, NEW ob, NEW now, RowSound(o, ob, now), NEW r,
           r.op \in SingleOps => r.n \in Numbers,
           r.op = "old_fifo" => LateFirst(ob),
           NEW n \in Targets(ob, r)
    PROVE  Before(ob, r, n) \cap Targets(ob, r) = {m \in Targets(ob, r) : m < n}
<1>1. Targets(ob, r) \subseteq PayableIn(ob) /\ PayableIn(ob) \subseteq Numbers
      /\ (r.op \in SingleOps => Targets(ob, r) \subseteq {r.n})
  BY DEF Targets, PayableIn, Existing
<1>2. \A m \in Numbers : m \in Nat
  BY NumbersAre
<1>3. CASE r.op # "old_fifo"
  <2>1. Before(ob, r, n) = {m \in PayableIn(ob) : m < n}
    BY <1>3 DEF Before
  <2> QED
    BY <1>1, <2>1
<1>4. CASE r.op = "old_fifo"
  <2> DEFINE overdue(k) == ob.periods[k].status = "overdue"
  <2>1. \A k, m \in PayableIn(ob) : k < m /\ overdue(m) => overdue(k)
    BY <1>4 DEF LateFirst
  <2>2. Before(ob, r, n) = {m \in PayableIn(ob) : IF overdue(m) = overdue(n) THEN m < n ELSE overdue(m)}
    BY <1>4 DEF Before
  <2> HIDE DEF overdue
  <2>3. ASSUME NEW m \in PayableIn(ob)
        PROVE  (IF overdue(m) = overdue(n) THEN m < n ELSE overdue(m)) <=> m < n
    <3>1. n \in PayableIn(ob) /\ m \in Nat /\ n \in Nat
      BY <1>1, <1>2
    <3>2. overdue(m) \in BOOLEAN /\ overdue(n) \in BOOLEAN
      BY DEF overdue
    <3>3. m = n => overdue(m) = overdue(n)
      OBVIOUS
    <3>4. (m < n /\ overdue(n) => overdue(m)) /\ (n < m /\ overdue(m) => overdue(n))
      BY <2>1, <3>1
    <3>5. m < n \/ m = n \/ n < m
      BY <3>1
    <3>6. ~(m < n /\ n < m) /\ ~(n < n)
      BY <3>1
    <3> QED
      BY <3>2, <3>3, <3>4, <3>5, <3>6
  <2> QED
    BY <1>1, <2>2, <2>3
<1> QED
  BY <1>3, <1>4

\* A payment as it reaches the rows: within what is owed, the oldest first.
SlicesFit(ob, r) ==
    /\ \A n \in Numbers :
         /\ Slices(ob, r)[n] \in Nat /\ Slices(ob, r)[n] <= Remaining(ob, n)
         /\ Slices(ob, r)[n] > 0 => n \in PayableIn(ob)
    /\ SumFunction(Slices(ob, r)) = Applied(ob, r)
    /\ r.op \notin SingleOps =>
         \A m, n \in PayableIn(ob) :
            m < n /\ Slices(ob, r)[n] > 0 => Slices(ob, r)[m] = Remaining(ob, m)

LEMMA SlicesSound ==
    ASSUME NEW o, NEW ob, NEW now, RowSound(o, ob, now), NEW r, r.amount \in Nat,
           r.op \in SingleOps => r.n \in Numbers,
           r.op = "old_fifo" => LateFirst(ob),
           PaymentFits(ob, r)
    PROVE  SlicesFit(ob, r) /\ Applied(ob, r) \in Nat \ {0}
<1> DEFINE T == Targets(ob, r)
           slices == Slices(ob, r)
           room == [n \in Numbers |-> Remaining(ob, n)]
           rank == [n \in Numbers |-> n]
           amount == Applied(ob, r)
           Left(n) == LeftFor(n, T, rank, room, amount)
<1>1. /\ T \subseteq PayableIn(ob) /\ PayableIn(ob) \subseteq Numbers
      /\ IsFiniteSet(T) /\ IsFiniteSet(Numbers)
      /\ r.op \notin SingleOps => T = PayableIn(ob)
  <2>1. T \subseteq PayableIn(ob) /\ PayableIn(ob) \subseteq Numbers
        /\ (r.op \notin SingleOps => T = PayableIn(ob))
    BY DEF Targets, PayableIn, Existing
  <2>2. IsFiniteSet(Numbers)
    BY NumbersAre
  <2>3. T \subseteq Numbers
    BY <2>1
  <2> QED
    BY <2>1, <2>2, <2>3, FS_Subset
<1>2. \A n \in Numbers : rank[n] = n /\ room[n] = Remaining(ob, n)
                         /\ rank[n] \in Int /\ room[n] \in Nat
  BY RemainingIs, NumbersAre
<1>3. SumFunctionOnSet(room, T) \in Nat
  <2>1. \A n \in T : room[n] \in Nat
    BY <1>1, <1>2
  <2> HIDE DEF room, T
  <2> QED
    BY <1>1, <2>1, SumBounds
<1>4. amount \in Nat \ {0} /\ amount <= SumFunctionOnSet(room, T)
  BY <1>3 DEF PaymentFits, Applied, OwedNow
<1>5. \A n \in T : slices[n] = IF Left(n) <= 0 THEN 0 ELSE Least(Left(n), room[n])
  <2> SUFFICES ASSUME NEW n \in T
               PROVE  slices[n] = IF Left(n) <= 0 THEN 0 ELSE Least(Left(n), room[n])
    OBVIOUS
  <2>1. Before(ob, r, n) \cap T = {m \in T : rank[m] < rank[n]}
    BY <1>1, BeforeIsOlder
  <2> DEFINE left == amount - SumFunctionOnSet(room, Before(ob, r, n) \cap T)
  <2>2. left = Left(n)
    BY <2>1 DEF LeftFor
  <2>3. slices[n] = IF left <= 0 THEN 0 ELSE Smaller(left, Remaining(ob, n))
    BY <1>1 DEF Slices
  <2>4. Left(n) \in Int
    <3> DEFINE older == {m \in T : rank[m] < rank[n]}
    <3>1. IsFiniteSet(older) /\ \A m \in older : room[m] \in Nat
      BY <1>1, <1>2, FS_Subset
    <3> HIDE DEF room, older
    <3>2. SumFunctionOnSet(room, older) \in Nat
      BY <3>1, SumBounds
    <3> HIDE DEF amount
    <3> QED
      BY <1>4, <3>2 DEF LeftFor, older
  <2> HIDE DEF slices, left, Left
  <2> QED
    BY <1>1, <1>2, <2>2, <2>3, <2>4 DEF Smaller, Least
<1>6. \A n \in Numbers \ T : slices[n] = 0
  BY DEF Slices
<1>7. DOMAIN slices = Numbers
  BY DEF Slices
<1>8. \A n \in T : Left(n) \in Int
  <2> SUFFICES ASSUME NEW n \in T PROVE Left(n) \in Int
    OBVIOUS
  <2> DEFINE older == {m \in T : rank[m] < rank[n]}
  <2>1. IsFiniteSet(older) /\ \A m \in older : room[m] \in Nat
    BY <1>1, <1>2, FS_Subset
  <2> HIDE DEF room, older
  <2>2. SumFunctionOnSet(room, older) \in Nat
    BY <2>1, SumBounds
  <2> HIDE DEF amount
  <2> QED
    BY <1>4, <2>2 DEF LeftFor, older
<1> HIDE DEF slices, rank, room, amount, T
<1>9. ASSUME NEW n \in Numbers
      PROVE  /\ slices[n] \in Nat /\ slices[n] <= Remaining(ob, n)
             /\ slices[n] > 0 => n \in PayableIn(ob)
  <2>1. CASE n \in T
    BY <1>1, <1>2, <1>5, <1>8, <2>1 DEF Least
  <2>2. CASE n \notin T
    BY <1>2, <1>6, <2>2
  <2> QED
    BY <2>1, <2>2
<1>10. SumFunction(slices) = amount
  <2>1. SumFunctionOnSet(slices, T) = Least(amount, SumFunctionOnSet(room, T))
    <3>1. /\ \A x \in T : rank[x] \in Int /\ room[x] \in Nat
          /\ \A x, y \in T : rank[x] = rank[y] => x = y
      BY <1>1, <1>2
    <3> QED
      BY <1>1, <1>4, <1>5, <3>1, FillingAddsUp
  <2>2. SumFunctionOnSet(slices, Numbers) = SumFunctionOnSet(slices, T)
    <3>1. T \in SUBSET Numbers /\ \A n \in Numbers : slices[n] \in Int
      BY <1>1, <1>9
    <3> QED
      BY <1>1, <1>6, <3>1, SumRestrict
  <2> QED
    BY <1>3, <1>4, <1>7, <2>1, <2>2 DEF SumFunction, Least
<1>11. ASSUME r.op \notin SingleOps, NEW m \in PayableIn(ob), NEW n \in PayableIn(ob),
              m < n, slices[n] > 0
       PROVE  slices[m] = Remaining(ob, m)
  <2>1. m \in T /\ n \in T /\ rank[m] < rank[n]
    BY <1>1, <1>2, <1>11
  <2>2. Left(n) > 0
    BY <1>5, <1>8, <1>11, <2>1
  <2>3. \A x \in T : rank[x] \in Int /\ room[x] \in Nat
    BY <1>1, <1>2
  <2>4. room[m] < Left(m)
    BY <1>1, <1>4, <2>1, <2>2, <2>3, FillingInOrder
  <2> QED
    BY <1>1, <1>2, <1>5, <1>8, <2>1, <2>3, <2>4 DEF Least
<1> QED
  BY <1>4, <1>9, <1>10, <1>11 DEF SlicesFit, slices, amount
LEMMA SyncedLateFirst ==
    ASSUME NEW o \in Obligations, NEW now \in Int, NEW ob, RowSound(o, ob, now)
    PROVE  LateFirst(Synced(o, ob, now))
<1> DEFINE oc == Synced(o, ob, now)
           Fresh(n) == LET p == ob.periods[n] IN
            CASE p.status = "absent" /\ n \in Wanted(o, now) -> NewPeriod(o, ob.base, n, now)
              [] IsLate(o, p, n, now) -> [p EXCEPT !.status = "overdue"]
              [] OTHER -> p
<1>1. \A n \in Numbers : oc.periods[n] = Fresh(n)
  <2>1. oc = [ob EXCEPT !.periods = [n \in Numbers |-> Fresh(n)]] /\ ob \in Row
    BY DEF Synced, RowSound
  <2> HIDE DEF Fresh, oc
  <2> QED
    BY <2>1 DEF Row
<1>2. ASSUME NEW n \in Numbers, Fresh(n).status \in Payable
      PROVE  Fresh(n).status = "overdue" <=> DueOf(o, n) < now
  <2> DEFINE p == ob.periods[n]
  <2>1. PeriodSound(o, n, p, now) /\ p \in Period /\ DueOf(o, n) \in Nat
    BY TermsOf DEF RowSound, PeriodSound
  <2>2. CASE p.status = "absent" /\ n \in Wanted(o, now)
    <3>1. Fresh(n) = NewPeriod(o, ob.base, n, now)
      BY <2>2 DEF IsLate
    <3> HIDE DEF Fresh
    <3> QED
      BY <1>2, <3>1 DEF NewPeriod, Payable, Absent
  <2>3. CASE ~(p.status = "absent" /\ n \in Wanted(o, now)) /\ IsLate(o, p, n, now)
    <3>1. Fresh(n) = [p EXCEPT !.status = "overdue"] /\ DueOf(o, n) < now
      BY <2>3 DEF IsLate
    <3> HIDE DEF Fresh
    <3> QED
      BY <2>1, <3>1 DEF Period
  <2>4. CASE ~(p.status = "absent" /\ n \in Wanted(o, now)) /\ ~IsLate(o, p, n, now)
    <3>1. Fresh(n) = p
      BY <2>4
    <3> HIDE DEF Fresh
    <3> QED
      BY <1>2, <2>1, <2>4, <3>1 DEF IsLate, PeriodSound, Payable, Open
  <2> QED
    BY <2>2, <2>3, <2>4
<1> HIDE DEF Fresh, oc
<1>3. SUFFICES ASSUME NEW m \in PayableIn(oc), NEW n \in PayableIn(oc), m < n,
                      oc.periods[n].status = "overdue"
               PROVE  oc.periods[m].status = "overdue"
  BY DEF LateFirst, oc
<1>4. /\ m \in Numbers /\ n \in Numbers
      /\ oc.periods[m].status \in Payable /\ oc.periods[n].status \in Payable
  BY DEF PayableIn, Existing
<1>5. DueOf(o, m) < DueOf(o, n) /\ DueOf(o, m) \in Nat /\ DueOf(o, n) \in Nat
  BY <1>3, <1>4, TermsOf
<1>6. DueOf(o, n) < now
  BY <1>1, <1>2, <1>3, <1>4
<1>7. DueOf(o, m) < now
  BY <1>5, <1>6
<1> QED
  BY <1>1, <1>2, <1>4, <1>7

\* What a payment makes of a row that it may pay.
LEMMA PaidSound ==
    ASSUME NEW o \in Obligations, NEW now \in Int, NEW ob, RowSound(o, ob, now),
           ob.status = "active", NEW r, SlicesFit(ob, r)
    PROVE  LET oc == Paid(o, ob, r, Slices(ob, r), now) IN
           /\ Follows(o, ob, oc, now)
           /\ \A n \in Numbers :
                 oc.periods[n].paid = ob.periods[n].paid + Slices(ob, r)[n]
           /\ \A n \in Numbers :
                 Slices(ob, r)[n] > 0 /\ Slices(ob, r)[n] = Remaining(ob, n) =>
                    oc.periods[n].status = "paid"
           /\ r.op \notin SingleOps =>
                \A n \in Numbers : Slices(ob, r)[n] > 0 =>
                    \A m \in Numbers : m < n => oc.periods[m].status \notin Payable
<1> DEFINE slices == Slices(ob, r)
           Pay1(n) == LET p == ob.periods[n] IN
                        IF slices[n] = 0 THEN p
                        ELSE [p EXCEPT !.paid = @ + slices[n],
                                       !.status = IF p.paid + slices[n] < p.amount
                                                  THEN "partially_paid" ELSE "paid"]
           periods == [n \in Numbers |-> Pay1(n)]
           after == [ob EXCEPT !.periods = periods]
           oc == Paid(o, ob, r, slices, now)
<1>1. /\ ob \in Row
      /\ \A n \in Numbers : PeriodSound(o, n, ob.periods[n], now) /\ ob.periods[n] \in Period
  BY DEF RowSound, PeriodSound
<1>2. oc = Evaluated(o, after) \/ oc = Refreshed(o, after, now)
  BY DEF Paid
<1>3. \A n \in Numbers : /\ slices[n] \in Nat /\ slices[n] <= Remaining(ob, n)
                         /\ slices[n] > 0 => n \in PayableIn(ob)
  BY DEF SlicesFit
<1>4. r.op \notin SingleOps =>
         \A m, n \in PayableIn(ob) : m < n /\ slices[n] > 0 => slices[m] = Remaining(ob, m)
  BY DEF SlicesFit
<1> HIDE DEF slices
<1>5. ASSUME NEW n \in Numbers
      PROVE  /\ PeriodSound(o, n, Pay1(n), now)
             /\ Pay1(n).status = "absent" <=> ob.periods[n].status = "absent"
             /\ Pay1(n).paid = ob.periods[n].paid + slices[n]
             /\ History(o, ob.periods[n], Pay1(n))
             /\ slices[n] = 0 => Pay1(n) = ob.periods[n]
             /\ slices[n] > 0 /\ slices[n] = Remaining(ob, n) => Pay1(n).status = "paid"
  <2> DEFINE p == ob.periods[n]
             q == Pay1(n)
  <2>1. /\ PeriodSound(o, n, p, now) /\ p \in Period
        /\ p.paid \in Nat /\ p.amount \in Nat /\ slices[n] \in Nat
    BY <1>1, <1>3 DEF Period
  <2>2. CASE slices[n] = 0
    <3>1. q = p
      BY <2>2
    <3> HIDE DEF Pay1
    <3> QED
      BY <2>1, <2>2, <3>1 DEF History
  <2>3. CASE slices[n] # 0
    <3> DEFINE status == IF p.paid + slices[n] < p.amount THEN "partially_paid" ELSE "paid"
    <3>1. q = [p EXCEPT !.paid = p.paid + slices[n], !.status = status]
      BY <2>3
    <3>2. status \in {"partially_paid", "paid"} /\ p.status \in Payable
          /\ slices[n] <= p.amount - p.paid /\ slices[n] > 0
      BY <1>3, <2>1, <2>3 DEF PayableIn, Remaining
    <3>3. status = "paid" <=> ~(p.paid + slices[n] < p.amount)
      OBVIOUS
    <3> HIDE DEF Pay1, status, p, q
    <3>4. q.paid = p.paid + slices[n] /\ q.status = status /\ q.amount = p.amount
          /\ q \in Period
      <4>1. p.paid + slices[n] \in Nat
        BY <2>1
      <4>2. p.status \in {"absent"} \cup Open \cup Closed /\ status \in {"absent"} \cup Open \cup Closed
        BY <3>2 DEF Payable, Open, Closed
      <4> QED
        BY <2>1, <3>1, <4>1, <4>2 DEF Period
    <3>5. StatusFits(q)
      BY <2>1, <3>2, <3>3, <3>4 DEF StatusFits
    <3>6. p.status # "absent" /\ p.status \notin Closed
      BY <3>2 DEF Payable, Open, Closed
    <3>7. p.status # "paid"
      BY <3>6 DEF Closed
    <3> QED
      BY <2>1, <3>2, <3>3, <3>4, <3>5, <3>6, <3>7 DEF PeriodSound, History, Remaining, p, q
  <2> QED
    BY <2>2, <2>3
<1> HIDE DEF Pay1
<1>6. /\ after \in Row /\ after.status = "active" /\ after.base = ob.base
      /\ \A n \in Numbers : after.periods[n] = Pay1(n)
  <2>1. periods \in [Numbers -> Period] /\ \A n \in Numbers : periods[n] = Pay1(n)
    BY <1>5 DEF PeriodSound
  <2> HIDE DEF periods
  <2> QED
    BY <1>1, <2>1 DEF Row
<1> HIDE DEF after
<1>7. RowSound(o, after, now)
  <2>1. Existing(after) = Existing(ob)
    BY <1>5, <1>6 DEF Existing
  <2> QED
    BY <1>5, <1>6, <2>1 DEF RowSound
<1>8. /\ RowSound(o, oc, now) /\ LifeSound(o, oc)
      /\ \A n \in Numbers : Aged(after.periods[n], oc.periods[n])
  <2>1. CASE oc = Evaluated(o, after)
    <3>1. \A n \in Numbers : Aged(after.periods[n], after.periods[n])
      BY DEF Aged
    <3> HIDE DEF oc
    <3> QED
      BY <1>6, <1>7, <2>1, <3>1, EvaluatedSound
  <2>2. CASE oc = Refreshed(o, after, now)
    <3> HIDE DEF oc
    <3> QED
      BY <1>6, <1>7, <2>2, RefreshedSound
  <2> QED
    BY <1>2, <2>1, <2>2
<1> HIDE DEF oc
<1>9. ASSUME NEW n \in Numbers
      PROVE  /\ oc.periods[n].paid = ob.periods[n].paid + slices[n]
             /\ History(o, ob.periods[n], oc.periods[n])
             /\ slices[n] > 0 /\ slices[n] = Remaining(ob, n) => oc.periods[n].status = "paid"
  <2>1. /\ Aged(after.periods[n], oc.periods[n]) /\ History(o, ob.periods[n], after.periods[n])
        /\ after.periods[n].paid = ob.periods[n].paid + slices[n]
    BY <1>5, <1>6, <1>8
  <2>2. after.periods[n].status = "absent" => ob.periods[n].paid = 0
    BY <1>5, <1>6, RowSoundPeriod
  <2>3. slices[n] > 0 /\ slices[n] = Remaining(ob, n) => oc.periods[n].status = "paid"
    BY <1>5, <1>6, <2>1 DEF Aged, Closed
  <2> QED
    BY <2>1, <2>2, <2>3, AgedHistory DEF Aged
<1>10. ASSUME r.op \notin SingleOps, NEW n \in Numbers, slices[n] > 0,
              NEW m \in Numbers, m < n
       PROVE  oc.periods[m].status \notin Payable
  <2>1. n \in PayableIn(ob) /\ n \in Existing(ob)
    BY <1>3, <1>10 DEF PayableIn
  <2>2. m \in Existing(ob)
    <3>1. 1 .. n \subseteq Existing(ob)
      BY <2>1 DEF RowSound, Bounded
    <3>2. m \in 1 .. n
      BY <1>10, NumbersAre
    <3> QED
      BY <3>1, <3>2
  <2>3. /\ Aged(after.periods[m], oc.periods[m]) /\ after.periods[m] = Pay1(m)
    BY <1>6, <1>8
  <2>4. CASE m \in PayableIn(ob)
    <3>1. slices[m] = Remaining(ob, m) /\ Remaining(ob, m) > 0
      BY <1>4, <1>10, <2>1, <2>4, RemainingIs
    <3>2. after.periods[m].status = "paid"
      BY <1>5, <2>3, <3>1
    <3> QED
      BY <2>3, <3>2 DEF Aged, Closed, Payable, Open
  <2>5. CASE m \notin PayableIn(ob)
    <3>1. slices[m] = 0
      BY <1>3, <2>5
    <3>2. after.periods[m] = ob.periods[m]
      BY <1>5, <2>3, <3>1
    <3>3. ob.periods[m].status \in Closed \cup {"pending_amount_definition"}
      BY <1>1, <2>2, <2>5 DEF PayableIn, Existing, Payable, Period
    <3> QED
      BY <2>3, <3>2, <3>3 DEF Aged, Closed, Payable, Open
  <2> QED
    BY <2>4, <2>5
<1>11. Lasting(ob, oc)
  BY DEF Lasting
<1> QED
  BY <1>8, <1>9, <1>10, <1>11 DEF Follows, oc, slices

-----------------------------------------------------------------------------
(* What a step does to the rows *)

(***************************************************************************)
(* The tables: every row is sound and the sums agree.                      *)
(***************************************************************************)
TableTypes ==
    /\ today \in Days
    /\ obligation \in [Obligations -> Row]
    /\ balance \in [Accounts -> Int] /\ open \in [Accounts -> BOOLEAN]
    /\ applied \in [Obligations -> [Numbers -> Nat]]
    /\ posted \in [Accounts -> Nat] /\ spent \in [Accounts -> Nat]

RowsSound ==
    \A o \in Obligations :
        /\ RowSound(o, obligation[o], today) /\ LifeSound(o, obligation[o])
        /\ \A n \in Numbers : obligation[o].periods[n].paid = applied[o][n]

SumsAgree ==
    /\ \A a \in Accounts : balance[a] = Opening[a] - posted[a] - spent[a]
    /\ SumFunction(posted) = SumFunction([o \in Obligations |-> SumFunction(applied[o])])

Books == TableTypes /\ RowsSound /\ SumsAgree

SessionTypes ==
    /\ funds \in [Sessions -> Int]
    /\ seen \in [Sessions -> [Obligations -> Row \cup {Nothing}]]

(***************************************************************************)
(* A session: an idle one has no request, and one that has locked its      *)
(* account pays an obligation that is active.                              *)
(***************************************************************************)
Ready(s) ==
    /\ pc[s] = "idle" => req[s] = Nothing
    /\ pc[s] = "account" => obligation[req[s].obl].status = "active"

BookInv == PayInv /\ Books /\ SessionTypes /\ \A s \in Sessions : Ready(s)

\* A step on rows: what becomes of all of them.
RowsFollow ==
    \A o \in Obligations : Follows(o, obligation[o], obligation'[o], today)

LEMMA NowIs == ASSUME TableTypes PROVE today \in Nat
  BY TermsAssumption DEF TableTypes, Days

\* A row that a step leaves alone.
LEMMA SameFollows ==
    ASSUME NEW o, NEW ob, NEW now, RowSound(o, ob, now), LifeSound(o, ob)
    PROVE  Follows(o, ob, ob, now)
  BY DEF Follows, Lasting, History

LEMMA AgedFirst ==
    ASSUME NEW o, NEW p, NEW q, NEW r, Aged(p, q), History(o, q, r),
           p.status = "absent" => p.paid = 0, p.paid \in Nat
    PROVE  History(o, p, r)
  BY DEF Aged, History, Closed

(***************************************************************************)
(* A session that may pay: what it read of the account is current, and the *)
(* rows that it works on are those of its obligation, brought up to a day. *)
(***************************************************************************)
PaysFrom(s) ==
    LET r == req[s]
        ob == obligation[r.obl]
        basis == Basis(s)
    IN  /\ r \in Requests /\ r.op \in PayOps /\ r.obl \in Obligations
        /\ r.acct \in Accounts /\ r.amount \in Nat
        /\ r.op \in SingleOps => r.n \in Numbers
        /\ funds[s] = balance[r.acct]
        /\ ob.status = "active"
        /\ RowSound(r.obl, basis, today) /\ basis.status = "active"
        /\ r.op = "old_fifo" => LateFirst(basis)
        /\ \A n \in Numbers : Aged(ob.periods[n], basis.periods[n])

LEMMA PayRequest ==
    ASSUME NEW r \in Requests, r.op \in PayOps
    PROVE  /\ r.obl \in Obligations /\ r.acct \in Accounts /\ r.amount \in Nat
           /\ r.op \in SingleOps => r.n \in Numbers
           /\ r.op # "refresh_all"
  BY ObligationsAssumption DEF PayOps, V17PayOps

LEMMA BasisSound ==
    ASSUME Books, NEW s \in Sessions, Own(s), Ready(s), pc[s] = "account"
    PROVE  PaysFrom(s)
<1> DEFINE r == req[s]
           ob == obligation[r.obl]
           basis == Basis(s)
<1>1. today \in Int
  BY NowIs DEF Books
<1>2. /\ r \in Requests /\ r.op \in PayOps /\ r.obl \in Obligations
      /\ r.acct \in Accounts /\ r.amount \in Nat
      /\ r.op \in SingleOps => r.n \in Numbers
      /\ r.op # "refresh_all"
  BY PayRequest DEF Own
<1>3. funds[s] = balance[r.acct] /\ seen[s][r.obl] = ob
  BY <1>2, Deciding DEF Own
<1>4. RowSound(r.obl, ob, today) /\ ob.status = "active"
  BY <1>2 DEF Books, RowsSound, Ready
<1>5. /\ RowSound(r.obl, basis, today) /\ basis.status = "active"
      /\ r.op = "old_fifo" => LateFirst(basis)
      /\ \A n \in Numbers : Aged(ob.periods[n], basis.periods[n])
  <2>1. CASE r.op = "old_fifo"
    <3>1. basis = Synced(r.obl, ob, today)
      BY <1>3, <2>1 DEF Basis
    <3> HIDE DEF basis, ob, r
    <3> QED
      BY <1>2, <1>3, <1>4, <1>1, <3>1, SyncedSound, SyncedLateFirst
  <2>2. CASE r.op # "old_fifo"
    <3>1. basis = ob
      BY <1>3, <2>2 DEF Basis
    <3>2. \A n \in Numbers : Aged(ob.periods[n], ob.periods[n])
      BY DEF Aged
    <3> HIDE DEF ob, r
    <3> QED
      BY <1>4, <2>2, <3>1, <3>2
  <2> QED
    BY <2>1, <2>2
<1> QED
  BY <1>2, <1>3, <1>4, <1>5 DEF PaysFrom

\* A payment, on its obligation and in the books.
LEMMA PayBooks ==
    ASSUME Books, NEW s \in Sessions, PaysFrom(s), Pay(s)
    PROVE  /\ RowsFollow /\ Books'
           /\ LET r == req[s] IN
              r.op \notin SingleOps =>
                \A n \in Numbers : applied'[r.obl][n] > applied[r.obl][n] =>
                    \A m \in Numbers : m < n =>
                        obligation'[r.obl].periods[m].status \notin Payable
<1> DEFINE r == req[s]
           o == r.obl
           ob == obligation[o]
           basis == Basis(s)
           amount == Applied(basis, r)
           slices == Slices(basis, r)
           oc == Paid(o, basis, r, slices, today)
<1>1. /\ pc[s] = "account" /\ PaymentFits(basis, r)
      /\ balance' = [balance EXCEPT ![r.acct] = funds[s] - amount]
      /\ posted' = [posted EXCEPT ![r.acct] = @ + amount]
      /\ applied' = [applied EXCEPT ![o] = [n \in Numbers |-> @[n] + slices[n]]]
      /\ obligation' = [obligation EXCEPT ![o] = oc]
      /\ UNCHANGED <<today, open, spent>>
  BY DEF Pay, Payment
<1>2. /\ o \in Obligations /\ r.acct \in Accounts /\ r.amount \in Nat
      /\ r.op \in SingleOps => r.n \in Numbers
      /\ funds[s] = balance[r.acct]
      /\ RowSound(o, basis, today) /\ basis.status = "active"
      /\ r.op = "old_fifo" => LateFirst(basis)
      /\ \A n \in Numbers : Aged(ob.periods[n], basis.periods[n])
  BY DEF PaysFrom
<1>3. today \in Int
  BY NowIs DEF Books
<1>0. ob.status = "active"
  BY DEF PaysFrom
<1> HIDE DEF r, basis
<1>4. SlicesFit(basis, r) /\ amount \in Nat \ {0}
  BY <1>1, <1>2, SlicesSound
<1>5. /\ Follows(o, basis, oc, today)
      /\ \A n \in Numbers : oc.periods[n].paid = basis.periods[n].paid + slices[n]
      /\ r.op \notin SingleOps =>
           \A n \in Numbers : slices[n] > 0 =>
               \A m \in Numbers : m < n => oc.periods[m].status \notin Payable
  BY <1>2, <1>3, <1>4, PaidSound
<1>6. SumFunction(slices) = amount /\ DOMAIN slices = Numbers
      /\ \A n \in Numbers : slices[n] \in Nat
  BY <1>4 DEF SlicesFit, Slices
<1> HIDE DEF oc, slices, amount, o
<1>7. /\ RowSound(o, ob, today)
      /\ \A n \in Numbers : ob.periods[n].paid = applied[o][n]
      /\ ob.status = "active"
  BY <1>0, <1>2 DEF Books, RowsSound
<1>8. Follows(o, ob, oc, today)
  <2>1. \A n \in Numbers : History(o, ob.periods[n], oc.periods[n])
    <3> SUFFICES ASSUME NEW n \in Numbers PROVE History(o, ob.periods[n], oc.periods[n])
      OBVIOUS
    <3>1. Aged(ob.periods[n], basis.periods[n]) /\ History(o, basis.periods[n], oc.periods[n])
      BY <1>2, <1>5 DEF Follows
    <3>2. (ob.periods[n].status = "absent" => ob.periods[n].paid = 0)
          /\ ob.periods[n].paid \in Nat
      BY <1>7, RowSoundPeriod
    <3> HIDE DEF ob
    <3> QED
      BY <3>1, <3>2, AgedFirst
  <2>2. Lasting(ob, oc)
    BY <1>7 DEF Lasting
  <2> QED
    BY <1>5, <2>1, <2>2 DEF Follows
<1>9. \A n \in Numbers : oc.periods[n].paid = applied[o][n] + slices[n]
  BY <1>2, <1>5, <1>7 DEF Aged
<1>10. TableTypes
  BY DEF Books
<1> DEFINE more == [n \in Numbers |-> applied[o][n] + slices[n]]
<1>11. /\ applied' = [applied EXCEPT ![o] = more]
       /\ more \in [Numbers -> Nat] /\ DOMAIN applied[o] = Numbers
       /\ \A n \in Numbers : applied[o][n] \in Nat /\ more[n] = applied[o][n] + slices[n]
  BY <1>1, <1>2, <1>6, <1>10 DEF TableTypes
<1> HIDE DEF more
<1>12. /\ applied'[o] = more /\ obligation'[o] = oc
       /\ \A x \in Obligations \ {o} : applied'[x] = applied[x] /\ obligation'[x] = obligation[x]
       /\ applied' \in [Obligations -> [Numbers -> Nat]]
  BY <1>1, <1>2, <1>10, <1>11 DEF TableTypes
<1>13. oc \in Row
  BY <1>5 DEF Follows, RowSound
<1>14. TableTypes'
  <2>1. balance' \in [Accounts -> Int] /\ posted' \in [Accounts -> Nat]
    BY <1>1, <1>2, <1>4, <1>10 DEF TableTypes
  <2>2. obligation' \in [Obligations -> Row]
    BY <1>1, <1>10, <1>13 DEF TableTypes
  <2> QED
    BY <1>1, <1>10, <1>12, <2>1, <2>2 DEF TableTypes
<1>15. RowsFollow
  BY <1>8, <1>12, SameFollows DEF RowsFollow, Books, RowsSound
<1>16. RowsSound'
  <2>1. \A x \in Obligations : RowSound(x, obligation'[x], today) /\ LifeSound(x, obligation'[x])
    BY <1>15 DEF RowsFollow, Follows
  <2>2. \A x \in Obligations : \A n \in Numbers :
            obligation'[x].periods[n].paid = applied'[x][n]
    BY <1>9, <1>11, <1>12 DEF Books, RowsSound
  <2> QED
    BY <1>1, <2>1, <2>2 DEF RowsSound
<1>17. SumsAgree'
  <2>1. \A a \in Accounts : balance'[a] = Opening[a] - posted'[a] - spent'[a]
    <3>1. \A a \in Accounts : /\ balance[a] = Opening[a] - posted[a] - spent[a]
                              /\ balance[a] \in Int /\ posted[a] \in Nat /\ spent[a] \in Nat
                              /\ Opening[a] \in Nat
      BY <1>10, ObligationsAssumption DEF TableTypes, Books, SumsAgree
    <3>2. /\ balance'[r.acct] = balance[r.acct] - amount
          /\ posted'[r.acct] = posted[r.acct] + amount
          /\ \A a \in Accounts \ {r.acct} : balance'[a] = balance[a] /\ posted'[a] = posted[a]
      BY <1>1, <1>2, <1>10 DEF TableTypes
    <3>3. balance'[r.acct] = Opening[r.acct] - posted'[r.acct] - spent'[r.acct]
      <4> DEFINE a == r.acct
      <4>1. /\ balance[a] = Opening[a] - posted[a] - spent[a]
            /\ posted[a] \in Int /\ spent[a] \in Int /\ Opening[a] \in Int /\ amount \in Int
        BY <1>2, <1>4, <3>1
      <4>2. balance'[a] = balance[a] - amount /\ posted'[a] = posted[a] + amount
            /\ spent'[a] = spent[a]
        BY <1>1, <3>2
      <4> HIDE DEF a
      <4> QED
        BY <4>1, <4>2 DEF a
    <3> QED
      BY <1>1, <3>1, <3>2, <3>3
  <2>2. SumFunction(posted') = SumFunction(posted) + amount
    <3>1. /\ posted'[r.acct] = posted[r.acct] + amount
          /\ \A a \in Accounts \ {r.acct} : posted'[a] = posted[a]
          /\ \A a \in Accounts : posted[a] \in Int /\ posted'[a] \in Int
          /\ DOMAIN posted = Accounts /\ DOMAIN posted' = Accounts
      BY <1>1, <1>2, <1>10, <1>14 DEF TableTypes
    <3>2. SumFunctionOnSet(posted', Accounts)
            = SumFunctionOnSet(posted, Accounts) - posted[r.acct] + posted'[r.acct]
      BY <1>2, <3>1, SumUpdate, FiniteTables
    <3>3. SumFunctionOnSet(posted, Accounts) \in Int
      BY <3>1, SumType, FiniteTables
    <3> QED
      BY <1>2, <1>4, <3>1, <3>2, <3>3 DEF SumFunction
  <2> DEFINE total == [x \in Obligations |-> SumFunction(applied[x])]
             totals == [x \in Obligations |-> SumFunction(applied'[x])]
  <2>3. ASSUME NEW x \in Obligations
        PROVE  SumFunction(applied[x]) \in Int /\ SumFunction(applied'[x]) \in Int
    <3>1. /\ DOMAIN applied[x] = Numbers /\ DOMAIN applied'[x] = Numbers
          /\ \A n \in Numbers : applied[x][n] \in Int /\ applied'[x][n] \in Int
      BY <1>10, <1>12 DEF TableTypes
    <3> QED
      BY <3>1, SumType, NumbersAre DEF SumFunction
  <2>4. SumFunction(applied'[o]) = SumFunction(applied[o]) + amount
    <3> DEFINE was == applied[o]
    <3>0. DOMAIN more = Numbers
      BY <1>11
    <3>1. \A n \in Numbers : /\ was[n] \in Int /\ slices[n] \in Int
                             /\ more[n] = was[n] + slices[n]
      BY <1>6, <1>11
    <3>2. SumFunctionOnSet(more, Numbers)
            = SumFunctionOnSet(was, Numbers) + SumFunctionOnSet(slices, Numbers)
      <4> HIDE DEF was
      <4>1. IsFiniteSet(Numbers)
        BY NumbersAre
      <4> QED
        BY <3>1, <4>1, SumAdd
    <3> QED
      BY <1>6, <1>11, <1>12, <3>0, <3>2 DEF SumFunction
  <2>5. /\ total[o] = SumFunction(applied[o]) /\ totals[o] = SumFunction(applied'[o])
        /\ \A x \in Obligations \ {o} : total[x] = totals[x]
        /\ \A x \in Obligations : total[x] \in Int /\ totals[x] \in Int
        /\ DOMAIN total = Obligations /\ DOMAIN totals = Obligations
    BY <1>2, <1>12, <2>3
  <2> HIDE DEF total, totals
  <2>6. SumFunctionOnSet(totals, Obligations)
          = SumFunctionOnSet(total, Obligations) - total[o] + totals[o]
    BY <1>2, <2>5, SumUpdate, FiniteTables
  <2>7. SumFunctionOnSet(total, Obligations) \in Int
    BY <2>5, SumType, FiniteTables
  <2>8. SumFunction(posted) = SumFunction(total)
    BY DEF Books, SumsAgree, total
  <2>9. SumFunction(posted') = SumFunction(totals)
    BY <1>2, <1>4, <2>2, <2>4, <2>5, <2>6, <2>7, <2>8 DEF SumFunction
  <2> QED
    BY <2>1, <2>9 DEF SumsAgree, totals
<1>18. ASSUME r.op \notin SingleOps, NEW n \in Numbers, applied'[o][n] > applied[o][n]
       PROVE  \A m \in Numbers : m < n => obligation'[o].periods[m].status \notin Payable
  <2>1. slices[n] > 0
    BY <1>6, <1>11, <1>12, <1>18
  <2> QED
    BY <1>5, <1>12, <1>18, <2>1
<1> QED
  BY <1>14, <1>15, <1>16, <1>17, <1>18 DEF o, r, Books

LEMMA EditBooks ==
    ASSUME Books, NEW s \in Sessions, Own(s), Edit(s)
    PROVE  RowsFollow /\ Books'
<1> DEFINE r == req[s]
           o == r.obl
           ob == obligation[o]
           oc == Edited(o, ob, r, today)
<1>1. /\ AtRoot(s) /\ r.op \in EditOps /\ r.op # "refresh_all"
      /\ EditAllowed(o, seen[s][o], r)
      /\ obligation' = [obligation EXCEPT ![o] = Edited(o, seen[s][o], r, today)]
      /\ UNCHANGED <<today, balance, open, applied, posted, spent>>
  BY DEF Edit, EditOps
<1>2. TableTypes /\ RowsSound /\ SumsAgree
  BY DEF Books
<1>3. r \in Requests /\ o \in Obligations /\ seen[s][o] = ob
  BY <1>1, Deciding
<1>5. obligation' = [obligation EXCEPT ![o] = oc] /\ EditAllowed(o, ob, r)
  BY <1>1, <1>3
<1>6. RowSound(o, ob, today) /\ LifeSound(o, ob) /\ today \in Nat
  BY <1>2, <1>3, NowIs DEF RowsSound
<1>7. Follows(o, ob, oc, today) /\ \A n \in Numbers : oc.periods[n].paid = ob.periods[n].paid
  BY <1>1, <1>3, <1>5, <1>6, EditedSound
<1> HIDE DEF oc, o, r
<1>8. /\ obligation'[o] = oc /\ oc \in Row
      /\ \A x \in Obligations \ {o} : obligation'[x] = obligation[x]
      /\ obligation' \in [Obligations -> Row]
  BY <1>2, <1>3, <1>5, <1>7 DEF TableTypes, Follows, RowSound
<1>9. RowsFollow
  BY <1>2, <1>7, <1>8, SameFollows DEF RowsFollow, RowsSound
<1>10. RowsSound'
  <2>1. \A x \in Obligations : RowSound(x, obligation'[x], today) /\ LifeSound(x, obligation'[x])
    BY <1>9 DEF RowsFollow, Follows
  <2>2. \A x \in Obligations : \A n \in Numbers :
            obligation'[x].periods[n].paid = applied[x][n]
    BY <1>2, <1>7, <1>8 DEF RowsSound
  <2> QED
    BY <1>1, <2>1, <2>2 DEF RowsSound
<1> QED
  BY <1>1, <1>2, <1>8, <1>9, <1>10 DEF Books, TableTypes, SumsAgree

LEMMA RefreshAllBooks ==
    ASSUME Books, NEW s \in Sessions, Own(s), RefreshAll(s)
    PROVE  RowsFollow /\ Books'
<1>1. /\ obligation' = [o \in Obligations |->
                        IF seen[s][o] = Nothing THEN obligation[o]
                        ELSE Refreshed(o, seen[s][o], today)]
      /\ UNCHANGED <<today, balance, open, applied, posted, spent>>
  BY DEF RefreshAll
<1>2. TableTypes /\ RowsSound /\ SumsAgree /\ today \in Int
  BY NowIs DEF Books
<1>3. ASSUME NEW o \in Obligations
      PROVE  /\ Follows(o, obligation[o], obligation'[o], today)
             /\ \A n \in Numbers :
                  obligation'[o].periods[n].paid = obligation[o].periods[n].paid
  <2> DEFINE ob == obligation[o]
  <2>1. RowSound(o, ob, today) /\ LifeSound(o, ob)
    BY <1>2 DEF RowsSound
  <2>2. CASE seen[s][o] = Nothing
    <3>1. obligation'[o] = ob
      BY <1>1, <2>2
    <3> QED
      BY <2>1, <3>1, SameFollows
  <2>3. CASE seen[s][o] # Nothing
    <3> DEFINE oc == Refreshed(o, ob, today)
    <3>1. obligation'[o] = oc
      BY <1>1, <2>3 DEF Own, RowIsCurrent
    <3> HIDE DEF ob
    <3>2. /\ RowSound(o, oc, today) /\ LifeSound(o, oc) /\ Lasting(ob, oc)
          /\ \A n \in Numbers : Aged(ob.periods[n], oc.periods[n])
      BY <1>2, <2>1, RefreshedSound DEF Lasting
    <3> HIDE DEF oc
    <3>3. \A n \in Numbers : oc.periods[n].paid = ob.periods[n].paid
                             /\ History(o, ob.periods[n], oc.periods[n])
      BY <2>1, <3>2, AgedIsHistory, RowSoundPeriod DEF Aged
    <3> QED
      BY <3>1, <3>2, <3>3 DEF Follows, ob
  <2> QED
    BY <2>2, <2>3
<1>4. obligation' \in [Obligations -> Row]
  <2>1. \A o \in Obligations : obligation'[o] \in Row
    BY <1>3 DEF Follows, RowSound
  <2> QED
    BY <1>1, <2>1
<1>5. RowsSound'
  BY <1>1, <1>2, <1>3 DEF RowsSound, Follows
<1> QED
  BY <1>1, <1>2, <1>3, <1>4, <1>5 DEF RowsFollow, Books, TableTypes, SumsAgree

\* A step of a session that changes no table of obligations or of accounts.
LEMMA QuietBooks ==
    ASSUME Books, UNCHANGED <<today, obligation, balance, open, applied, posted, spent>>
    PROVE  RowsFollow /\ Books'
<1>1. RowsFollow
  BY SameFollows DEF RowsFollow, Books, RowsSound
<1> QED
  BY <1>1 DEF Books, TableTypes, RowsSound, SumsAgree

LEMMA OtherBooks ==
    ASSUME Books, OtherServices
    PROVE  RowsFollow /\ Books'
<1>1. PICK a \in Accounts : Spend(a) \/ Archive(a)
  BY DEF OtherServices
<1>2. UNCHANGED <<today, obligation, applied, posted>>
  BY <1>1 DEF Spend, Archive
<1>3. RowsFollow /\ RowsSound'
  <2>1. RowsFollow
    BY <1>2, SameFollows DEF RowsFollow, Books, RowsSound
  <2> QED
    BY <1>2, <2>1 DEF Books, RowsSound
<1>4. TableTypes /\ SumsAgree
  BY DEF Books
<1>5. CASE Spend(a)
  <2>1. /\ balance' = [balance EXCEPT ![a] = @ - 1] /\ spent' = [spent EXCEPT ![a] = @ + 1]
        /\ open' = open
    BY <1>5 DEF Spend
  <2>2. TableTypes'
    BY <1>2, <1>4, <2>1 DEF TableTypes
  <2>3. \A x \in Accounts : balance'[x] = Opening[x] - posted[x] - spent'[x]
    <3> SUFFICES ASSUME NEW x \in Accounts
                 PROVE  balance'[x] = Opening[x] - posted[x] - spent'[x]
      OBVIOUS
    <3>1. /\ balance[x] = Opening[x] - posted[x] - spent[x]
          /\ balance[x] \in Int /\ posted[x] \in Nat /\ spent[x] \in Nat /\ Opening[x] \in Nat
      BY <1>4, ObligationsAssumption DEF TableTypes, SumsAgree
    <3>2. \/ x = a /\ balance'[x] = balance[x] - 1 /\ spent'[x] = spent[x] + 1
          \/ balance'[x] = balance[x] /\ spent'[x] = spent[x]
      BY <1>4, <2>1 DEF TableTypes
    <3> QED
      BY <3>1, <3>2
  <2> QED
    BY <1>2, <1>3, <1>4, <2>2, <2>3 DEF Books, SumsAgree
<1>6. CASE Archive(a)
  <2>1. UNCHANGED <<balance, spent>> /\ open' = [open EXCEPT ![a] = FALSE]
    BY <1>6 DEF Archive
  <2> QED
    BY <1>2, <1>3, <1>4, <2>1 DEF Books, TableTypes, SumsAgree
<1> QED
  BY <1>1, <1>5, <1>6

\* Periods that were due stay due.
LEMMA DayBooks ==
    ASSUME Books, today < Horizon, today' = today + 1, UNCHANGED tableVars
    PROVE  Books' /\ UNCHANGED obligation
<1>1. UNCHANGED <<obligation, balance, open, applied, posted, spent>>
  BY DEF tableVars
<1>2. today \in Nat /\ Horizon \in Nat /\ today \in Days
  BY NowIs, TermsAssumption DEF Books, TableTypes
<1>3. today' \in Days /\ today \in Int /\ today' \in Int /\ today <= today'
  BY <1>2 DEF Days
<1>4. \A o \in Obligations : RowSound(o, obligation[o], today')
  BY <1>3, SoundLater DEF Books, RowsSound
<1> QED
  BY <1>1, <1>3, <1>4 DEF Books, TableTypes, RowsSound, SumsAgree

-----------------------------------------------------------------------------
(* What a step does to the sessions *)

\* What the tables and the types of sessions must be, whoever acts next.
BookBase == PayBase /\ Books /\ SessionTypes

LEMMA LeaveTypes ==
    ASSUME SessionTypes, NEW s \in Sessions, Leave(s)
    PROVE  SessionTypes'
  BY DEF SessionTypes, Leave, NoneSeen

LEMMA LockRootTypes ==
    ASSUME PayBase, Books, SessionTypes, NEW s \in Sessions, LockRoot(s)
    PROVE  SessionTypes'
<1>1. NextRoot(s) \in Obligations
  BY NextRootIn DEF LockRoot, PayBase, RequestTypes
<1>2. obligation[NextRoot(s)] \in Row
  BY <1>1 DEF Books, TableTypes
<1>3. seen' = seen \/ seen' = [seen EXCEPT ![s][NextRoot(s)] = obligation[NextRoot(s)]]
  BY DEF LockRoot
<1>4. UNCHANGED funds
  BY DEF LockRoot
<1> QED
  BY <1>1, <1>2, <1>3, <1>4 DEF SessionTypes

LEMMA ClientTypes ==
    ASSUME BookBase, NEW s \in Sessions, Own(s), Ready(s), ClientStep(s)
    PROVE  SessionTypes' /\ Ready(s)'
<1>1. /\ PayBase /\ Books /\ RequestTypes /\ TableTypes /\ SessionTypes
      /\ DOMAIN pc = Sessions /\ DOMAIN req = Sessions
  BY DEF BookBase, PayBase, Books, RequestTypes
<1>2. CASE Leave(s)
  BY <1>1, <1>2, LeaveTypes, LeaveFrame DEF Ready
<1>3. CASE \E r \in Requests : EarlyReplay(s, r)
  BY <1>1, <1>3 DEF EarlyReplay, sessionVars, SessionTypes, Ready
<1>4. CASE \E r \in Requests : Begin(s, r)
  BY <1>1, <1>4 DEF Begin, tableVars, SessionTypes, Ready
<1>5. CASE LockRoot(s)
  <2>1. pc[s] = "root" /\ UNCHANGED pc
    BY <1>5 DEF LockRoot
  <2> QED
    BY <1>1, <1>5, <2>1, LockRootTypes DEF Ready
<1>6. CASE LockAccount(s)
  <2>1. /\ AtRoot(s) /\ req[s].op \in PayOps /\ seen[s][req[s].obl].status = "active"
        /\ UNCHANGED <<obligation, req, seen>>
        /\ pc' = [pc EXCEPT ![s] = "account"]
        /\ funds' = [funds EXCEPT ![s] = balance[req[s].acct]]
    BY <1>6 DEF LockAccount, MayPay, tableVars
  <2>2. req[s] \in Requests
    BY <2>1 DEF Own, AtRoot
  <2>3. req[s].acct \in Accounts /\ req[s].op # "refresh_all"
    BY <2>1, <2>2, RequestRows
  <2>4. seen[s][req[s].obl] = obligation[req[s].obl]
    BY <2>1, <2>3, Deciding
  <2>5. balance[req[s].acct] \in Int
    BY <1>1, <2>3 DEF TableTypes
  <2> QED
    BY <1>1, <2>1, <2>4, <2>5 DEF SessionTypes, Ready
<1> QED
  BY <1>2, <1>3, <1>4, <1>5, <1>6
  DEF ClientStep, Serve, RootReplay, Pay, Edit, RefreshAll, Refuse, Fail

-----------------------------------------------------------------------------
\* What a client's step does to rows and sums.
LEMMA ClientBooks ==
    ASSUME BookBase, NEW s \in Sessions, Own(s), Ready(s), ClientStep(s)
    PROVE  RowsFollow /\ Books'
<1>1. Books
  BY DEF BookBase
<1>2. CASE \E r \in Requests : EarlyReplay(s, r) \/ Begin(s, r)
  BY <1>1, <1>2, QuietBooks DEF EarlyReplay, Begin, tableVars
<1>3. CASE LockRoot(s) \/ RootReplay(s) \/ LockAccount(s) \/ Refuse(s) \/ Fail(s)
  BY <1>1, <1>3, QuietBooks DEF LockRoot, RootReplay, LockAccount, Refuse, Fail, tableVars
<1>4. CASE Pay(s)
  BY <1>1, <1>4, BasisSound, PayBooks DEF Pay, Payment
<1> QED
  BY <1>1, <1>2, <1>3, <1>4, EditBooks, RefreshAllBooks DEF ClientStep, Serve

\* A session that a step of another leaves alone stays ready.
LEMMA KeptReady ==
    ASSUME NEW t \in Sessions, Own(t), Ready(t), Kept(t)
    PROVE  Ready(t)'
<1>1. pc[t] = "account" => req[t].obl \in Obligations /\ lock[req[t].obl] = t
  BY PayRequest, Deciding DEF Own
<1> QED
  BY <1>1 DEF Ready, Kept

\* No row exists yet, and nothing has been paid.
LEMMA BooksInitially == Init => BookInv
<1> SUFFICES ASSUME Init PROVE BookInv
  OBVIOUS
<1>1. PayInv
  BY PayInitially
<1>2. /\ today = 0 /\ obligation = [o \in Obligations |-> NoRow]
      /\ balance = Opening /\ open = [a \in Accounts |-> TRUE]
      /\ applied = [o \in Obligations |-> [n \in Numbers |-> 0]]
      /\ posted = [a \in Accounts |-> 0] /\ spent = [a \in Accounts |-> 0]
      /\ pc = [s \in Sessions |-> "idle"] /\ req = [s \in Sessions |-> Nothing]
      /\ seen = [s \in Sessions |-> NoneSeen] /\ funds = [s \in Sessions |-> 0]
  BY DEF Init
<1>3. /\ NoRow \in Row /\ NoRow.status = "none" /\ \A n \in Numbers : NoRow.periods[n] = Absent
      /\ Absent \in Period /\ Absent.status = "absent" /\ Absent.paid = 0
      /\ Absent.amount = 0
  BY DEF NoRow, Row, Absent, Period
<1>4. TableTypes
  <2>1. today \in Days
    BY <1>2, TermsAssumption DEF Days
  <2>2. obligation \in [Obligations -> Row]
    BY <1>2, <1>3
  <2> QED
    BY <1>2, <2>1, <2>2, ObligationsAssumption DEF TableTypes
<1>5. ASSUME NEW o \in Obligations PROVE RowSound(o, NoRow, today) /\ LifeSound(o, NoRow)
  <2>1. Existing(NoRow) = {}
    BY <1>3 DEF Existing
  <2>2. Bounded(o, {})
    BY DEF Bounded
  <2>3. StatusFits(Absent)
    BY <1>3 DEF StatusFits
  <2> QED
    BY <1>3, <2>1, <2>2, <2>3 DEF RowSound, LifeSound, PeriodSound
<1>6. RowsSound
  BY <1>2, <1>3, <1>5 DEF RowsSound
<1>7. SumsAgree
  <2> DEFINE none(S) == [x \in S |-> 0]
  <2>1. ASSUME NEW S, IsFiniteSet(S), NEW f, \A x \in S : f[x] = 0
        PROVE  SumFunctionOnSet(f, S) = 0
    BY <2>1, SumRestrict, SumEmpty
  <2>2. \A o \in Obligations : SumFunction(applied[o]) = 0
    BY <1>2, <2>1, NumbersAre DEF SumFunction
  <2>3. SumFunction([o \in Obligations |-> SumFunction(applied[o])]) = 0
    BY <2>1, <2>2, FiniteTables DEF SumFunction
  <2>4. SumFunction(posted) = 0
    BY <1>2, <2>1, FiniteTables DEF SumFunction
  <2>5. \A a \in Accounts : balance[a] = Opening[a] - posted[a] - spent[a]
    BY <1>2, ObligationsAssumption
  <2> QED
    BY <2>3, <2>4, <2>5 DEF SumsAgree
<1>8. SessionTypes /\ \A s \in Sessions : Ready(s)
  BY <1>2 DEF SessionTypes, Ready, NoneSeen
<1> QED
  BY <1>1, <1>4, <1>6, <1>7, <1>8 DEF BookInv, Books

LEMMA BooksInductive == BookInv /\ [Next]_vars => BookInv'
<1> SUFFICES ASSUME BookInv, [Next]_vars PROVE BookInv'
  OBVIOUS
<1>1. PayInv'
  BY PayInductive DEF BookInv
<1>2. BookBase /\ \A s \in Sessions : Own(s) /\ Ready(s)
  BY PayParts DEF BookInv, BookBase
<1>3. ASSUME NEW s \in Sessions, ClientStep(s) PROVE BookInv'
  <2>1. Books' /\ SessionTypes' /\ Ready(s)'
    BY <1>2, <1>3, ClientBooks, ClientTypes
  <2>2. \A t \in Sessions \ {s} : Kept(t)
    BY <1>2, <1>3, ClientKeeps DEF BookBase, Achieves
  <2>3. \A t \in Sessions : Ready(t)'
    BY <1>2, <2>1, <2>2, KeptReady
  <2> QED
    BY <1>1, <2>1, <2>3 DEF BookInv
<1>4. CASE OtherServices \/ NextDay \/ UNCHANGED vars
  <2>1. Books'
    <3>1. CASE OtherServices
      BY <1>2, <3>1, OtherBooks DEF BookBase
    <3>2. CASE NextDay
      BY <1>2, <3>2, DayBooks DEF BookBase, NextDay
    <3>3. CASE UNCHANGED vars
      BY <1>2, <3>3, QuietBooks DEF BookBase, vars, tableVars
    <3> QED
      BY <1>4, <3>1, <3>2, <3>3
  <2>2. UNCHANGED <<seen, funds>> /\ \A t \in Sessions : Kept(t)
    <3>1. UNCHANGED sessionVars
      BY <1>4 DEF OtherServices, Spend, Archive, NextDay, vars
    <3>2. \A t \in Sessions : Kept(t)
      BY <1>2, <1>4, OthersKeep DEF BookBase, NextDay, vars
    <3> QED
      BY <3>1, <3>2 DEF sessionVars
  <2> QED
    BY <1>1, <1>2, <2>1, <2>2, KeptReady DEF BookInv, BookBase, SessionTypes
<1> QED
  BY <1>3, <1>4 DEF Next

(***************************************************************************)
(* Rows, books and sessions together: the invariant that the theorems      *)
(* below read off.                                                         *)
(***************************************************************************)
THEOREM BooksInvariant == Spec => []BookInv
<1> QED
  BY BooksInitially, BooksInductive, PTL DEF Spec

LEMMA TypesRead == RequestTypes /\ Books /\ SessionTypes => ObligationsTypeOK
<1> SUFFICES ASSUME RequestTypes, Books, SessionTypes PROVE ObligationsTypeOK
  OBVIOUS
<1>1. \A o \in Obligations : \A n \in Numbers : Remaining(obligation[o], n) >= 0
  BY RemainingIs DEF Books, RowsSound
<1> QED
  BY <1>1 DEF ObligationsTypeOK, RequestTypes, Books, TableTypes, SessionTypes

(***************************************************************************)
(* The type invariant, with the check constraint of the periods: nothing   *)
(* is ever paid beyond the amount of a period.                             *)
(***************************************************************************)
THEOREM ObligationTypes == Spec => []ObligationsTypeOK
<1>1. BookInv => ObligationsTypeOK
  BY TypesRead DEF BookInv, PayInv
<1> QED
  BY <1>1, BooksInvariant, PTL

(***************************************************************************)
(* Accounts, ledger events, payments and periods tell one story, whichever *)
(* API served the payments and however they raced.                         *)
(***************************************************************************)
THEOREM MoneyAlwaysAddsUp == Spec => []MoneyAddsUp
<1>1. BookInv => MoneyAddsUp
  BY DEF BookInv, Books, MoneyAddsUp, SumsAgree, RowsSound, RowSound, PeriodSound
<1> QED
  BY <1>1, BooksInvariant, PTL

(***************************************************************************)
(* An obligation is completed exactly when nothing is left to pay, and its *)
(* periods are created without gaps and within its terms.                  *)
(***************************************************************************)
THEOREM LifeCycleStaysSound == Spec => []LifeCycleIsSound
<1>1. BookInv => LifeCycleIsSound
  BY DEF BookInv, Books, LifeCycleIsSound, RowsSound, RowSound, LifeSound, Bounded
<1> QED
  BY <1>1, BooksInvariant, PTL

(***************************************************************************)
(* What is closed stays: no operation, of either API, reopens, charges or  *)
(* reprices a closed period, nor reprices a partly paid one unless its     *)
(* amounts vary, nor revives an obligation that has ended.                 *)
(***************************************************************************)
THEOREM HistoryStays == Spec => HistoryIsKept
<1> DEFINE Keeps ==
      \A o \in Obligations :
         /\ obligation[o].status \in {"completed", "cancelled"} =>
              obligation'[o].status = obligation[o].status
         /\ \A n \in Numbers :
              LET p == obligation[o].periods[n]
                  q == obligation'[o].periods[n]
              IN  /\ p.status \in Closed => q.status \in Closed
                                            /\ q.amount = p.amount /\ q.paid = p.paid
                  /\ p.paid > 0 /\ q.amount # p.amount =>
                       Terms[o].amounts = "variable" /\ q.amount >= p.paid
<1>1. BookInv /\ [Next]_vars => [Keeps]_vars
  <2> SUFFICES ASSUME BookInv, Next PROVE Keeps
    OBVIOUS
  <2>1. RowsFollow => Keeps
    BY DEF RowsFollow, Follows, Lasting, History
  <2>2. UNCHANGED obligation => Keeps
    BY DEF Closed
  <2> HIDE DEF Keeps
  <2> QED
    BY <2>1, <2>2, ClientBooks, OtherBooks, PayParts DEF Next, NextDay, tableVars, BookInv, BookBase
<1>2. [][Keeps]_vars => HistoryIsKept
  BY PTL DEF HistoryIsKept
<1> HIDE DEF Keeps
<1> QED
  BY <1>1, <1>2, BooksInvariant, PTL DEF Spec

(***************************************************************************)
(* A split payment reaches a period only when nothing older is left        *)
(* payable, though the older API orders the periods by status.             *)
(***************************************************************************)
THEOREM OldestComeFirst == Spec => OldestFirst
<1> DEFINE InOrder ==
      \A s \in Sessions :
         req[s] # Nothing /\ req[s].op \in PayOps \ SingleOps =>
            LET o == req[s].obl IN
            \A n \in Numbers : pc'[s] = "idle" /\ applied'[o][n] > applied[o][n] =>
                \A m \in Numbers : m < n =>
                    obligation'[o].periods[m].status \notin Payable
<1>1. BookInv /\ [Next]_vars => [InOrder]_vars
  <2> SUFFICES ASSUME BookInv, Next, NEW s \in Sessions,
                      req[s] # Nothing, req[s].op \in PayOps \ SingleOps, pc'[s] = "idle",
                      NEW n \in Numbers, applied'[req[s].obl][n] > applied[req[s].obl][n],
                      NEW m \in Numbers, m < n
               PROVE  obligation'[req[s].obl].periods[m].status \notin Payable
    OBVIOUS
  <2>1. pc[s] # "idle" /\ req[s] \in Requests /\ pc \in [Sessions -> {"idle", "root", "account"}]
    <3>1. pc[s] # "idle" /\ Own(s)
      BY PayParts DEF BookInv, Ready
    <3> QED
      BY <3>1 DEF Own, BookInv, PayInv, RequestTypes
  <2>2. ClientStep(s)
    <3>1. ASSUME NEW t \in Sessions, ClientStep(t) PROVE t = s
      BY <2>1, <3>1, ClientKeeps, PayParts DEF BookInv, Achieves, Kept
    <3>2. ~OtherServices /\ ~NextDay
      BY <2>1 DEF OtherServices, Spend, Archive, NextDay, sessionVars
    <3> QED
      BY <3>1, <3>2 DEF Next
  <2>3. applied' # applied
    <3> SUFFICES ASSUME applied' = applied PROVE FALSE
      OBVIOUS
    <3>1. applied[req[s].obl][n] > applied[req[s].obl][n]
      OBVIOUS
    <3> DEFINE x == applied[req[s].obl][n]
    <3>2. x \in Nat => ~(x > x)
      OBVIOUS
    <3>3. x \in Nat
      BY <2>1, RequestRows DEF BookInv, Books, TableTypes
    <3> QED
      BY <3>1, <3>2, <3>3
  <2>4. Pay(s)
    BY <2>2, <2>3
    DEF ClientStep, Serve, EarlyReplay, Begin, LockRoot, RootReplay, LockAccount, Edit,
        RefreshAll, Refuse, Fail, tableVars
  <2>5. PaysFrom(s)
    BY <2>4, BasisSound, PayParts DEF BookInv, Pay, Payment
  <2> QED
    BY <2>4, <2>5, PayBooks DEF BookInv
<1>2. [][InOrder]_vars => OldestFirst
  BY PTL DEF OldestFirst
<1> HIDE DEF InOrder
<1> QED
  BY <1>1, <1>2, BooksInvariant, PTL DEF Spec

-----------------------------------------------------------------------------
(* Waiting *)

(***************************************************************************)
(* Obligations are locked in the order of their ids, and an account last.  *)
(***************************************************************************)
LocksInOrder ==
    \A t \in Sessions :
        /\ \A o \in Obligations : lock[o] = t =>
             pc[t] # "idle" /\ \A p \in todo[t] : IdOrder[o] < IdOrder[p]
        /\ \A a \in Accounts : lock[a] = t => pc[t] = "account"

WaitInv == PayInv /\ LocksInOrder

LEMMA LocksInOrderKept ==
    ASSUME WaitInv, [Next]_vars
    PROVE  LocksInOrder'
<1>1. RequestTypes /\ LocksInOrder /\ \A t \in Sessions : Own(t)
  BY PayParts DEF WaitInv, PayBase
<1>2. CASE UNCHANGED sessionVars
  BY <1>1, <1>2 DEF sessionVars, LocksInOrder
<1>3. ASSUME NEW s \in Sessions, Leave(s) PROVE LocksInOrder'
  <2>1. /\ \A row \in Rows : lock'[row] = IF lock[row] = s THEN Nobody ELSE lock[row]
        /\ \A t \in Sessions \ {s} : pc'[t] = pc[t] /\ todo'[t] = todo[t]
    BY <1>1, <1>3 DEF Leave, ReleaseAll, RequestTypes, LockTypeOK
  <2> QED
    BY <1>1, <2>1, NobodyAssumption, ObligationsAssumption DEF LocksInOrder
<1>4. ASSUME NEW s \in Sessions, NEW r \in Requests, Begin(s, r) PROVE LocksInOrder'
  <2>1. /\ pc[s] = "idle" /\ UNCHANGED lock
        /\ \A t \in Sessions \ {s} : pc'[t] = pc[t] /\ todo'[t] = todo[t]
    BY <1>1, <1>4 DEF Begin, RequestTypes
  <2> QED
    BY <1>1, <2>1 DEF LocksInOrder
<1>5. ASSUME NEW s \in Sessions, LockRoot(s) PROVE LocksInOrder'
  <2> DEFINE o == NextRoot(s)
  <2>1. todo[s] # {} /\ todo[s] \in SUBSET Obligations
    BY <1>1, <1>5 DEF LockRoot, RequestTypes
  <2>2. /\ o \in todo[s] /\ o \in Obligations
        /\ \A p \in todo[s] \ {o} : IdOrder[o] < IdOrder[p]
    <3>1. o \in todo[s] /\ o \in Obligations /\ \A p \in todo[s] : IdOrder[o] <= IdOrder[p]
      BY <2>1, NextRootIn
    <3>2. \A p \in Obligations : IdOrder[p] \in Nat /\ (IdOrder[o] = IdOrder[p] => o = p)
      BY <3>1, ObligationsAssumption
    <3> HIDE DEF o
    <3> QED
      BY <2>1, <3>1, <3>2
  <2>3. /\ UNCHANGED pc /\ pc[s] = "root"
        /\ todo'[s] = todo[s] \ {o} /\ \A t \in Sessions \ {s} : todo'[t] = todo[t]
        /\ lock' = lock \/ lock' = [lock EXCEPT ![o] = s]
    BY <1>1, <1>5 DEF LockRoot, Take, RequestTypes
  <2>4. \A row \in Rows : lock'[row] = lock[row] \/ (row = o /\ lock'[row] = s)
    BY <1>1, <2>3 DEF RequestTypes, LockTypeOK
  <2> HIDE DEF o
  <2> QED
    BY <1>1, <2>2, <2>3, <2>4, ObligationsAssumption DEF LocksInOrder
<1>6. ASSUME NEW s \in Sessions, LockAccount(s) PROVE LocksInOrder'
  <2> DEFINE a == req[s].acct
  <2>1. pc[s] = "root" /\ todo[s] = {} /\ req[s].op \in PayOps
    BY <1>6 DEF LockAccount, AtRoot, MayPay
  <2>2. a \in Accounts /\ a \notin Obligations
    <3>1. req[s] \in Requests
      BY <1>1, <2>1 DEF Own
    <3> QED
      BY <2>1, <3>1, RequestRows, ObligationsAssumption
  <2>3. /\ UNCHANGED todo /\ lock' = [lock EXCEPT ![a] = s]
        /\ pc' = [pc EXCEPT ![s] = "account"]
    BY <1>6 DEF LockAccount, Take
  <2>4. pc'[s] = "account" /\ \A t \in Sessions \ {s} : pc'[t] = pc[t]
    BY <1>1, <2>3 DEF RequestTypes
  <2>5. \A row \in Rows : lock'[row] = lock[row] \/ (row = a /\ lock'[row] = s)
    BY <1>1, <2>3 DEF RequestTypes, LockTypeOK
  <2> HIDE DEF a
  <2> QED
    BY <1>1, <2>1, <2>2, <2>3, <2>4, <2>5, ObligationsAssumption DEF LocksInOrder
<1>7. ASSUME NEW s \in Sessions, ClientStep(s) PROVE LocksInOrder'
  BY <1>2, <1>3, <1>4, <1>5, <1>6, <1>7
  DEF ClientStep, Serve, EarlyReplay, RootReplay, Pay, Edit, RefreshAll, Refuse, Fail
<1> QED
  BY <1>2, <1>7 DEF Next, OtherServices, Spend, Archive, NextDay, vars

\* The last obligation anyone waits for is held by a session that waits for none.
LEMMA NobodyInCircle == WaitInv => NoObligationCircularWait
<1> SUFFICES ASSUME WaitInv, NEW S \in SUBSET Sessions, S # {},
                    \A s \in S : \E t \in S : WaitsFor(s, t)
             PROVE  FALSE
  BY DEF NoObligationCircularWait
<1>1. RequestTypes /\ LocksInOrder /\ \A t \in Sessions : Own(t)
  BY PayParts DEF WaitInv, PayBase
<1>2. ASSUME NEW s \in S, NEW t \in S, WaitsFor(s, t)
      PROVE  todo[s] # {} /\ lock[NextRoot(s)] = t
  <2> SUFFICES ASSUME AtRoot(s), req[s].op \in PayOps, lock[req[s].acct] = t PROVE FALSE
    BY <1>2 DEF WaitsFor
  <2>1. req[s].acct \in Accounts
    BY <1>1, RequestRows DEF Own, AtRoot
  <2>2. pc[t] = "account"
    BY <1>1, <2>1 DEF LocksInOrder
  <2>3. PICK u \in S : WaitsFor(t, u)
    OBVIOUS
  <2> QED
    BY <2>2, <2>3 DEF WaitsFor, AtRoot
<1> DEFINE awaited == {NextRoot(s) : s \in S}
<1>3. \A s \in S : todo[s] # {} /\ NextRoot(s) \in todo[s] /\ NextRoot(s) \in Obligations
  <2> SUFFICES ASSUME NEW s \in S
               PROVE  todo[s] # {} /\ NextRoot(s) \in todo[s] /\ NextRoot(s) \in Obligations
    OBVIOUS
  <2>1. todo[s] # {} /\ todo[s] \in SUBSET Obligations
    BY <1>1, <1>2 DEF RequestTypes
  <2> QED
    BY <2>1, NextRootIn
<1>4. /\ awaited # {} /\ IsFiniteSet(awaited) /\ \A o \in awaited : IdOrder[o] \in Int
  <2>1. awaited \subseteq Obligations
    BY <1>3
  <2>2. IsFiniteSet(awaited)
    BY <2>1, FS_Subset, FiniteTables
  <2> QED
    BY <2>1, <2>2, ObligationsAssumption
<1> HIDE DEF awaited
<1>5. PICK last \in awaited : \A o \in awaited : IdOrder[o] <= IdOrder[last]
  BY <1>4, LastExists
<1>6. PICK s \in S : NextRoot(s) = last
  BY DEF awaited
<1>7. PICK t \in S : WaitsFor(s, t)
  OBVIOUS
<1>8. IdOrder[last] < IdOrder[NextRoot(t)]
  BY <1>1, <1>2, <1>3, <1>6, <1>7 DEF LocksInOrder
<1>9. NextRoot(t) \in awaited
  BY DEF awaited
<1> QED
  BY <1>4, <1>5, <1>8, <1>9

LEMMA WaitInitially == Init => WaitInv
<1> SUFFICES ASSUME Init PROVE LocksInOrder
  BY PayInitially DEF WaitInv
<1>1. \A row \in Rows : lock[row] = Nobody
  BY DEF Init, LockInit
<1> QED
  BY <1>1, NobodyAssumption, ObligationsAssumption DEF LocksInOrder

(***************************************************************************)
(* Payments, which lock an obligation and then an account, and batch       *)
(* refreshes, which lock all obligations of a user, never wait for each    *)
(* other in a circle, whatever the number of sessions.                     *)
(***************************************************************************)
THEOREM NoCircleOfWaits == Spec => []NoObligationCircularWait
<1>1. WaitInv /\ [Next]_vars => WaitInv'
  BY LocksInOrderKept, PayInductive DEF WaitInv
<1> QED
  BY <1>1, WaitInitially, NobodyInCircle, PTL DEF Spec

-----------------------------------------------------------------------------
(* Automatic payments *)

(***************************************************************************)
(* A session of clients, and no automatic payment.                         *)
(***************************************************************************)
ClientOwn(c) == Own(c) /\ Ready(c) /\ (pc[c] # "idle" => req[c].op # "auto")

(***************************************************************************)
(* A processor that has locked its source: it holds what it will write, it *)
(* works on the rows of its obligation brought up to its day, and the      *)
(* period it pays is the oldest that is due on that day.                   *)
(***************************************************************************)
SourceHeld(w) ==
    LET o == job[w]
        r == req[w]
        row == seen[w][o]
    IN  /\ lock[o] = w /\ lock[r.acct] = w /\ funds[w] = balance[r.acct]
        /\ obligation[o].status = "active" /\ row = Synced(o, obligation[o], asOf[w])
        /\ r.n \in DueOn(o, row, asOf[w]) /\ row.periods[r.n].status \in Payable
        /\ \A m \in DueOn(o, row, asOf[w]) : r.n <= m

(***************************************************************************)
(* A processor: the configuration it has claimed is its own and stays      *)
(* enabled until it is done, and its request names the account of it.      *)
(***************************************************************************)
WorkerOwn(w) ==
    LET o == job[w] IN
    /\ asOf[w] <= today
    /\ stage[w] # "work" => pc[w] = "idle" /\ \A x \in Obligations : seen[w][x] = Nothing
    /\ stage[w] \in {"work", "persist"} => o \in Obligations /\ config[o] # Nothing
    /\ stage[w] = "work" =>
         /\ lock[ConfigRow(o)] = w /\ config[o].enabled
         /\ req[w] \in Requests /\ req[w].n \in Numbers
         /\ req[w] = AutoRequest(o, req[w].n, config[o].acct)
         /\ \/ pc[w] = "root" /\ Own(w)
            \/ pc[w] = "account" /\ SourceHeld(w)

\* A configuration names an account that its obligation may be paid from.
ConfigSound(o) ==
    config[o] # Nothing =>
        \A n \in Numbers : AutoRequest(o, n, config[o].acct) \in Requests

ConfigTypes ==
    /\ config \in [Obligations -> Config \cup {Nothing}]
    /\ attempts \in [Obligations -> SUBSET Attempts]
    /\ won \in [Obligations -> SUBSET Attempts]
    /\ \A o \in Obligations : won[o] \subseteq attempts[o]
    /\ wins \in [Obligations -> SUBSET Numbers]
    /\ faults \in 0 .. MaxFaults

WorkerTypes ==
    /\ stage \in [Workers -> {"off", "loop", "work", "persist"}]
    /\ asOf \in [Workers -> Days]
    /\ late \in [Workers -> BOOLEAN]
    /\ tried \in [Workers -> SUBSET Obligations]
    /\ job \in [Workers -> Obligations \cup {Nothing}]

AutoPayInv ==
    /\ BookBase /\ ConfigTypes /\ WorkerTypes /\ RunsMatchPayments
    /\ \A o \in Obligations : ConfigSound(o)
    /\ \A c \in Clients : ClientOwn(c)
    /\ \A w \in Workers : WorkerOwn(w)

(***************************************************************************)
(* An edit on its way: it names an account as a configuration does, and a  *)
(* configuration it has read is there for good.                            *)
(***************************************************************************)
EditSound(e) ==
    /\ \A n \in Numbers : AutoRequest(e.obl, n, e.row.acct) \in Requests
    /\ e.new \/ config[e.obl] # Nothing

EditsSound ==
    /\ puts \in Seq(PutEdit \cup {Sent}) /\ Len(puts) <= MaxPuts
    /\ \A k \in DOMAIN puts : puts[k] # Sent => EditSound(puts[k])

\* What a step leaves to a processor beside its session: the configuration it holds.
WorkerKept(t) ==
    /\ stage'[t] = stage[t] /\ asOf'[t] = asOf[t] /\ job'[t] = job[t] /\ today <= today'
    /\ \A o \in Obligations :
         /\ config[o] # Nothing => config'[o] # Nothing
         /\ lock[ConfigRow(o)] = t =>
              config'[o].acct = config[o].acct /\ config'[o].enabled = config[o].enabled

LEMMA Everyone ==
    /\ Clients \subseteq Sessions /\ Workers \subseteq Sessions
    /\ \A c \in Clients, w \in Workers : c # w
    /\ \A o \in Obligations : ConfigRow(o) \in Rows
  BY AutoPaymentsAssumption

LEMMA DaysAre ==
    /\ Days \subseteq Nat
    /\ TableTypes => today \in Nat
    /\ WorkerTypes => \A w \in Workers : asOf[w] \in Nat
  BY TermsAssumption DEF Days, TableTypes, WorkerTypes

LEMMA KeptClient ==
    ASSUME NEW c \in Clients, ClientOwn(c), Kept(c)
    PROVE  ClientOwn(c)'
<1>1. Own(c)' /\ Ready(c)'
  BY KeptOwn, KeptReady, Everyone DEF ClientOwn
<1> QED
  BY <1>1 DEF ClientOwn, Kept

LEMMA KeptSource ==
    ASSUME NEW w \in Workers, req[w] \in Requests, job[w] \in Obligations,
           req[w].op = "auto", SourceHeld(w), Kept(w),
           asOf'[w] = asOf[w], job'[w] = job[w]
    PROVE  SourceHeld(w)'
<1> DEFINE o == job[w]
           r == req[w]
<1>1. o \in Obligations /\ r.acct \in Accounts /\ o \in Rows /\ r.acct \in Rows
  BY RequestRows, ObligationsAssumption DEF PayOps
<1>2. lock'[o] = w /\ lock'[r.acct] = w /\ balance'[r.acct] = balance[r.acct]
      /\ obligation'[o] = obligation[o]
  BY <1>1 DEF SourceHeld, Kept
<1> QED
  BY <1>2 DEF SourceHeld, Kept

LEMMA KeptWorker ==
    ASSUME NEW w \in Workers, WorkerOwn(w), Kept(w), WorkerKept(w),
           today \in Int, today' \in Int, asOf[w] \in Int
    PROVE  WorkerOwn(w)'
<1> DEFINE o == job[w]
<1>1. /\ stage'[w] = stage[w] /\ job'[w] = o /\ asOf'[w] = asOf[w] /\ today <= today'
      /\ pc'[w] = pc[w] /\ req'[w] = req[w] /\ seen'[w] = seen[w]
  BY DEF WorkerKept, Kept
<1>2. asOf'[w] <= today'
  BY <1>1 DEF WorkerOwn
<1>3. stage[w] \in {"work", "persist"} => o \in Obligations /\ config'[o] # Nothing
  BY DEF WorkerOwn, WorkerKept
<1>4. ASSUME stage[w] = "work"
      PROVE  /\ lock'[ConfigRow(o)] = w /\ config'[o].enabled
             /\ req[w] \in Requests /\ req[w].n \in Numbers
             /\ req[w] = AutoRequest(o, req[w].n, config'[o].acct)
             /\ \/ pc[w] = "root" /\ Own(w)'
                \/ pc[w] = "account" /\ SourceHeld(w)'
  <2>1. /\ o \in Obligations /\ lock[ConfigRow(o)] = w /\ config[o].enabled
        /\ req[w] \in Requests /\ req[w].n \in Numbers
        /\ req[w] = AutoRequest(o, req[w].n, config[o].acct)
        /\ \/ pc[w] = "root" /\ Own(w)
           \/ pc[w] = "account" /\ SourceHeld(w)
    BY <1>4 DEF WorkerOwn
  <2>2. lock'[ConfigRow(o)] = w
    BY <2>1, Everyone DEF Kept
  <2>3. config'[o].acct = config[o].acct /\ config'[o].enabled = config[o].enabled
    BY <2>1 DEF WorkerKept
  <2>4. Own(w) => Own(w)'
    BY KeptOwn, Everyone
  <2>5. req[w].op = "auto"
    BY <2>1 DEF AutoRequest
  <2>6. SourceHeld(w) => SourceHeld(w)'
    BY <1>1, <2>1, <2>5, KeptSource
  <2> QED
    BY <2>1, <2>2, <2>3, <2>4, <2>6
<1>5. stage[w] # "work" => pc[w] = "idle" /\ \A x \in Obligations : seen[w][x] = Nothing
  BY DEF WorkerOwn
<1> QED
  BY <1>1, <1>2, <1>3, <1>4, <1>5 DEF WorkerOwn

\* A period that was paid automatically stays paid.
LEMMA MatchKept ==
    ASSUME RunsMatchPayments, ConfigTypes, RowsFollow, UNCHANGED wins,
           \A o \in Obligations, n \in Numbers, a \in Accounts :
              LET k == KeyOf(AutoRequest(o, n, a)) IN k \in Keys => recorded'[k] = recorded[k]
    PROVE  RunsMatchPayments'
<1>1. \A o \in Obligations : \A n \in Numbers :
        obligation[o].periods[n].status = "paid" => obligation'[o].periods[n].status = "paid"
  BY DEF RowsFollow, Follows, History
<1> QED
  BY <1>1 DEF RunsMatchPayments

-----------------------------------------------------------------------------
(* Steps beside the processors *)

LEMMA QuietWorkers ==
    ASSUME AutoPayInv, UNCHANGED <<today, configVars, workerVars>>
    PROVE  /\ ConfigTypes' /\ WorkerTypes' /\ \A o \in Obligations : ConfigSound(o)'
           /\ \A w \in Workers : WorkerKept(w)
<1>1. /\ ConfigTypes /\ WorkerTypes /\ \A o \in Obligations : ConfigSound(o)
      /\ TableTypes
  BY DEF AutoPayInv, BookBase, Books
<1>2. today \in Nat
  BY <1>1, DaysAre
<1> QED
  BY <1>1, <1>2 DEF configVars, workerVars, ConfigTypes, WorkerTypes, ConfigSound, WorkerKept

LEMMA ClientAutoStep ==
    ASSUME AutoPayInv, NEW c \in Clients, ClientStep(c), UNCHANGED <<configVars, workerVars>>
    PROVE  AutoPayInv'
<1>1. /\ BookBase /\ PayBase /\ Own(c) /\ Ready(c) /\ (pc[c] # "idle" => req[c].op # "auto")
      /\ RunsMatchPayments /\ ConfigTypes /\ WorkerTypes /\ RequestTypes /\ c \in Sessions
  BY Everyone DEF AutoPayInv, BookBase, ClientOwn, PayBase
<1>2. /\ Achieves(c) /\ RowsFollow /\ Books' /\ SessionTypes' /\ Ready(c)'
  BY <1>1, ClientKeeps, ClientBooks, ClientTypes
<1>3. UNCHANGED today
  BY DEF ClientStep, Serve, EarlyReplay, Begin, LockRoot, RootReplay, LockAccount, Pay, Edit,
         RefreshAll, Refuse, Fail
<1>4. /\ ConfigTypes' /\ WorkerTypes' /\ \A o \in Obligations : ConfigSound(o)'
      /\ \A w \in Workers : WorkerKept(w)
  BY <1>3, QuietWorkers
<1>5. ClientOwn(c)'
  <2>1. pc'[c] # "idle" => req'[c].op # "auto"
    <3>1. CASE Leave(c)
      BY <1>1, <3>1, LeaveFrame
    <3>2. CASE \E r \in Requests : Begin(c, r)
      BY <1>1, <3>2 DEF Begin, RequestTypes
    <3>3. CASE \E r \in Requests : EarlyReplay(c, r)
      BY <1>1, <3>3 DEF EarlyReplay, sessionVars
    <3>4. CASE LockRoot(c)
      BY <1>1, <3>4 DEF LockRoot
    <3>5. CASE LockAccount(c)
      BY <1>1, <3>5 DEF LockAccount, AtRoot
    <3> QED
      BY <3>1, <3>2, <3>3, <3>4, <3>5
      DEF ClientStep, Serve, RootReplay, Pay, Edit, RefreshAll, Refuse, Fail
  <2> QED
    BY <1>2, <2>1 DEF ClientOwn, Achieves
<1>6. RunsMatchPayments'
  <2>1. ASSUME NEW o \in Obligations, NEW n \in Numbers, NEW a \in Accounts
        PROVE  LET k == KeyOf(AutoRequest(o, n, a)) IN k \in Keys => recorded'[k] = recorded[k]
    <3>1. CASE Pay(c)
      <4>1. recorded' = IF Keyed(req[c]) THEN [recorded EXCEPT ![KeyOf(req[c])] = req[c]]
                        ELSE recorded
        BY <3>1 DEF Pay
      <4>2. req[c].op # "auto"
        BY <1>1, <3>1 DEF Pay, Payment
      <4>3. KeyOf(req[c]) # KeyOf(AutoRequest(o, n, a))
        BY <4>2 DEF KeyOf, AutoRequest, V17PayOps
      <4> QED
        BY <1>1, <4>1, <4>3 DEF RequestTypes
    <3>2. CASE UNCHANGED recorded
      BY <3>2
    <3> QED
      BY <3>1, <3>2
      DEF ClientStep, Serve, EarlyReplay, Begin, LockRoot, RootReplay, LockAccount, Edit,
          RefreshAll, Refuse, Fail, tableVars
  <2>2. UNCHANGED wins
    BY DEF configVars
  <2> QED
    BY <1>1, <1>2, <2>1, <2>2, MatchKept
<1>7. \A d \in Clients : ClientOwn(d)'
  BY <1>2, <1>5, KeptClient, Everyone DEF AutoPayInv, Achieves
<1>8. \A w \in Workers : WorkerOwn(w)'
  <2>1. today \in Int /\ today' \in Int /\ \A w \in Workers : asOf[w] \in Int
    BY <1>1, <1>3, DaysAre DEF BookBase, Books
  <2>2. \A w \in Workers : Kept(w)
    BY <1>2, Everyone DEF Achieves
  <2> QED
    BY <1>4, <2>1, <2>2, KeptWorker DEF AutoPayInv
<1> QED
  BY <1>2, <1>4, <1>6, <1>7, <1>8 DEF AutoPayInv, BookBase, Achieves

\* Another service spends or archives an account.
LEMMA OtherAutoStep ==
    ASSUME AutoPayInv, OtherServices, UNCHANGED <<configVars, workerVars>>
    PROVE  AutoPayInv'
<1>1. /\ BookBase /\ PayBase /\ Books /\ SessionTypes /\ RunsMatchPayments
      /\ ConfigTypes /\ WorkerTypes
  BY DEF AutoPayInv, BookBase
<1>2. /\ PayBase' /\ RowsFollow /\ Books' /\ \A t \in Sessions : Kept(t)
  BY <1>1, OthersKeep, OtherBooks
<1>3. UNCHANGED <<today, recorded, seen, funds>>
  BY DEF OtherServices, Spend, Archive, sessionVars
<1>4. /\ ConfigTypes' /\ WorkerTypes' /\ \A o \in Obligations : ConfigSound(o)'
      /\ \A w \in Workers : WorkerKept(w)
  BY <1>3, QuietWorkers
<1>5. BookBase'
  BY <1>1, <1>2, <1>3 DEF BookBase, SessionTypes
<1>6. RunsMatchPayments'
  BY <1>1, <1>2, <1>3, MatchKept DEF configVars
<1>7. \A d \in Clients : ClientOwn(d)'
  BY <1>2, KeptClient, Everyone DEF AutoPayInv
<1>8. \A w \in Workers : WorkerOwn(w)'
  <2>1. today \in Int /\ today' \in Int /\ \A w \in Workers : asOf[w] \in Int
    BY <1>1, <1>3, DaysAre DEF Books
  <2> QED
    BY <1>2, <1>4, <2>1, KeptWorker, Everyone DEF AutoPayInv
<1> QED
  BY <1>4, <1>5, <1>6, <1>7, <1>8 DEF AutoPayInv

(***************************************************************************)
(* A step that leaves sessions and tables alone: the days, configurations  *)
(* and processors it may change.                                           *)
(***************************************************************************)
LEMMA AsideStep ==
    ASSUME AutoPayInv, UNCHANGED <<tableVars, sessionVars, wins>>, Books',
           today' \in Int, today <= today',
           ConfigTypes', WorkerTypes', \A o \in Obligations : ConfigSound(o)',
           \A w \in Workers : WorkerKept(w) \/ WorkerOwn(w)'
    PROVE  AutoPayInv'
<1>1. /\ PayBase /\ Books /\ SessionTypes /\ RunsMatchPayments /\ WorkerTypes
  BY DEF AutoPayInv, BookBase
<1>2. PayBase' /\ \A t \in Sessions : Kept(t)
  BY <1>1, OthersKeep
<1>3. UNCHANGED <<obligation, recorded, seen, funds>>
  BY DEF tableVars, sessionVars
<1>4. BookBase'
  BY <1>1, <1>2, <1>3 DEF BookBase, SessionTypes
<1>5. RunsMatchPayments'
  BY <1>1, <1>3 DEF RunsMatchPayments
<1>6. \A d \in Clients : ClientOwn(d)'
  BY <1>2, KeptClient, Everyone DEF AutoPayInv
<1>7. \A w \in Workers : WorkerOwn(w)'
  <2>1. today \in Int /\ \A w \in Workers : asOf[w] \in Int
    BY <1>1, DaysAre DEF Books
  <2> QED
    BY <1>2, <2>1, KeptWorker, Everyone DEF AutoPayInv
<1> QED
  BY <1>4, <1>5, <1>6, <1>7 DEF AutoPayInv

\* What an edit makes of a row.
LEMMA MergedIs ==
    ASSUME NEW e \in PutEdit, NEW row \in Config
    PROVE  /\ Merged(e, row) \in Config /\ e.row \in Config
           /\ Merged(e, row).acct \in {e.row.acct, row.acct}
  BY DEF Merged, PutEdit, Config

\* The owner's edit is written to a configuration that no evaluation has claimed.
LEMMA WritePutStep ==
    ASSUME AutoPayInv, EditsSound, NEW k \in DOMAIN puts, WritePut(k)
    PROVE  AutoPayInv'
<1> DEFINE e == puts[k]
           o == e.obl
           new == IF e.new THEN e.row ELSE Merged(e, config[o])
<1>1. /\ Books /\ TableTypes /\ ConfigTypes /\ WorkerTypes
      /\ \A x \in Obligations : ConfigSound(x)
  BY DEF AutoPayInv, BookBase, Books
<1>2. /\ e # Sent /\ lock[ConfigRow(o)] = Nobody /\ (e.new => config[o] = Nothing)
      /\ config' = [config EXCEPT ![o] = IF e.new THEN e.row ELSE Merged(e, @)]
      /\ UNCHANGED <<vars, attempts, won, wins, faults, workerVars>>
  BY DEF WritePut
<1>3. e \in PutEdit /\ EditSound(e) /\ o \in Obligations
  <2>1. e \in PutEdit \cup {Sent}
    BY DEF EditsSound
  <2> QED
    BY <1>2, <2>1 DEF EditsSound, PutEdit
<1>4. new \in Config /\ (new.acct = e.row.acct \/ (config[o] # Nothing /\ new.acct = config[o].acct))
  <2>1. CASE e.new
    BY <1>3, <2>1 DEF PutEdit
  <2>2. CASE ~e.new
    <3>1. config[o] # Nothing
      BY <1>3, <2>2 DEF EditSound
    <3>2. config[o] \in Config
      BY <1>1, <1>3, <3>1 DEF ConfigTypes
    <3>3. Merged(e, config[o]) \in Config
          /\ Merged(e, config[o]).acct \in {e.row.acct, config[o].acct}
      BY <1>3, <3>2, MergedIs
    <3> QED
      BY <2>2, <3>1, <3>3
  <2> QED
    BY <2>1, <2>2
<1>5. config' = [config EXCEPT ![o] = new]
  BY <1>2
<1> HIDE DEF new, e
<1>6. /\ config' \in [Obligations -> Config \cup {Nothing}] /\ config'[o] = new
      /\ \A x \in Obligations \ {o} : config'[x] = config[x]
  BY <1>1, <1>3, <1>4, <1>5 DEF ConfigTypes
<1>7. ConfigTypes'
  BY <1>1, <1>2, <1>6 DEF ConfigTypes
<1>8. WorkerTypes' /\ Books' /\ UNCHANGED <<today, tableVars, sessionVars>>
  BY <1>1, <1>2, QuietBooks DEF WorkerTypes, workerVars, vars, tableVars
<1>9. \A x \in Obligations : ConfigSound(x)'
  <2>1. \A n \in Numbers : AutoRequest(o, n, new.acct) \in Requests
    BY <1>1, <1>3, <1>4 DEF ConfigSound, EditSound
  <2> QED
    BY <1>1, <1>6, <2>1 DEF ConfigSound
<1>10. \A w \in Workers : WorkerKept(w)
  <2>1. \A w \in Workers : lock[ConfigRow(o)] # w
    BY <1>2, NobodyAssumption, Everyone
  <2>2. today \in Nat /\ new # Nothing
    BY <1>1, <1>4, DaysAre, AutoPaymentsAssumption
  <2> QED
    BY <1>2, <1>6, <1>8, <2>1, <2>2 DEF WorkerKept, workerVars
<1> QED
  BY <1>1, <1>2, <1>7, <1>8, <1>9, <1>10, DaysAre, AsideStep

\* It is read, and the rest is left alone.
LEMMA ReadPutStep ==
    ASSUME AutoPayInv, NEW p \in Puts, ReadPut(p)
    PROVE  AutoPayInv'
<1>1. UNCHANGED <<vars, config, attempts, won, wins, faults, workerVars>>
  BY DEF ReadPut
<1>2. Books /\ TableTypes /\ ConfigTypes /\ WorkerTypes /\ \A x \in Obligations : ConfigSound(x)
  BY DEF AutoPayInv, BookBase, Books
<1>3. /\ WorkerTypes' /\ ConfigTypes' /\ Books' /\ UNCHANGED <<today, tableVars, sessionVars>>
      /\ \A x \in Obligations : ConfigSound(x)'
  BY <1>1, <1>2, QuietBooks DEF WorkerTypes, workerVars, vars, tableVars, ConfigTypes, ConfigSound
<1>4. today \in Nat
  BY <1>2, DaysAre
<1>5. \A w \in Workers : WorkerKept(w)
  BY <1>1, <1>3, <1>4 DEF WorkerKept, workerVars
<1> QED
  BY <1>1, <1>3, <1>4, <1>5, AsideStep

\* A processor starts, or has nothing left to do.
LEMMA StartStep ==
    ASSUME AutoPayInv, NEW w \in Workers, Start(w) \/ Finish(w)
    PROVE  AutoPayInv'
<1>1. /\ Books /\ TableTypes /\ ConfigTypes /\ WorkerTypes
      /\ \A o \in Obligations : ConfigSound(o)
  BY DEF AutoPayInv, BookBase, Books
<1>2. UNCHANGED <<vars, configVars, job>>
  BY DEF Start, Finish
<1>3. /\ WorkerTypes' /\ stage'[w] \in {"off", "loop"} /\ asOf'[w] \in {0, today}
      /\ \A t \in Workers \ {w} : stage'[t] = stage[t] /\ asOf'[t] = asOf[t]
  <2>1. today \in Days /\ 0 \in Days
    BY <1>1, TermsAssumption DEF TableTypes, Days
  <2>2. CASE Start(w)
    BY <1>1, <1>2, <2>1, <2>2 DEF Start, WorkerTypes
  <2>3. CASE Finish(w)
    BY <1>1, <1>2, <2>1, <2>3 DEF Finish, Stop, WorkerTypes
  <2> QED
    BY <2>2, <2>3
<1>4. today \in Nat /\ UNCHANGED <<today, config, tableVars, sessionVars, wins>> /\ Books'
  BY <1>1, <1>2, DaysAre, QuietBooks DEF vars, tableVars, configVars
<1>5. ConfigTypes' /\ \A o \in Obligations : ConfigSound(o)'
  BY <1>1, <1>2 DEF configVars, ConfigTypes, ConfigSound
<1>6. WorkerOwn(w)'
  <2>1. stage[w] # "work" /\ WorkerOwn(w)
    BY DEF Start, Finish, AutoPayInv
  <2>2. pc[w] = "idle" /\ \A x \in Obligations : seen[w][x] = Nothing
    BY <2>1 DEF WorkerOwn
  <2> QED
    BY <1>3, <1>4, <2>2 DEF WorkerOwn, sessionVars
<1>7. \A t \in Workers \ {w} : WorkerKept(t)
  BY <1>2, <1>3, <1>4 DEF WorkerKept
<1> QED
  BY <1>3, <1>4, <1>5, <1>6, <1>7, AsideStep

-----------------------------------------------------------------------------
(* The steps of a processor *)

\* A step of a processor that keeps its own part, and what others hold.
LEMMA WorkerStepKeeps ==
    ASSUME AutoPayInv, NEW w \in Workers, BookBase', UNCHANGED today,
           \A t \in Sessions \ {w} : Kept(t),
           ConfigTypes', WorkerTypes', RunsMatchPayments',
           \A o \in Obligations : ConfigSound(o)',
           \A t \in Workers \ {w} : WorkerKept(t), WorkerOwn(w)'
    PROVE  AutoPayInv'
<1>1. \A c \in Clients : ClientOwn(c)'
  <2>1. \A c \in Clients : c \in Sessions \ {w}
    BY Everyone
  <2> QED
    BY <2>1, KeptClient DEF AutoPayInv
<1>2. \A t \in Workers \ {w} : WorkerOwn(t)'
  <2>1. today \in Int /\ today' \in Int /\ \A t \in Workers : asOf[t] \in Int
    BY DaysAre DEF AutoPayInv, BookBase, Books
  <2>2. \A t \in Workers \ {w} : Kept(t)
    BY Everyone
  <2> QED
    BY <2>1, <2>2, KeptWorker DEF AutoPayInv
<1> QED
  BY <1>1, <1>2 DEF AutoPayInv

\* The configuration of a job changes, but not the account it names.
LEMMA JobConfig ==
    ASSUME AutoPayInv, NEW w \in Workers, stage[w] \in {"work", "persist"},
           lock[ConfigRow(job[w])] \in {w, Nobody},
           NEW next \in Dates \cup {Nothing}, NEW enabled \in BOOLEAN,
           \/ config' = [config EXCEPT ![job[w]].next = next, ![job[w]].enabled = enabled]
           \/ config' = [config EXCEPT ![job[w]].next = next]
           \/ config' = config
    PROVE  /\ config' \in [Obligations -> Config \cup {Nothing}]
           /\ \A o \in Obligations : ConfigSound(o)'
           /\ \A o \in Obligations : config[o] # Nothing => config'[o] # Nothing
           /\ \A t \in Workers \ {w} : \A o \in Obligations :
                lock[ConfigRow(o)] = t =>
                   config'[o].acct = config[o].acct /\ config'[o].enabled = config[o].enabled
<1> DEFINE o == job[w]
<1>1. /\ o \in Obligations /\ config[o] # Nothing
      /\ config \in [Obligations -> Config \cup {Nothing}]
      /\ \A x \in Obligations : ConfigSound(x)
  BY DEF AutoPayInv, WorkerOwn, ConfigTypes
<1>2. config[o] \in Config
  BY <1>1
<1>3. /\ \A x \in Obligations \ {o} : config'[x] = config[x]
      /\ config'[o] \in Config /\ config'[o].acct = config[o].acct
      /\ config' \in [Obligations -> Config \cup {Nothing}]
  <2>1. CASE config' = [config EXCEPT ![o].next = next, ![o].enabled = enabled]
    <3> DEFINE new == [[config[o] EXCEPT !.next = next] EXCEPT !.enabled = enabled]
    <3>1. new \in Config /\ new.acct = config[o].acct
      BY <1>2 DEF Config
    <3>2. config' = [config EXCEPT ![o] = new]
      BY <1>1, <2>1
    <3> HIDE DEF new
    <3> QED
      BY <1>1, <3>1, <3>2
  <2>2. CASE config' = [config EXCEPT ![o].next = next]
    <3> DEFINE new == [config[o] EXCEPT !.next = next]
    <3>1. new \in Config /\ new.acct = config[o].acct
      BY <1>2 DEF Config
    <3>2. config' = [config EXCEPT ![o] = new]
      BY <1>1, <2>2
    <3> HIDE DEF new
    <3> QED
      BY <1>1, <3>1, <3>2
  <2>3. CASE config' = config
    BY <1>1, <1>2, <2>3
  <2> QED
    BY <2>1, <2>2, <2>3
<1>4. config'[o] # Nothing
  BY <1>3, AutoPaymentsAssumption
<1>5. \A t \in Workers \ {w} : lock[ConfigRow(o)] # t
  BY NobodyAssumption, Everyone
<1> QED
  BY <1>1, <1>3, <1>4, <1>5 DEF ConfigSound

(***************************************************************************)
(* The longest due configuration: the earliest date, then the least id.    *)
(***************************************************************************)
LEMMA NextConfigIn ==
    ASSUME ConfigTypes, NEW w \in Workers, Eligible(w) # {}
    PROVE  NextConfig(w) \in Eligible(w)
<1> DEFINE S == Eligible(w)
           date(o) == NextAt(o)
           dates == {date(o) + 2 : o \in S}
<1>1. S \subseteq Obligations /\ \A o \in S : date(o) \in -2 .. 1
  <2>1. \A o \in S : o \in Obligations /\ config[o] # Nothing
    BY DEF Eligible, Due, Enabled
  <2>2. \A o \in S : config[o].next \in Dates \cup {Nothing}
    BY <2>1 DEF ConfigTypes, Config
  <2> QED
    BY <2>1, <2>2 DEF NextAt, Dates
<1> HIDE DEF S
<1>2. dates \in SUBSET Nat /\ dates # {}
  <2>1. S # {}
    BY DEF S
  <2> QED
    BY <1>1, <2>1 DEF date
<1>3. PICK d \in dates : \A e \in dates : d <= e
  BY <1>2, LeastNat
<1> DEFINE First == {o \in S : date(o) + 2 = d}
           ids == {IdOrder[o] : o \in First}
<1>4. ids \in SUBSET Nat /\ ids # {}
  BY <1>1, <1>3, ObligationsAssumption
<1>5. PICK i \in ids : \A j \in ids : i <= j
  BY <1>4, LeastNat
<1>6. PICK o \in First : IdOrder[o] = i
  BY <1>5
<1>7. ASSUME NEW p \in S
      PROVE  date(o) < date(p) \/ (date(o) = date(p) /\ IdOrder[o] <= IdOrder[p])
  <2>1. date(o) \in Int /\ date(p) \in Int /\ date(o) <= date(p)
    <3>1. date(o) \in Int /\ date(p) \in Int /\ date(o) + 2 = d /\ date(p) + 2 \in dates
      BY <1>1, <1>6, <1>7
    <3>2. d <= date(p) + 2
      BY <1>3, <3>1
    <3> HIDE DEF date
    <3> QED
      BY <3>1, <3>2
  <2>2. date(o) = date(p) => IdOrder[o] <= IdOrder[p]
    <3>1. date(o) = date(p) => IdOrder[p] \in ids
      BY <1>6, <1>7
    <3> QED
      BY <1>5, <1>6, <3>1
  <2> HIDE DEF date
  <2> QED
    BY <2>1, <2>2
<1>8. \E x \in S : \A p \in S :
         NextAt(x) < NextAt(p) \/ (NextAt(x) = NextAt(p) /\ IdOrder[x] <= IdOrder[p])
  BY <1>6, <1>7
<1> QED
  BY <1>8 DEF NextConfig, S

\* A processor claims a configuration that is free, and leaves it as it is.
LEMMA ClaimStep ==
    ASSUME AutoPayInv, NEW w \in Workers, Claim(w)
    PROVE  AutoPayInv'
<1> DEFINE o == NextConfig(w)
           r == AutoRequest(o, 1, config[o].acct)
<1>1. /\ BookBase /\ PayBase /\ Books /\ SessionTypes /\ RequestTypes /\ TableTypes
      /\ ConfigTypes /\ WorkerTypes
      /\ RunsMatchPayments /\ WorkerOwn(w) /\ w \in Sessions
  BY Everyone DEF AutoPayInv, BookBase, PayBase, Books
<1>2. /\ stage[w] = "loop" /\ Take(w, ConfigRow(o))
      /\ job' = [job EXCEPT ![w] = o] /\ tried' = [tried EXCEPT ![w] = @ \cup {o}]
      /\ req' = [req EXCEPT ![w] = r] /\ todo' = [todo EXCEPT ![w] = {o}]
      /\ pc' = [pc EXCEPT ![w] = "root"] /\ stage' = [stage EXCEPT ![w] = "work"]
      /\ UNCHANGED <<today, tableVars, seen, funds, configVars, asOf, late>>
  BY DEF Claim
<1>3. o \in Obligations /\ Enabled(o) /\ lock[ConfigRow(o)] = Nobody
  <2>1. Eligible(w) # {}
    BY DEF Claim
  <2>2. o \in Eligible(w)
    BY <1>1, <2>1, NextConfigIn
  <2> HIDE DEF o
  <2> QED
    BY <2>2 DEF Eligible, Due
<1> HIDE DEF o
<1>4. /\ config[o] # Nothing /\ config[o].enabled /\ r \in Requests /\ r.obl = o /\ r.n = 1
      /\ r.op = "auto"
  BY <1>3, NumbersAre DEF AutoPayInv, ConfigSound, Enabled, AutoRequest
<1> HIDE DEF r
<1>5. LockTypeOK' /\ lock'[ConfigRow(o)] = w
      /\ \A x \in Rows, t \in Sessions : lock[x] = t => lock'[x] = t
  BY <1>1, <1>2, <1>3, Everyone, TakeFrame DEF Available
<1>6. pc[w] = "idle" /\ \A x \in Obligations : seen[w][x] = Nothing
  BY <1>1, <1>2 DEF WorkerOwn
<1>7. Own(w)
  BY <1>6 DEF Own
<1>8. Achieves(w)
  <2>1. UNCHANGED <<obligation, balance, recorded, told, seen, funds>>
    BY <1>2 DEF tableVars
  <2>2. {o} \in SUBSET Obligations /\ r.obl \in {o}
    BY <1>3, <1>4
  <2> QED
    BY <1>1, <1>2, <1>4, <1>5, <1>6, <1>7, <2>1, <2>2, BeginsKeeps
<1>9. Books'
  BY <1>1, <1>2, QuietBooks DEF tableVars
<1>10. BookBase'
  BY <1>1, <1>2, <1>8, <1>9 DEF BookBase, Achieves, SessionTypes
<1>11. UNCHANGED <<config, attempts, won, wins, faults, puts, obligation, recorded>>
  BY <1>2 DEF configVars, tableVars
<1>12. ConfigTypes' /\ RunsMatchPayments' /\ \A x \in Obligations : ConfigSound(x)'
  BY <1>1, <1>11 DEF ConfigTypes, RunsMatchPayments, ConfigSound, AutoPayInv
<1>13. WorkerTypes'
  BY <1>1, <1>2, <1>3 DEF WorkerTypes
<1>14. \A t \in Workers \ {w} : WorkerKept(t)
  <2>1. today \in Nat
    BY <1>1, DaysAre
  <2> QED
    BY <1>1, <1>2, <1>11, <2>1 DEF WorkerKept, WorkerTypes
<1>15. WorkerOwn(w)'
  <2>1. stage'[w] = "work" /\ job'[w] = o /\ asOf'[w] = asOf[w] /\ pc'[w] = "root"
        /\ req'[w] = r
    BY <1>1, <1>2 DEF WorkerTypes, RequestTypes
  <2>2. r = AutoRequest(o, r.n, config[o].acct) /\ r.n \in Numbers
    BY <1>4, NumbersAre DEF r
  <2> QED
    BY <1>1, <1>2, <1>3, <1>4, <1>5, <1>8, <1>11, <2>1, <2>2 DEF WorkerOwn, Achieves
<1> QED
  BY <1>2, <1>8, <1>10, <1>12, <1>13, <1>14, <1>15, WorkerStepKeeps DEF Achieves

\* It locks the obligation and reads it.
LEMMA LockObligationStep ==
    ASSUME AutoPayInv, NEW w \in Workers, LockObligation(w)
    PROVE  AutoPayInv'
<1>1. /\ BookBase /\ PayBase /\ Books /\ SessionTypes /\ RequestTypes /\ TableTypes
      /\ ConfigTypes /\ WorkerTypes
      /\ RunsMatchPayments /\ WorkerOwn(w) /\ w \in Sessions
  BY Everyone DEF AutoPayInv, BookBase, PayBase, Books
<1>2. /\ stage[w] = "work" /\ LockRoot(w) /\ pc[w] = "root"
      /\ UNCHANGED <<configVars, workerVars>>
      /\ UNCHANGED <<today, tableVars, pc, req, funds>>
  BY DEF LockObligation, LockRoot
<1>3. Own(w) /\ job[w] \in Obligations /\ lock[ConfigRow(job[w])] = w
  BY <1>1, <1>2 DEF WorkerOwn
<1>4. Achieves(w) /\ SessionTypes'
  BY <1>1, <1>2, <1>3, LockRootKeeps, LockRootTypes
<1>5. BookBase'
  BY <1>1, <1>2, <1>4, QuietBooks DEF BookBase, Achieves, tableVars
<1>6. ConfigTypes' /\ WorkerTypes' /\ (\A x \in Obligations : ConfigSound(x)')
      /\ \A t \in Workers : WorkerKept(t)
  BY <1>2, QuietWorkers
<1>7. RunsMatchPayments'
  BY <1>1, <1>2 DEF RunsMatchPayments, configVars, tableVars
<1>8. WorkerOwn(w)'
  <2>1. lock'[ConfigRow(job[w])] = w
    <3>1. NextRoot(w) \in Rows /\ Available(w, NextRoot(w))
      BY <1>1, NextRootIn, <1>2 DEF LockRoot, RequestTypes
    <3>2. CASE UNCHANGED lock
      BY <1>3, <3>2
    <3>3. CASE Take(w, NextRoot(w))
      BY <1>1, <1>3, <3>1, <3>3, TakeFrame, Everyone
    <3> QED
      BY <1>2, <3>2, <3>3 DEF LockRoot
  <2> QED
    BY <1>1, <1>2, <1>4, <2>1 DEF WorkerOwn, Achieves, configVars, workerVars
<1> QED
  BY <1>2, <1>4, <1>5, <1>6, <1>7, <1>8, WorkerStepKeeps DEF Achieves
-----------------------------------------------------------------------------
(* Periods brought up to the day of a processor *)

\* A row that one or two refreshes made of an active obligation.
Brought(o, ob, oc, now) ==
    /\ RowSound(o, oc, now) /\ oc.status = "active" /\ ~Settled(o, oc)
    /\ \A n \in Numbers : Aged(ob.periods[n], oc.periods[n])

LEMMA BroughtSelf ==
    ASSUME NEW o, NEW ob, NEW now, RowSound(o, ob, now), LifeSound(o, ob),
           ob.status = "active"
    PROVE  Brought(o, ob, ob, now)
<1>1. ~Settled(o, ob)
  BY DEF LifeSound
<1> QED
  BY <1>1 DEF Brought, Aged

LEMMA AgedTwice ==
    ASSUME NEW p, NEW q, NEW r, Aged(p, q), Aged(q, r)
    PROVE  Aged(p, r)
  BY DEF Aged, Closed

LEMMA BroughtOn ==
    ASSUME NEW o \in Obligations, NEW ob, NEW oc, NEW now \in Int, NEW day \in Int,
           day <= now, Brought(o, ob, oc, now)
    PROVE  Brought(o, ob, Synced(o, oc, day), now)
<1> DEFINE od == Synced(o, oc, day)
<1>1. RowSound(o, oc, now) /\ oc.status = "active" /\ ~Settled(o, oc)
      /\ \A n \in Numbers : Aged(ob.periods[n], oc.periods[n])
  BY DEF Brought
<1>2. RowSound(o, od, now) /\ od.status = "active"
      /\ \A n \in Numbers : Aged(oc.periods[n], od.periods[n])
  BY <1>1, SyncedSound
<1>3. ~Settled(o, od)
  BY <1>1, SyncedUnsettled
<1>4. \A n \in Numbers : Aged(ob.periods[n], od.periods[n])
  <2> HIDE DEF od
  <2> QED
    BY <1>1, <1>2, AgedTwice
<1> QED
  BY <1>2, <1>3, <1>4 DEF Brought

LEMMA BroughtFollows ==
    ASSUME NEW o, NEW ob, NEW oc, NEW now, RowSound(o, ob, now),
           ob.status = "active", Brought(o, ob, oc, now)
    PROVE  /\ Follows(o, ob, oc, now)
           /\ \A n \in Numbers : oc.periods[n].paid = ob.periods[n].paid
<1>1. RowSound(o, oc, now) /\ LifeSound(o, oc) /\ Lasting(ob, oc)
  BY DEF Brought, LifeSound, Lasting
<1>2. ASSUME NEW n \in Numbers
      PROVE  History(o, ob.periods[n], oc.periods[n])
             /\ oc.periods[n].paid = ob.periods[n].paid
  <2>1. Aged(ob.periods[n], oc.periods[n])
    BY DEF Brought
  <2> QED
    BY <2>1, RowSoundPeriod, AgedIsHistory DEF Aged
<1> QED
  BY <1>1, <1>2 DEF Follows

\* What a processor has locked, and what it makes of the row it has read.
LEMMA EvolvedIs ==
    ASSUME AutoPayInv, NEW w \in Workers, stage[w] = "work", AtRoot(w) \/ pc[w] = "account"
    PROVE  LET o == job[w] IN
           /\ o \in Obligations /\ lock[o] = w /\ req[w].obl = o /\ req[w].op = "auto"
           /\ seen[w][o].status = obligation[o].status
           /\ pc[w] = "root" => seen[w][o] = obligation[o]
           /\ obligation[o].status = "active" =>
                /\ Brought(o, obligation[o], seen[w][o], today)
                /\ Brought(o, obligation[o], Evolved(w), today)
<1> DEFINE o == job[w]
<1>1. /\ WorkerOwn(w) /\ TableTypes /\ RowsSound /\ w \in Sessions
      /\ today \in Int /\ asOf[w] \in Int
  BY DaysAre, Everyone DEF AutoPayInv, BookBase, Books
<1>2. /\ o \in Obligations /\ asOf[w] <= today
      /\ req[w].obl = o /\ req[w].op = "auto"
      /\ \/ pc[w] = "root" /\ Own(w)
         \/ pc[w] = "account" /\ SourceHeld(w)
  BY <1>1 DEF WorkerOwn, AutoRequest
<1>3. RowSound(o, obligation[o], today) /\ LifeSound(o, obligation[o])
  BY <1>1, <1>2 DEF RowsSound
<1>4. obligation[o].status = "active" => Brought(o, obligation[o], obligation[o], today)
  BY <1>3, BroughtSelf
<1>5. obligation[o].status = "active" =>
        Brought(o, obligation[o], Synced(o, obligation[o], asOf[w]), today)
  BY <1>1, <1>2, <1>4, BroughtOn
<1>6. /\ lock[o] = w /\ seen[w][o].status = obligation[o].status
      /\ pc[w] = "root" => seen[w][o] = obligation[o]
      /\ obligation[o].status = "active" => Brought(o, obligation[o], seen[w][o], today)
  <2>1. CASE pc[w] = "root"
    <3>1. lock[o] = w /\ seen[w][o] = obligation[o]
      BY <1>1, <1>2, <2>1, Deciding
    <3> QED
      BY <1>4, <3>1
  <2>2. CASE pc[w] = "account"
    <3>1. SourceHeld(w)
      BY <1>2, <2>2
    <3>2. lock[o] = w /\ obligation[o].status = "active"
          /\ seen[w][o] = Synced(o, obligation[o], asOf[w])
      BY <3>1 DEF SourceHeld
    <3>3. seen[w][o].status = "active"
      BY <1>5, <3>2 DEF Brought
    <3> QED
      BY <1>5, <2>2, <3>2, <3>3
  <2> QED
    BY <1>2, <2>1, <2>2
<1>7. obligation[o].status = "active" => Brought(o, obligation[o], Evolved(w), today)
  <2> HIDE DEF o
  <2> QED
    BY <1>1, <1>2, <1>6, BroughtOn DEF Evolved, o
<1> QED
  BY <1>2, <1>6, <1>7

\* The end of an evaluation that commits the refreshed periods.
LEMMA SyncKeeps ==
    ASSUME AutoPayInv, NEW w \in Workers, stage[w] = "work", AtRoot(w) \/ pc[w] = "account",
           obligation[job[w]].status = "active", Sync(w)
    PROVE  /\ Achieves(w) /\ RowsFollow /\ Books' /\ SessionTypes'
           /\ Leave(w) /\ UNCHANGED <<today, recorded>>
<1> DEFINE o == job[w]
           oc == Evolved(w)
<1>1. /\ PayBase /\ Books /\ TableTypes /\ RowsSound /\ SumsAgree /\ SessionTypes
      /\ RequestTypes /\ w \in Sessions
  BY Everyone DEF AutoPayInv, BookBase, Books, PayBase
<1>2. o \in Obligations /\ lock[o] = w /\ Brought(o, obligation[o], oc, today)
  BY EvolvedIs
<1>3. /\ obligation' = [obligation EXCEPT ![o] = oc] /\ Leave(w)
      /\ UNCHANGED <<today, balance, open, applied, posted, spent, recorded, told>>
  BY DEF Sync
<1>4. /\ Follows(o, obligation[o], oc, today)
      /\ \A n \in Numbers : oc.periods[n].paid = obligation[o].periods[n].paid
  <2>1. RowSound(o, obligation[o], today) /\ obligation[o].status = "active"
    BY <1>1, <1>2 DEF RowsSound
  <2> HIDE DEF oc
  <2> QED
    BY <1>2, <2>1, BroughtFollows
<1> HIDE DEF oc, o
<1>5. /\ obligation'[o] = oc /\ DOMAIN obligation' = Obligations
      /\ \A x \in Obligations \ {o} : obligation'[x] = obligation[x]
  BY <1>1, <1>2, <1>3 DEF TableTypes
<1>6. RowsFollow
  BY <1>1, <1>4, <1>5, SameFollows DEF RowsFollow, RowsSound
<1>7. Books'
  <2>1. obligation' \in [Obligations -> Row]
    <3>1. oc \in Row
      BY <1>4 DEF Follows, RowSound
    <3> QED
      BY <1>1, <1>3, <3>1 DEF TableTypes
  <2>2. RowsSound'
    <3>1. \A x \in Obligations : \A n \in Numbers :
            obligation'[x].periods[n].paid = obligation[x].periods[n].paid
      BY <1>4, <1>5
    <3> QED
      BY <1>1, <1>3, <1>6, <3>1 DEF RowsFollow, Follows, RowsSound
  <2> QED
    BY <1>1, <1>3, <2>1, <2>2 DEF Books, TableTypes, SumsAgree
<1>8. Achieves(w)
  <2>1. \A x \in Obligations : lock[x] # w => obligation'[x] = obligation[x]
    BY <1>2, <1>5
  <2> QED
    BY <1>1, <1>3, <1>5, <2>1, EndKeeps
<1> QED
  BY <1>1, <1>3, <1>6, <1>7, <1>8, LeaveTypes

(***************************************************************************)
(* A processor that ends its transaction, whatever it commits, is back in  *)
(* its loop, off, or about to record a failure.                            *)
(***************************************************************************)
LEMMA EndOfWork ==
    ASSUME AutoPayInv, NEW w \in Workers, Leave(w), Achieves(w), Books', UNCHANGED today,
           ConfigTypes', RunsMatchPayments', WorkerTypes',
           \A o \in Obligations : ConfigSound(o)',
           \A t \in Workers \ {w} : WorkerKept(t),
           asOf'[w] <= today, stage'[w] # "work",
           stage'[w] = "persist" => job'[w] \in Obligations /\ config'[job'[w]] # Nothing
    PROVE  AutoPayInv'
<1>1. w \in Sessions /\ SessionTypes /\ RequestTypes
  BY Everyone DEF AutoPayInv, BookBase, PayBase
<1>2. SessionTypes'
  BY <1>1, LeaveTypes
<1>3. pc'[w] = "idle" /\ \A x \in Obligations : seen'[w][x] = Nothing
  <2>1. pc'[w] = "idle" /\ seen'[w] = NoneSeen
    BY <1>1, LeaveFrame
  <2> QED
    BY <2>1 DEF NoneSeen
<1>4. WorkerOwn(w)'
  BY <1>3 DEF WorkerOwn
<1> QED
  BY <1>2, <1>4, WorkerStepKeeps DEF Achieves, BookBase

\* The runs of an evaluation: those of one obligation, on a day of the processor.
LEMMA RunTypes ==
    ASSUME AutoPayInv, NEW w \in Workers, NEW n \in {0} \cup Numbers, job[w] \in Obligations,
           \/ attempts' = [attempts EXCEPT ![job[w]] = @ \cup {Key(w, n)}]
           \/ UNCHANGED attempts,
           UNCHANGED won
    PROVE  /\ attempts' \in [Obligations -> SUBSET Attempts]
           /\ won' \in [Obligations -> SUBSET Attempts]
           /\ \A o \in Obligations : won'[o] \subseteq attempts'[o]
<1>1. ConfigTypes /\ WorkerTypes
  BY DEF AutoPayInv
<1>2. Key(w, n) \in Attempts
  BY <1>1 DEF Key, Attempts, Day, WorkerTypes
<1> QED
  BY <1>1, <1>2 DEF ConfigTypes
-----------------------------------------------------------------------------
(* The ends of an evaluation *)

LEMMA OldestIn ==
    ASSUME NEW T \in SUBSET Numbers, T # {}
    PROVE  Oldest(T) \in T /\ \A m \in T : Oldest(T) <= m
<1>1. T \in SUBSET Nat
  BY NumbersAre
<1>2. \E n \in T : \A m \in T : n <= m
  BY <1>1, LeastNat
<1> QED
  BY <1>2 DEF Oldest

\* A processor commits, and is back in its loop with the next evaluation.
LEMMA DoneKeeps ==
    ASSUME AutoPayInv, NEW w \in Workers, stage[w] = "work",
           Leave(w), Achieves(w), Books', UNCHANGED today, RunsMatchPayments',
           attempts' \in [Obligations -> SUBSET Attempts],
           won' \in [Obligations -> SUBSET Attempts],
           \A o \in Obligations : won'[o] \subseteq attempts'[o],
           wins' \in [Obligations -> SUBSET Numbers],
           NEW next \in Dates \cup {Nothing}, NEW enabled \in BOOLEAN, Done(w, next, enabled)
    PROVE  AutoPayInv'
<1>1. /\ ConfigTypes /\ WorkerTypes /\ WorkerOwn(w) /\ TableTypes
  BY DEF AutoPayInv, BookBase, Books
<1>2. /\ config' = [config EXCEPT ![job[w]].next = next, ![job[w]].enabled = enabled]
      /\ stage' = [stage EXCEPT ![w] = "loop"] /\ job' = [job EXCEPT ![w] = Nothing]
      /\ UNCHANGED <<asOf, late, tried, faults>>
  BY DEF Done
<1>3. lock[ConfigRow(job[w])] = w /\ asOf[w] <= today
  BY <1>1 DEF WorkerOwn
<1>4. /\ config' \in [Obligations -> Config \cup {Nothing}]
      /\ \A o \in Obligations : ConfigSound(o)'
      /\ \A o \in Obligations : config[o] # Nothing => config'[o] # Nothing
      /\ \A t \in Workers \ {w} : \A o \in Obligations :
           lock[ConfigRow(o)] = t =>
              config'[o].acct = config[o].acct /\ config'[o].enabled = config[o].enabled
  BY <1>2, <1>3, JobConfig
<1>5. ConfigTypes'
  BY <1>1, <1>2, <1>4 DEF ConfigTypes
<1>6. WorkerTypes' /\ stage'[w] = "loop" /\ asOf'[w] = asOf[w]
  BY <1>1, <1>2 DEF WorkerTypes
<1>7. \A t \in Workers \ {w} : WorkerKept(t)
  <2>1. today \in Nat
    BY <1>1, DaysAre
  <2> QED
    BY <1>1, <1>2, <1>4, <2>1 DEF WorkerKept, WorkerTypes
<1> QED
  BY <1>3, <1>4, <1>5, <1>6, <1>7, EndOfWork

\* The evaluations that move no money.
QuietEvaluation(w) ==
    \/ EndsInactive(w) \/ NothingDue(w) \/ AttemptedToday(w) \/ Undefined(w)
    \/ ClosedSource(w) \/ Insufficient(w)

LEMMA QuietEvaluationStep ==
    ASSUME AutoPayInv, NEW w \in Workers, QuietEvaluation(w)
    PROVE  AutoPayInv'
<1>1. /\ PayBase /\ Books /\ SessionTypes /\ RunsMatchPayments /\ ConfigTypes /\ WorkerTypes
      /\ WorkerOwn(w) /\ w \in Sessions
  BY Everyone DEF AutoPayInv, BookBase
<1>2. stage[w] = "work" /\ (AtRoot(w) \/ pc[w] = "account")
  BY DEF QuietEvaluation, EndsInactive, NothingDue, AttemptedToday, Undefined, ClosedSource,
         Insufficient, Attempting, Working, AtSource
<1>3. job[w] \in Obligations /\ req[w].n \in Numbers
  BY <1>1, <1>2 DEF WorkerOwn
<1>4. /\ Achieves(w) /\ RowsFollow /\ Books' /\ Leave(w) /\ UNCHANGED <<today, recorded>>
  <2>1. CASE EndsInactive(w)
    <3>1. Leave(w) /\ UNCHANGED <<today, tableVars>>
      BY <2>1 DEF EndsInactive
    <3> QED
      BY <1>1, <3>1, QuietEndKeeps, QuietBooks DEF tableVars
  <2>2. CASE ~EndsInactive(w)
    <3>1. Sync(w)
      BY <2>2 DEF QuietEvaluation, NothingDue, AttemptedToday, Undefined, ClosedSource,
         Insufficient
    <3>2. obligation[job[w]].status = "active"
      <4>1. CASE pc[w] = "account"
        BY <1>1, <1>2, <4>1 DEF WorkerOwn, SourceHeld
      <4>2. CASE pc[w] # "account"
        <5>1. seen[w][job[w]].status = "active"
          BY <2>2, <4>2 DEF QuietEvaluation, NothingDue, AttemptedToday, Undefined,
             ClosedSource, Insufficient, Attempting, AtSource
        <5> QED
          BY <1>2, <5>1, EvolvedIs
      <4> QED
        BY <4>1, <4>2
    <3> QED
      BY <1>2, <3>1, <3>2, SyncKeeps
  <2> QED
    BY <2>1, <2>2
<1>5. PICK n \in {0} \cup Numbers :
        /\ \/ attempts' = [attempts EXCEPT ![job[w]] = @ \cup {Key(w, n)}]
           \/ UNCHANGED attempts
        /\ UNCHANGED <<won, wins>>
  <2>1. ASSUME NEW n \in {0} \cup Numbers, Run(w, n)
        PROVE  /\ attempts' = [attempts EXCEPT ![job[w]] = @ \cup {Key(w, n)}]
               /\ UNCHANGED <<won, wins>>
    BY <2>1 DEF Run
  <2>2. CASE EndsInactive(w) \/ NothingDue(w)
    BY <2>1, <2>2 DEF EndsInactive, NothingDue
  <2>3. CASE AttemptedToday(w)
    BY <2>3 DEF AttemptedToday
  <2>4. CASE Undefined(w)
    <3>1. DuePeriods(w) \in SUBSET Numbers /\ DuePeriods(w) # {}
      BY <2>4 DEF Undefined, Attempting, DuePeriods, DueOn, Existing
    <3>2. Chosen(w) \in Numbers
      BY <3>1, OldestIn DEF Chosen
    <3> QED
      BY <2>1, <2>4, <3>2 DEF Undefined
  <2>5. CASE ClosedSource(w) \/ Insufficient(w)
    BY <1>3, <2>1, <2>5 DEF ClosedSource, Insufficient
  <2> QED
    BY <2>2, <2>3, <2>4, <2>5 DEF QuietEvaluation
<1>6. /\ attempts' \in [Obligations -> SUBSET Attempts]
      /\ won' \in [Obligations -> SUBSET Attempts]
      /\ \A o \in Obligations : won'[o] \subseteq attempts'[o]
  BY <1>3, <1>5, RunTypes
<1>7. wins' \in [Obligations -> SUBSET Numbers]
  BY <1>1, <1>5 DEF ConfigTypes
<1>8. RunsMatchPayments'
  BY <1>1, <1>4, <1>5, MatchKept
<1>9. PICK next \in Dates \cup {Nothing}, enabled \in BOOLEAN : Done(w, next, enabled)
  <2>1. Tomorrow(w) \/ Pause(w)
    BY DEF QuietEvaluation, EndsInactive, NothingDue, AttemptedToday, Undefined, ClosedSource,
       Insufficient
  <2>2. Day(w) + 1 \in Dates
    BY DEF Day, Dates
  <2> QED
    BY <2>1, <2>2 DEF Tomorrow, Pause
<1> QED
  BY <1>2, <1>4, <1>6, <1>7, <1>8, <1>9, DoneKeeps

-----------------------------------------------------------------------------
(* The payment *)

\* It locks the account with the oldest due period as its request.
LEMMA LockSourceStep ==
    ASSUME AutoPayInv, NEW w \in Workers, LockSource(w)
    PROVE  AutoPayInv'
<1> DEFINE o == job[w]
           a == req[w].acct
           n == Chosen(w)
           r == AutoRequest(o, n, a)
           row == Evolved(w)
<1>1. /\ BookBase /\ PayBase /\ Books /\ SessionTypes /\ RequestTypes /\ TableTypes
      /\ ConfigTypes /\ WorkerTypes
      /\ RunsMatchPayments /\ WorkerOwn(w) /\ w \in Sessions
  BY Everyone DEF AutoPayInv, BookBase, PayBase, Books
<1>2. /\ stage[w] = "work" /\ AtRoot(w) /\ pc[w] = "root" /\ seen[w][o].status = "active"
      /\ DuePeriods(w) # {} /\ row.periods[n].status \in Payable
      /\ Available(w, a) /\ Take(w, a)
      /\ funds' = [funds EXCEPT ![w] = balance[a]]
      /\ pc' = [pc EXCEPT ![w] = "account"]
      /\ req' = [req EXCEPT ![w] = r]
      /\ seen' = [seen EXCEPT ![w][o] = row]
      /\ UNCHANGED <<today, tableVars, todo, configVars, workerVars>>
  BY DEF LockSource, Attempting, Working, AtRoot
<1>3. /\ o \in Obligations /\ lock[o] = w /\ seen[w][o] = obligation[o]
      /\ obligation[o].status = "active"
      /\ Brought(o, obligation[o], row, today)
  BY <1>2, EvolvedIs
<1>4. /\ lock[ConfigRow(o)] = w /\ config[o].enabled /\ config[o] # Nothing
      /\ req[w] = AutoRequest(o, req[w].n, config[o].acct)
      /\ \A x \in Obligations \ {o} : seen[w][x] # Nothing => lock[x] = w
      /\ Own(w) /\ asOf[w] <= today
  BY <1>1, <1>2 DEF WorkerOwn, Own, RowIsCurrent
<1>5. DuePeriods(w) \in SUBSET Numbers /\ n \in DuePeriods(w)
      /\ \A m \in DuePeriods(w) : n <= m
  <2>1. DuePeriods(w) \in SUBSET Numbers
    BY DEF DuePeriods, DueOn, Existing
  <2> QED
    BY <1>2, <2>1, OldestIn DEF Chosen
<1>6. n \in Numbers
  BY <1>5
<1>7. a = config[o].acct
  BY <1>4 DEF AutoRequest
<1>8. r \in Requests /\ r.acct = a /\ r.n = n /\ r.op = "auto"
  BY <1>3, <1>4, <1>6, <1>7 DEF AutoPayInv, ConfigSound, AutoRequest
<1>9. a \in Accounts /\ a \in Rows /\ o \in Rows
  <2>1. a \in Accounts
    BY <1>8, PayRequest DEF PayOps
  <2> QED
    BY <1>3, <2>1, ObligationsAssumption
<1>10. row \in Row
  BY <1>3 DEF Brought, RowSound
<1> HIDE DEF r, n, a, row
<1>11. LockTypeOK' /\ lock'[a] = w
       /\ \A x \in Rows, t \in Sessions : lock[x] = t => lock'[x] = t
  BY <1>1, <1>2, <1>9, TakeFrame
<1>12. /\ pc'[w] = "account" /\ req'[w] = r /\ funds'[w] = balance[a]
       /\ seen'[w] = [seen[w] EXCEPT ![o] = row] /\ seen'[w][o] = row
       /\ \A t \in Sessions \ {w} : /\ pc'[t] = pc[t] /\ req'[t] = req[t]
                                    /\ seen'[t] = seen[t] /\ funds'[t] = funds[t]
  BY <1>1, <1>2, <1>3 DEF RequestTypes
<1>13. PayBase'
  <2>1. /\ DOMAIN obligation' = Obligations /\ DOMAIN balance' = Accounts
        /\ recorded' = recorded /\ told' = told
    BY <1>1, <1>2 DEF RequestTypes, tableVars
  <2>2. DOMAIN seen' = Sessions /\ \A t \in Sessions : DOMAIN seen'[t] = Obligations
    BY <1>1, <1>2, <1>12 DEF RequestTypes
  <2>3. RequestTypes'
    BY <1>1, <1>2, <1>8, <1>11, <2>1, <2>2 DEF RequestTypes
  <2> QED
    BY <1>1, <2>1, <2>3, AnswersKept DEF PayBase
<1>14. Books'
  BY <1>1, <1>2, QuietBooks DEF tableVars
<1>15. SessionTypes'
  <2>1. balance[a] \in Int
    BY <1>1, <1>9 DEF TableTypes
  <2>2. seen' \in [Sessions -> [Obligations -> Row \cup {Nothing}]]
    BY <1>1, <1>2, <1>3, <1>10 DEF SessionTypes
  <2> QED
    BY <1>1, <1>2, <2>1, <2>2 DEF SessionTypes
<1>16. \A t \in Sessions \ {w} : Kept(t)
  BY <1>2, <1>11, <1>12 DEF Kept, tableVars
<1>17. /\ ConfigTypes' /\ WorkerTypes' /\ \A x \in Obligations : ConfigSound(x)'
       /\ \A t \in Workers : WorkerKept(t)
  BY <1>2, QuietWorkers
<1>18. RunsMatchPayments'
  BY <1>1, <1>2 DEF RunsMatchPayments, configVars, tableVars
<1>19. SourceHeld(w)'
  <2>1. /\ asOf'[w] = asOf[w] /\ job'[w] = o /\ obligation'[o] = obligation[o]
        /\ balance'[a] = balance[a]
    BY <1>2 DEF workerVars, tableVars
  <2>2. lock'[o] = w /\ lock'[a] = w
    BY <1>1, <1>3, <1>9, <1>11
  <2>3. row = Synced(o, obligation[o], asOf[w])
    BY <1>3 DEF Evolved, row
  <2>4. DuePeriods(w) = DueOn(o, row, asOf[w])
    BY DEF DuePeriods, row
  <2>5. /\ seen'[w][job'[w]] = row /\ req'[w] = r /\ funds'[w] = balance[a]
        /\ r.n = n /\ r.acct = a
    BY <1>8, <1>12, <2>1
  <2>6. /\ n \in DueOn(o, row, asOf[w]) /\ row.periods[n].status \in Payable
        /\ \A m \in DueOn(o, row, asOf[w]) : n <= m
    BY <1>2, <1>5, <2>4
  <2>7. obligation[o].status = "active"
    BY <1>3
  <2> HIDE DEF o
  <2> QED
    BY <2>1, <2>2, <2>3, <2>5, <2>6, <2>7 DEF SourceHeld
<1>20. WorkerOwn(w)'
  <2>1. /\ asOf'[w] = asOf[w] /\ job'[w] = o /\ config' = config /\ today' = today
        /\ stage'[w] = "work"
    BY <1>2 DEF workerVars, configVars
  <2>2. lock'[ConfigRow(o)] = w
    BY <1>1, <1>3, <1>4, <1>11, Everyone
  <2>3. r = AutoRequest(o, r.n, config[o].acct) /\ r.n \in Numbers
    BY <1>6, <1>7, <1>8 DEF r
  <2> QED
    BY <1>3, <1>4, <1>8, <1>12, <1>19, <2>1, <2>2, <2>3 DEF WorkerOwn
<1> QED
  BY <1>2, <1>13, <1>14, <1>15, <1>16, <1>17, <1>18, <1>20, WorkerStepKeeps DEF BookBase

\* What a payment of all that is left of one period leaves of it.
LEMMA AllOfOne ==
    ASSUME NEW o \in Obligations, NEW now \in Int, NEW ob, RowSound(o, ob, now),
           NEW r, r.op = "auto", r.amount = 0, r.n \in Numbers, r.n \in PayableIn(ob)
    PROVE  Slices(ob, r)[r.n] = Remaining(ob, r.n) /\ Slices(ob, r)[r.n] > 0
<1> DEFINE n == r.n
           room == [m \in Numbers |-> Remaining(ob, m)]
           T == Targets(ob, r)
<1>1. n \in Numbers /\ T = {n} /\ room[n] = Remaining(ob, n)
  BY DEF Targets, SingleOps
<1>2. Remaining(ob, n) \in Nat /\ Remaining(ob, n) > 0
  BY RemainingIs
<1>3. Before(ob, r, n) \cap T = {}
  <2>1. Before(ob, r, n) = {m \in PayableIn(ob) : m < n}
    BY DEF Before
  <2>2. n \in Nat
    BY NumbersAre
  <2> HIDE DEF n
  <2> QED
    BY <1>1, <2>1, <2>2
<1>4. Applied(ob, r) = Remaining(ob, n)
  <2>1. SumFunctionOnSet(room, {n}) = room[n] + SumFunctionOnSet(room, {n} \ {n})
    <3>1. IsFiniteSet({n}) /\ \A x \in {n} : room[x] \in Int
      BY <1>1, <1>2, FS_Singleton
    <3> HIDE DEF room
    <3> QED
      BY <3>1, SumRemove
  <2>2. SumFunctionOnSet(room, {n} \ {n}) = 0
    <3>1. {n} \ {n} = {}
      OBVIOUS
    <3> HIDE DEF room
    <3> QED
      BY <3>1, SumEmpty
  <2>3. OwedNow(ob, r) = SumFunctionOnSet(room, {n})
    BY <1>1 DEF OwedNow
  <2> HIDE DEF room
  <2> QED
    BY <1>1, <1>2, <2>1, <2>2, <2>3 DEF Applied
<1>5. SumFunctionOnSet(room, Before(ob, r, n) \cap T) = 0
  <2> HIDE DEF room
  <2> QED
    BY <1>3, SumEmpty
<1>6. Slices(ob, r)[n] = LET left == Applied(ob, r)
                                       - SumFunctionOnSet(room, Before(ob, r, n) \cap T)
                         IN IF left <= 0 THEN 0 ELSE Smaller(left, Remaining(ob, n))
  BY <1>1 DEF Slices
<1> HIDE DEF room, T, n
<1> QED
  BY <1>2, <1>4, <1>5, <1>6 DEF Smaller, n

\* A processor that has locked its source may pay.
LEMMA SourceReady ==
    ASSUME AutoPayInv, NEW w \in Workers, AtSource(w)
    PROVE  LET o == job[w] IN
           /\ SourceHeld(w) /\ PaysFrom(w) /\ HoldsBoth(w) /\ Basis(w) = seen[w][o]
           /\ req[w] \in Requests /\ req[w].n \in Numbers /\ o \in Obligations
           /\ req[w] = AutoRequest(o, req[w].n, config[o].acct)
           /\ RowSound(o, seen[w][o], today)
           /\ \A m \in Numbers : Aged(obligation[o].periods[m], seen[w][o].periods[m])
           /\ Enabled(o) /\ asOf[w] <= today
<1> DEFINE o == job[w]
<1>1. stage[w] = "work" /\ pc[w] = "account" /\ WorkerOwn(w)
  BY DEF AutoPayInv, AtSource
<1>2. /\ SourceHeld(w) /\ o \in Obligations /\ asOf[w] <= today
      /\ config[o] # Nothing /\ config[o].enabled
      /\ req[w] \in Requests /\ req[w].n \in Numbers
      /\ req[w] = AutoRequest(o, req[w].n, config[o].acct)
  BY <1>1 DEF WorkerOwn
<1>3. obligation[o].status = "active" /\ lock[o] = w /\ lock[req[w].acct] = w
      /\ funds[w] = balance[req[w].acct]
  BY <1>2 DEF SourceHeld
<1>4. Brought(o, obligation[o], seen[w][o], today)
  BY <1>1, <1>3, EvolvedIs
<1>5. req[w].op = "auto" /\ req[w].obl = o
  BY <1>2 DEF AutoRequest
<1>6. Basis(w) = seen[w][o]
  BY <1>5 DEF Basis
<1>7. HoldsBoth(w)
  BY <1>2, <1>3, <1>5 DEF HoldsBoth, PayOps
<1>8. PaysFrom(w)
  <2>1. req[w].op \in PayOps /\ req[w].op # "old_fifo"
    BY <1>5 DEF PayOps
  <2>2. req[w].acct \in Accounts /\ req[w].amount \in Nat
    BY <1>2, <2>1, PayRequest
  <2> HIDE DEF o
  <2> QED
    BY <1>2, <1>3, <1>4, <1>5, <1>6, <2>1, <2>2 DEF PaysFrom, Brought
<1> QED
  BY <1>2, <1>4, <1>6, <1>7, <1>8 DEF Brought, Enabled

\* The payment, its run and the next evaluation are one commit.
LEMMA AutoPayStep ==
    ASSUME AutoPayInv, NEW w \in Workers, AutoPay(w)
    PROVE  AutoPayInv'
<1> DEFINE o == job[w]
           r == req[w]
           row == seen[w][o]
<1>1. /\ PayBase /\ Books /\ RequestTypes /\ TableTypes /\ RowsSound
      /\ RunsMatchPayments /\ ConfigTypes /\ WorkerTypes
      /\ w \in Sessions
  BY Everyone DEF AutoPayInv, BookBase, Books, PayBase
<1>2. /\ AtSource(w) /\ stage[w] = "work" /\ Pay(w) /\ Tomorrow(w)
      /\ attempts' = [attempts EXCEPT ![o] = @ \cup {Key(w, r.n)}]
      /\ won' = [won EXCEPT ![o] = @ \cup {Key(w, r.n)}]
      /\ wins' = [wins EXCEPT ![o] = @ \cup {r.n}]
  BY DEF AutoPay, AtSource
<1>3. /\ SourceHeld(w) /\ PaysFrom(w) /\ HoldsBoth(w) /\ Basis(w) = row
      /\ r \in Requests /\ r.n \in Numbers /\ o \in Obligations
      /\ r = AutoRequest(o, r.n, config[o].acct)
      /\ RowSound(o, row, today)
  BY <1>2, SourceReady
<1>4. Achieves(w) /\ RowsFollow /\ Books' /\ Leave(w) /\ UNCHANGED today
  <2>1. Leave(w) /\ UNCHANGED today
    BY <1>2 DEF Pay
  <2> QED
    BY <1>1, <1>2, <1>3, <2>1, PayKeeps, PayBooks
<1>5. r.op = "auto" /\ r.amount = 0 /\ r.cmd = <<o, r.n>> /\ r.obl = o /\ Keyed(r)
      /\ KeyOf(r) \in Keys
  <2>1. r.op = "auto" /\ r.amount = 0 /\ r.cmd = <<o, r.n>> /\ r.obl = o
    BY <1>3 DEF AutoRequest
  <2>2. Keyed(r)
    BY <1>3, <2>1, ObligationsAssumption
  <2> QED
    BY <1>3, <2>1, <2>2, RequestRows DEF PayOps
<1>6. obligation'[o].periods[r.n].status = "paid"
  <2>1. row.status = "active" /\ r.n \in PayableIn(row)
    BY <1>3, <1>5 DEF PaysFrom, SourceHeld, DueOn, PayableIn
  <2>2. obligation'[o] = Paid(o, row, r, Slices(row, r), today) /\ PaymentFits(row, r)
    BY <1>1, <1>2, <1>3, <1>5 DEF Pay, Payment, TableTypes
  <2>3. today \in Int
    BY <1>1, NowIs
  <2> HIDE DEF row, o, r
  <2>4. SlicesFit(row, r)
    BY <1>3, <1>5, <2>2, SlicesSound
  <2>5. Slices(row, r)[r.n] = Remaining(row, r.n) /\ Slices(row, r)[r.n] > 0
    BY <1>3, <1>5, <2>1, <2>3, AllOfOne
  <2> QED
    BY <1>3, <2>1, <2>2, <2>3, <2>4, <2>5, PaidSound
<1>7. /\ attempts' \in [Obligations -> SUBSET Attempts]
      /\ won' \in [Obligations -> SUBSET Attempts]
      /\ \A x \in Obligations : won'[x] \subseteq attempts'[x]
      /\ wins' \in [Obligations -> SUBSET Numbers]
  <2>1. Key(w, r.n) \in Attempts
    BY <1>1, <1>3 DEF Key, Attempts, Day, WorkerTypes
  <2> HIDE DEF o, r
  <2> QED
    BY <1>1, <1>2, <1>3, <2>1 DEF ConfigTypes
<1>8. recorded' = [recorded EXCEPT ![KeyOf(r)] = r]
  BY <1>2, <1>5 DEF Pay
<1>9. RunsMatchPayments'
  <2>1. recorded'[KeyOf(r)] = r /\ \A k \in Keys : k # KeyOf(r) => recorded'[k] = recorded[k]
    BY <1>1, <1>5, <1>8 DEF RequestTypes
  <2>2. KeyOf(r) = <<"auto", <<o, r.n>>>>
    BY <1>5 DEF KeyOf, V17PayOps
  <2>3. \A x \in Obligations, m \in Numbers, a \in Accounts :
          KeyOf(AutoRequest(x, m, a)) = <<"auto", <<x, m>>>>
    BY DEF KeyOf, AutoRequest, V17PayOps
  <2>4. r.acct \in Accounts
    BY <1>3 DEF PaysFrom
  <2>5. r = AutoRequest(o, r.n, r.acct)
    BY <1>3 DEF AutoRequest
  <2>6. /\ wins'[o] = wins[o] \cup {r.n}
        /\ \A x \in Obligations \ {o} : wins'[x] = wins[x]
    BY <1>1, <1>2, <1>3 DEF ConfigTypes
  <2> HIDE DEF r, o
  <2>7. ASSUME NEW x \in Obligations, NEW m \in Numbers
        PROVE  /\ m \in wins'[x] <=>
                    \E a \in Accounts :
                       LET q == AutoRequest(x, m, a)
                       IN  KeyOf(q) \in Keys /\ recorded'[KeyOf(q)] = q
               /\ m \in wins'[x] => obligation'[x].periods[m].status = "paid"
    <3>1. CASE x = o /\ m = r.n
      BY <1>5, <1>6, <2>1, <2>4, <2>5, <2>6, <3>1
    <3>2. CASE ~(x = o /\ m = r.n)
      <4>1. m \in wins'[x] <=> m \in wins[x]
        BY <2>6, <3>2
      <4>2. \A a \in Accounts :
              LET k == KeyOf(AutoRequest(x, m, a)) IN
              k \in Keys => recorded'[k] = recorded[k]
        BY <2>1, <2>2, <2>3, <3>2
      <4>3. obligation[x].periods[m].status = "paid" =>
              obligation'[x].periods[m].status = "paid"
        BY <1>4 DEF RowsFollow, Follows, History
      <4> QED
        BY <1>1, <4>1, <4>2, <4>3 DEF RunsMatchPayments
    <3> QED
      BY <3>1, <3>2
  <2> QED
    BY <2>7 DEF RunsMatchPayments
<1>10. Day(w) + 1 \in Dates \cup {Nothing}
  BY DEF Day, Dates
<1> QED
  BY <1>2, <1>4, <1>7, <1>9, <1>10, DoneKeeps DEF Tomorrow

-----------------------------------------------------------------------------
(* Failures, and days *)

\* A processor ends before its commit, or raises and has yet to record that.
LEMMA LostStep ==
    ASSUME AutoPayInv, NEW w \in Workers, Raise(w) \/ Kill(w) \/ DuplicateRun(w)
    PROVE  AutoPayInv'
<1>1. /\ PayBase /\ Books /\ SessionTypes /\ TableTypes /\ RunsMatchPayments
      /\ ConfigTypes /\ WorkerTypes
      /\ WorkerOwn(w) /\ w \in Sessions /\ \A o \in Obligations : ConfigSound(o)
  BY Everyone DEF AutoPayInv, BookBase, Books
<1>2. /\ Leave(w) /\ UNCHANGED <<today, tableVars, config, attempts, won, wins>>
      /\ faults' = faults \/ (faults < MaxFaults /\ faults' = faults + 1)
  BY DEF Raise, Kill, DuplicateRun, Rollback, End
<1>3. Achieves(w) /\ Books'
  BY <1>1, <1>2, QuietEndKeeps, QuietBooks DEF tableVars
<1>4. ConfigTypes' /\ RunsMatchPayments' /\ \A o \in Obligations : ConfigSound(o)'
  <2>1. faults' \in 0 .. MaxFaults
    BY <1>1, <1>2, AutoPaymentsAssumption DEF ConfigTypes
  <2> QED
    BY <1>1, <1>2, <2>1 DEF ConfigTypes, RunsMatchPayments, ConfigSound, tableVars
<1>5. /\ WorkerTypes' /\ asOf'[w] <= today /\ stage'[w] \in {"off", "persist"}
      /\ stage'[w] = "persist" => job'[w] = job[w] /\ stage[w] = "work"
      /\ \A t \in Workers \ {w} : stage'[t] = stage[t] /\ asOf'[t] = asOf[t] /\ job'[t] = job[t]
  <2>1. CASE Raise(w)
    <3>1. stage' = [stage EXCEPT ![w] = "persist"] /\ stage[w] = "work"
          /\ UNCHANGED <<asOf, late, tried, job>>
      BY <2>1 DEF Raise, Rollback
    <3>2. asOf[w] <= today
      BY <1>1 DEF WorkerOwn
    <3> QED
      BY <1>1, <3>1, <3>2 DEF WorkerTypes
  <2>2. CASE Kill(w) \/ DuplicateRun(w)
    <3>1. Stop(w) /\ job' = [job EXCEPT ![w] = Nothing]
      BY <2>2 DEF Kill, DuplicateRun, End
    <3>2. today \in Nat /\ 0 \in Days
      BY <1>1, DaysAre, TermsAssumption DEF Days
    <3> QED
      BY <1>1, <3>1, <3>2 DEF Stop, WorkerTypes
  <2> QED
    BY <2>1, <2>2
<1>6. \A t \in Workers \ {w} : WorkerKept(t)
  <2>1. today \in Nat
    BY <1>1, DaysAre
  <2> QED
    BY <1>2, <1>5, <2>1 DEF WorkerKept
<1>7. stage'[w] = "persist" => job'[w] \in Obligations /\ config'[job'[w]] # Nothing
  BY <1>1, <1>2, <1>5 DEF WorkerOwn
<1> QED
  BY <1>2, <1>3, <1>4, <1>5, <1>6, <1>7, EndOfWork

\* A fresh session records the failure, unless another one came first.
LEMMA PersistStep ==
    ASSUME AutoPayInv, NEW w \in Workers, Persist(w)
    PROVE  AutoPayInv'
<1> DEFINE o == job[w]
<1>1. /\ Books /\ TableTypes /\ ConfigTypes /\ WorkerTypes /\ WorkerOwn(w)
  BY DEF AutoPayInv, BookBase, Books
<1>2. /\ stage[w] = "persist" /\ lock[ConfigRow(o)] = Nobody
      /\ stage' = [stage EXCEPT ![w] = "loop"] /\ job' = [job EXCEPT ![w] = Nothing]
      /\ UNCHANGED <<vars, won, wins, faults, puts, asOf, late, tried>>
      /\ \/ UNCHANGED <<config, attempts>>
         \/ /\ config' = [config EXCEPT ![o].next = Day(w) + 1]
            /\ attempts' = [attempts EXCEPT ![o] = @ \cup {Key(w, 0)}]
  BY DEF Persist
<1>3. o \in Obligations /\ asOf[w] <= today /\ pc[w] = "idle"
      /\ \A x \in Obligations : seen[w][x] = Nothing
  BY <1>1, <1>2 DEF WorkerOwn
<1>4. Day(w) + 1 \in Dates \cup {Nothing} /\ TRUE \in BOOLEAN
  BY DEF Day, Dates
<1>5. /\ config' \in [Obligations -> Config \cup {Nothing}]
      /\ \A x \in Obligations : ConfigSound(x)'
      /\ \A x \in Obligations : config[x] # Nothing => config'[x] # Nothing
      /\ \A t \in Workers \ {w} : \A x \in Obligations :
           lock[ConfigRow(x)] = t =>
              config'[x].acct = config[x].acct /\ config'[x].enabled = config[x].enabled
  BY <1>2, <1>4, JobConfig
<1>6. /\ attempts' \in [Obligations -> SUBSET Attempts]
      /\ won' \in [Obligations -> SUBSET Attempts]
      /\ \A x \in Obligations : won'[x] \subseteq attempts'[x]
  <2>1. /\ \/ attempts' = [attempts EXCEPT ![job[w]] = @ \cup {Key(w, 0)}]
           \/ UNCHANGED attempts
        /\ UNCHANGED won
    BY <1>2
  <2> QED
    BY <1>3, <2>1, RunTypes
<1>7. ConfigTypes' /\ WorkerTypes'
  BY <1>1, <1>2, <1>5, <1>6 DEF ConfigTypes, WorkerTypes
<1>8. UNCHANGED <<today, tableVars, sessionVars, wins>> /\ Books'
  BY <1>1, <1>2, QuietBooks DEF vars, tableVars
<1>9. today \in Nat
  BY <1>1, DaysAre
<1>10. \A t \in Workers \ {w} : WorkerKept(t)
  BY <1>1, <1>2, <1>5, <1>8, <1>9 DEF WorkerKept, WorkerTypes
<1>11. WorkerOwn(w)'
  <2>1. stage'[w] = "loop" /\ asOf'[w] = asOf[w] /\ today' = today
        /\ pc'[w] = pc[w] /\ seen'[w] = seen[w]
    BY <1>1, <1>2, <1>8 DEF WorkerTypes, sessionVars
  <2> QED
    BY <1>3, <2>1 DEF WorkerOwn
<1> QED
  BY <1>5, <1>7, <1>8, <1>9, <1>10, <1>11, AsideStep

\* Attempts of yesterday stay those of yesterday.
LEMMA RecentAre ==
    ASSUME NEW keys \in SUBSET Attempts
    PROVE  Recent(keys) \in SUBSET Attempts
  BY DEF Recent, Attempts

LEMMA LaterIs ==
    ASSUME NEW row \in Config
    PROVE  /\ Later(row) \in Config
           /\ Later(row).acct = row.acct /\ Later(row).enabled = row.enabled
  BY DEF Later, Config, Dates

\* Midnight: processors go on in a day that is not the one they read.
LEMMA MidnightStep ==
    ASSUME AutoPayInv, Midnight
    PROVE  AutoPayInv'
<1>1. /\ Books /\ TableTypes /\ ConfigTypes /\ WorkerTypes
      /\ \A o \in Obligations : ConfigSound(o)
  BY DEF AutoPayInv, BookBase, Books
<1>2. /\ today' = IF today < Horizon THEN today + 1 ELSE today
      /\ late' = [w \in Workers |-> stage[w] # "off"]
      /\ config' = [o \in Obligations |->
                      IF config[o] = Nothing THEN Nothing ELSE Later(config[o])]
      /\ attempts' = [o \in Obligations |-> Recent(attempts[o])]
      /\ won' = [o \in Obligations |-> Recent(won[o])]
      /\ UNCHANGED <<tableVars, sessionVars, wins, faults, stage, asOf, tried, job>>
  BY DEF Midnight
<1>3. today \in Nat /\ Horizon \in Nat
  BY <1>1, DaysAre, TermsAssumption
<1>4. Books' /\ today' \in Int /\ today <= today'
  <2>1. CASE today < Horizon
    BY <1>1, <1>2, <1>3, <2>1, DayBooks
  <2>2. CASE ~(today < Horizon)
    BY <1>1, <1>2, <1>3, <2>2, QuietBooks DEF tableVars
  <2> QED
    BY <2>1, <2>2
<1>5. ASSUME NEW o \in Obligations
      PROVE  /\ config'[o] \in Config \cup {Nothing}
             /\ config[o] = Nothing <=> config'[o] = Nothing
             /\ config[o] # Nothing => /\ config'[o].acct = config[o].acct
                                       /\ config'[o].enabled = config[o].enabled
  <2>1. config[o] \in Config \cup {Nothing}
    BY <1>1 DEF ConfigTypes
  <2>2. CASE config[o] = Nothing
    BY <1>2, <2>2
  <2>3. CASE config[o] # Nothing
    <3>1. config'[o] = Later(config[o]) /\ config[o] \in Config
      BY <1>2, <2>1, <2>3
    <3> QED
      BY <2>3, <3>1, LaterIs, AutoPaymentsAssumption
  <2> QED
    BY <2>2, <2>3
<1>6. ConfigTypes'
  <2>1. config' \in [Obligations -> Config \cup {Nothing}]
    BY <1>2, <1>5
  <2>2. /\ attempts' \in [Obligations -> SUBSET Attempts]
        /\ won' \in [Obligations -> SUBSET Attempts]
    BY <1>1, <1>2, RecentAre DEF ConfigTypes
  <2>3. \A o \in Obligations : won'[o] \subseteq attempts'[o]
    BY <1>1, <1>2 DEF ConfigTypes, Recent
  <2> QED
    BY <1>1, <1>2, <2>1, <2>2, <2>3 DEF ConfigTypes
<1>7. WorkerTypes'
  BY <1>1, <1>2 DEF WorkerTypes
<1>8. \A o \in Obligations : ConfigSound(o)'
  BY <1>1, <1>5 DEF ConfigSound
<1>9. \A w \in Workers : WorkerKept(w) \/ WorkerOwn(w)'
  <2> SUFFICES ASSUME NEW w \in Workers PROVE WorkerKept(w) \/ WorkerOwn(w)'
    OBVIOUS
  <2>1. \A o \in Obligations : lock[ConfigRow(o)] = w /\ config[o] = Nothing =>
          config'[o] = config[o]
    BY <1>2
  <2>2. \A o \in Obligations : lock[ConfigRow(o)] = w =>
          config'[o].acct = config[o].acct /\ config'[o].enabled = config[o].enabled
    BY <1>5, <2>1
  <2> QED
    BY <1>2, <1>4, <1>5, <2>2 DEF WorkerKept
<1> QED
  BY <1>2, <1>4, <1>6, <1>7, <1>8, <1>9, AsideStep

-----------------------------------------------------------------------------
LEMMA AutoInitially == AutoInit => AutoPayInv
<1> SUFFICES ASSUME AutoInit PROVE AutoPayInv
  OBVIOUS
<1>1. Init /\ BookInv
  BY BooksInitially DEF AutoInit
<1>2. BookBase /\ \A s \in Sessions : Own(s) /\ Ready(s)
  BY <1>1, PayParts DEF BookBase, BookInv
<1>3. ConfigTypes /\ \A o \in Obligations : ConfigSound(o)
  BY AutoPaymentsAssumption DEF AutoInit, ConfigTypes, ConfigSound
<1>4. WorkerTypes
  BY TermsAssumption DEF AutoInit, WorkerTypes, Days
<1>5. RunsMatchPayments
  <2>1. \A k \in Keys : recorded[k] = Nothing
    BY <1>1 DEF Init
  <2>2. \A o \in Obligations : wins[o] = {}
    BY DEF AutoInit
  <2>3. ASSUME NEW o \in Obligations, NEW n \in Numbers, NEW a \in Accounts,
               KeyOf(AutoRequest(o, n, a)) \in Keys
        PROVE  recorded[KeyOf(AutoRequest(o, n, a))] # AutoRequest(o, n, a)
    <3>1. AutoRequest(o, n, a) # Nothing
      BY AutoPaymentsAssumption
    <3> QED
      BY <2>1, <2>3, <3>1
  <2> QED
    BY <2>2, <2>3 DEF RunsMatchPayments
<1>6. \A s \in Sessions : pc[s] = "idle" /\ \A x \in Obligations : seen[s][x] = Nothing
  BY <1>1 DEF Init, NoneSeen
<1>7. \A c \in Clients : ClientOwn(c)
  BY <1>2, <1>6, Everyone DEF ClientOwn
<1>8. \A w \in Workers : WorkerOwn(w)
  BY <1>1, <1>6, Everyone DEF WorkerOwn, AutoInit, Init
<1> QED
  BY <1>2, <1>3, <1>4, <1>5, <1>7, <1>8 DEF AutoPayInv

LEMMA AutoInductive == AutoPayInv /\ EditsSound /\ [AutoNext]_autoVars => AutoPayInv'
<1> SUFFICES ASSUME AutoPayInv, EditsSound, [AutoNext]_autoVars PROVE AutoPayInv'
  OBVIOUS
<1>1. CASE UNCHANGED autoVars
  <2>1. UNCHANGED <<today, tableVars, sessionVars, wins>>
        /\ UNCHANGED <<configVars, workerVars>>
    BY <1>1 DEF autoVars, vars, configVars
  <2>2. Books /\ TableTypes
    BY DEF AutoPayInv, BookBase, Books
  <2>3. Books' /\ today \in Nat
    BY <2>1, <2>2, QuietBooks, DaysAre DEF tableVars
  <2>4. /\ ConfigTypes' /\ WorkerTypes' /\ \A o \in Obligations : ConfigSound(o)'
        /\ \A w \in Workers : WorkerKept(w)
    BY <2>1, QuietWorkers
  <2> QED
    BY <2>1, <2>3, <2>4, AsideStep
<1>2. CASE ClientOrOther
  <2>1. UNCHANGED <<configVars, workerVars>>
    BY <1>2 DEF ClientOrOther
  <2>2. CASE \E c \in Clients : ClientStep(c)
    BY <2>1, <2>2, ClientAutoStep
  <2>3. CASE OtherServices
    BY <2>1, <2>3, OtherAutoStep
  <2> QED
    BY <1>2, <2>2, <2>3 DEF ClientOrOther
<1>3. CASE (\E p \in Puts : ReadPut(p)) \/ (\E k \in DOMAIN puts : WritePut(k))
  BY <1>3, ReadPutStep, WritePutStep
<1>4. ASSUME NEW w \in Workers, Start(w) \/ WorkerStep(w) \/ Kill(w)
      PROVE  AutoPayInv'
  <2>1. CASE Start(w) \/ Finish(w)
    BY <2>1, StartStep
  <2>2. CASE Claim(w)
    BY <2>2, ClaimStep
  <2>3. CASE Evaluate(w)
    <3>1. CASE LockObligation(w)
      BY <3>1, LockObligationStep
    <3>2. CASE QuietEvaluation(w)
      BY <3>2, QuietEvaluationStep
    <3>3. CASE LockSource(w)
      BY <3>3, LockSourceStep
    <3>4. CASE AutoPay(w)
      BY <3>4, AutoPayStep
    <3> QED
      BY <2>3, <3>1, <3>2, <3>3, <3>4 DEF Evaluate, QuietEvaluation
  <2>4. CASE Raise(w) \/ Kill(w) \/ DuplicateRun(w)
    BY <2>4, LostStep
  <2>5. CASE Persist(w)
    BY <2>5, PersistStep
  <2> QED
    BY <1>4, <2>1, <2>2, <2>3, <2>4, <2>5 DEF WorkerStep
<1>5. CASE Midnight
  BY <1>5, MidnightStep
<1> QED
  BY <1>1, <1>2, <1>3, <1>4, <1>5 DEF AutoNext

LEMMA NoEdits == AutoInit => EditsSound
  BY AutoPaymentsAssumption DEF AutoInit, EditsSound

\* A configuration that exists is never removed.
LEMMA ConfigStays ==
    ASSUME AutoPayInv, EditsSound, [AutoNext]_autoVars,
           NEW o \in Obligations, config[o] # Nothing
    PROVE  config'[o] # Nothing
<1>1. /\ WorkerTypes /\ config \in [Obligations -> Config \cup {Nothing}] /\ config[o] \in Config
      /\ \A w \in Workers : WorkerOwn(w)
  BY DEF AutoPayInv, ConfigTypes
<1>2. CASE UNCHANGED config
  BY <1>2
<1>3. CASE \E k \in DOMAIN puts : WritePut(k)
  <2>1. PICK k \in DOMAIN puts : WritePut(k)
    BY <1>3
  <2>2. AutoPayInv' /\ puts[k] # Sent
    BY <2>1, WritePutStep DEF WritePut
  <2>3. puts[k] \in PutEdit
    BY <2>2 DEF EditsSound
  <2>4. config' = [config EXCEPT ![puts[k].obl] =
                     IF puts[k].new THEN puts[k].row ELSE Merged(puts[k], @)]
    BY <2>1 DEF WritePut
  <2>5. puts[k].row \in Config /\ Merged(puts[k], config[o]) \in Config
    BY <1>1, <2>3, MergedIs
  <2>6. config'[o] \in Config
    BY <1>1, <2>4, <2>5
  <2> QED
    BY <2>6, AutoPaymentsAssumption
<1>4. CASE Midnight
  <2>1. config'[o] = Later(config[o])
    BY <1>4 DEF Midnight
  <2> QED
    BY <1>1, <2>1, LaterIs, AutoPaymentsAssumption
<1>5. ASSUME NEW w \in Workers, WorkerStep(w), config' # config
      PROVE  config'[o] # Nothing
  <2>1. PICK next \in Dates \cup {Nothing}, enabled \in BOOLEAN :
          /\ stage[w] \in {"work", "persist"}
          /\ lock[ConfigRow(job[w])] \in {w, Nobody}
          /\ \/ config' = [config EXCEPT ![job[w]].next = next, ![job[w]].enabled = enabled]
             \/ config' = [config EXCEPT ![job[w]].next = next]
    <3>1. Day(w) + 1 \in Dates
      BY DEF Day, Dates
    <3>2. CASE QuietEvaluation(w) \/ AutoPay(w)
      <4>1. stage[w] = "work" /\ (Tomorrow(w) \/ Pause(w))
        BY <3>2 DEF QuietEvaluation, EndsInactive, NothingDue, AttemptedToday, Undefined,
           ClosedSource, Insufficient, Attempting, Working, AtSource, AutoPay
      <4>2. lock[ConfigRow(job[w])] = w
        BY <1>1, <4>1 DEF WorkerOwn
      <4> QED
        BY <3>1, <4>1, <4>2 DEF Tomorrow, Pause, Done
    <3>3. CASE Persist(w)
      BY <1>5, <3>1, <3>3 DEF Persist
    <3> QED
      BY <1>5, <3>2, <3>3
      DEF WorkerStep, Evaluate, QuietEvaluation, Claim, Finish, LockObligation, LockSource,
          Raise, Rollback, DuplicateRun, End, configVars
  <2> QED
    BY <2>1, JobConfig
<1> QED
  BY <1>2, <1>3, <1>4, <1>5
  DEF AutoNext, autoVars, configVars, ClientOrOther, ReadPut, Start, Kill, End

LEMMA SoundAfter ==
    ASSUME puts' \in Seq(PutEdit \cup {Sent}), Len(puts') <= MaxPuts,
           \A k \in DOMAIN puts' :
              puts'[k] = Sent \/ \E e \in PutEdit : puts'[k] = e /\ EditSound(e)'
    PROVE  EditsSound'
  BY DEF EditsSound, EditSound

\* Edits are read, written, carried over midnight, and otherwise left alone.
LEMMA EditsKept == AutoPayInv /\ EditsSound /\ [AutoNext]_autoVars => EditsSound'
<1> SUFFICES ASSUME AutoPayInv, EditsSound, [AutoNext]_autoVars PROVE EditsSound'
  OBVIOUS
<1>1. /\ puts \in Seq(PutEdit \cup {Sent}) /\ Len(puts) <= MaxPuts /\ Len(puts) \in Nat
      /\ \A k \in DOMAIN puts : puts[k] \in PutEdit \cup {Sent}
      /\ \A k \in DOMAIN puts : puts[k] # Sent => EditSound(puts[k])
      /\ DOMAIN puts = 1 .. Len(puts)
  BY DEF EditsSound
<1>2. ASSUME NEW e \in PutEdit, EditSound(e)
      PROVE  EditSound(e)'
  BY <1>2, ConfigStays DEF EditSound, PutEdit
<1>3. CASE UNCHANGED puts
  BY <1>1, <1>2, <1>3 DEF EditsSound
<1>4. ASSUME NEW p \in Puts, ReadPut(p)
      PROVE  EditsSound'
  <2> DEFINE e == [obl |-> p.obl, row |-> PutRow(p), new |-> config[p.obl] = Nothing,
                   cols |-> IF config[p.obl] = Nothing THEN {}
                            ELSE Changed(PutRow(p), config[p.obl])]
  <2>1. puts' = Append(puts, e) /\ Len(puts) < MaxPuts /\ UNCHANGED config
    BY <1>4 DEF ReadPut
  <2>2. /\ p.obl \in Obligations /\ p.acct \in Accounts /\ p.enabled \in BOOLEAN
        /\ \A n \in Numbers : AutoRequest(p.obl, n, p.acct) \in Requests
        /\ config[p.obl] \in Config \cup {Nothing}
        /\ ConfigSound(p.obl)
    BY AutoPaymentsAssumption DEF AutoPayInv, ConfigTypes
  <2>3. /\ PutRow(p) \in Config
        /\ \/ PutRow(p).acct = p.acct
           \/ config[p.obl] # Nothing /\ PutRow(p).acct = config[p.obl].acct
    BY <2>2 DEF PutRow, Config, Dates
  <2>4. e \in PutEdit
    BY <2>2, <2>3 DEF PutEdit, Changed
  <2>5. EditSound(e)
    BY <2>2, <2>3 DEF EditSound, ConfigSound
  <2> HIDE DEF e
  <2>6. PICK new \in PutEdit : new = e /\ EditSound(new)'
    <3>1. \A x \in PutEdit : EditSound(x) => EditSound(x)'
      BY <1>2
    <3> QED
      BY <2>4, <2>5, <3>1
  <2>7. /\ puts' \in Seq(PutEdit \cup {Sent}) /\ Len(puts') = Len(puts) + 1
        /\ \A k \in DOMAIN puts' :
              (k \in DOMAIN puts /\ puts'[k] = puts[k]) \/ puts'[k] = new
    BY <1>1, <2>1, <2>4, <2>6
  <2>8. Len(puts') <= MaxPuts
    BY <1>1, <2>1, <2>7, AutoPaymentsAssumption
  <2>9. \A k \in DOMAIN puts' :
           puts'[k] = Sent \/ \E x \in PutEdit : puts'[k] = x /\ EditSound(x)'
    BY <1>1, <1>2, <2>6, <2>7
  <2> QED
    BY <2>7, <2>8, <2>9, SoundAfter
<1>5. ASSUME NEW k \in DOMAIN puts, WritePut(k)
      PROVE  EditsSound'
  <2>1. puts' = [puts EXCEPT ![k] = Sent]
    BY <1>5 DEF WritePut
  <2>2. /\ puts' \in Seq(PutEdit \cup {Sent}) /\ Len(puts') = Len(puts)
        /\ DOMAIN puts' = DOMAIN puts
        /\ \A j \in DOMAIN puts : puts'[j] = puts[j] \/ puts'[j] = Sent
    BY <1>1, <2>1
  <2>3. \A j \in DOMAIN puts' :
           puts'[j] = Sent \/ \E x \in PutEdit : puts'[j] = x /\ EditSound(x)'
    BY <1>1, <1>2, <2>2
  <2> QED
    BY <1>1, <2>2, <2>3, SoundAfter
<1>6. CASE Midnight
  <2>1. puts' = [k \in DOMAIN puts |->
                   IF puts[k] = Sent THEN Sent ELSE [puts[k] EXCEPT !.row = Later(@)]]
    BY <1>6 DEF Midnight
  <2>2. ASSUME NEW e \in PutEdit, EditSound(e)
        PROVE  LET f == [e EXCEPT !.row = Later(@)] IN f \in PutEdit /\ EditSound(f)'
    <3> DEFINE f == [e EXCEPT !.row = Later(@)]
    <3>1. e.row \in Config
      BY DEF PutEdit
    <3>2. Later(e.row) \in Config /\ Later(e.row).acct = e.row.acct
      BY <3>1, LaterIs
    <3>3. f \in PutEdit /\ f.obl = e.obl /\ f.new = e.new /\ f.row.acct = e.row.acct
      BY <3>2 DEF PutEdit
    <3> HIDE DEF f
    <3>4. EditSound(e)'
      BY <1>2, <2>2
    <3> QED
      BY <3>3, <3>4 DEF EditSound, f
  <2>3. ASSUME NEW k \in DOMAIN puts
        PROVE  puts'[k] = Sent \/ \E f \in PutEdit : puts'[k] = f /\ EditSound(f)'
    <3>1. CASE puts[k] = Sent
      BY <2>1, <3>1
    <3>2. CASE puts[k] # Sent
      <4>1. puts[k] \in PutEdit /\ EditSound(puts[k])
        BY <1>1, <3>2
      <4>2. puts'[k] = [puts[k] EXCEPT !.row = Later(@)]
        BY <2>1, <3>2
      <4>3. [puts[k] EXCEPT !.row = Later(@)] \in PutEdit
            /\ \E f \in PutEdit : f = [puts[k] EXCEPT !.row = Later(@)] /\ EditSound(f)'
        BY <2>2, <4>1
      <4> QED
        BY <4>2, <4>3
    <3> QED
      BY <3>1, <3>2
  <2>4. puts' \in Seq(PutEdit \cup {Sent}) /\ Len(puts') = Len(puts) /\ DOMAIN puts' = DOMAIN puts
    <3> DEFINE f(k) == IF puts[k] = Sent THEN Sent ELSE [puts[k] EXCEPT !.row = Later(@)]
    <3>1. \A k \in 1 .. Len(puts) : f(k) \in PutEdit \cup {Sent}
      BY <1>1, <2>1, <2>3
    <3>2. puts' = [k \in 1 .. Len(puts) |-> f(k)]
      BY <1>1, <2>1
    <3> HIDE DEF f
    <3> QED
      BY <1>1, <3>1, <3>2
  <2> QED
    BY <1>1, <2>3, <2>4, SoundAfter
<1> QED
  <2>1. ASSUME NEW w \in Workers, Start(w) \/ WorkerStep(w) \/ Kill(w)
        PROVE  UNCHANGED puts
    BY <2>1
    DEF Start, WorkerStep, Kill, Claim, Finish, Evaluate, LockObligation, LockSource,
        EndsInactive, NothingDue, AttemptedToday, Undefined, ClosedSource, Insufficient, AutoPay,
        Raise, Rollback, Persist, DuplicateRun, End, Done, Tomorrow, Pause, configVars
  <2> QED
    BY <1>3, <1>4, <1>5, <1>6, <2>1 DEF AutoNext, autoVars, configVars, ClientOrOther

(***************************************************************************)
(* Clients, owners, processors that race, raise or are killed, and days    *)
(* that pass under them: the inductive invariant of automatic payments,    *)
(* which the theorems below read off.                                      *)
(***************************************************************************)
THEOREM AutoPaymentInvariant == AutoSpec => [](AutoPayInv /\ EditsSound)
<1>1. AutoInit => AutoPayInv /\ EditsSound
  BY AutoInitially, NoEdits
<1>2. AutoPayInv /\ EditsSound /\ [AutoNext]_autoVars => (AutoPayInv /\ EditsSound)'
  BY AutoInductive, EditsKept
<1> QED
  BY <1>1, <1>2, PTL DEF AutoSpec

(***************************************************************************)
(* The type invariant of automatic payments, with that of obligations: a   *)
(* run that succeeded is among the attempts of its day.                    *)
(***************************************************************************)
THEOREM AutoPaymentTypes == AutoSpec => []AutoPaymentsTypeOK
<1>1. AutoPayInv /\ EditsSound => AutoPaymentsTypeOK
  <2> SUFFICES ASSUME AutoPayInv, EditsSound PROVE AutoPaymentsTypeOK
    OBVIOUS
  <2>1. RequestTypes /\ Books /\ SessionTypes /\ ConfigTypes /\ WorkerTypes
    BY DEF AutoPayInv, BookBase, PayBase
  <2>2. ObligationsTypeOK
    BY <2>1, TypesRead
  <2> QED
    BY <2>1, <2>2 DEF AutoPaymentsTypeOK, ConfigTypes, WorkerTypes, EditsSound
<1> QED
  BY <1>1, AutoPaymentInvariant, PTL

(***************************************************************************)
(* A period has an automatic payment exactly when it has a succeeded run,  *)
(* and is then paid for good: the payment and its run are one commit, and  *)
(* a failure recorded by a fresh session never claims one.                 *)
(***************************************************************************)
THEOREM RunsStayMatched == AutoSpec => []RunsMatchPayments
<1>1. AutoPayInv => RunsMatchPayments
  BY DEF AutoPayInv
<1> QED
  BY <1>1, AutoPaymentInvariant, PTL

\* Only a payment of a processor adds to the periods that were paid automatically.
LEMMA WinsFrom ==
    ASSUME [AutoNext]_autoVars
    PROVE  UNCHANGED wins \/ \E w \in Workers : AutoPay(w)
<1>1. UNCHANGED configVars => UNCHANGED wins
  BY DEF configVars
<1>2. CASE UNCHANGED autoVars
  BY <1>1, <1>2 DEF autoVars
<1>3. CASE ClientOrOther
  BY <1>1, <1>3 DEF ClientOrOther
<1>4. CASE (\E p \in Puts : ReadPut(p)) \/ (\E k \in DOMAIN puts : WritePut(k)) \/ Midnight
  BY <1>4 DEF ReadPut, WritePut, Midnight
<1>5. ASSUME NEW w \in Workers, Start(w) \/ WorkerStep(w) \/ Kill(w)
      PROVE  UNCHANGED wins \/ AutoPay(w)
  <2>1. CASE Start(w) \/ Finish(w) \/ Claim(w) \/ LockObligation(w) \/ LockSource(w)
    BY <1>1, <2>1 DEF Start, Finish, Claim, LockObligation, LockSource
  <2>2. CASE QuietEvaluation(w)
    BY <2>2 DEF QuietEvaluation, EndsInactive, NothingDue, AttemptedToday, Undefined,
       ClosedSource, Insufficient, Run
  <2>3. CASE Raise(w) \/ Kill(w) \/ DuplicateRun(w) \/ Persist(w)
    BY <2>3 DEF Raise, Rollback, Kill, DuplicateRun, End, Persist
  <2> QED
    BY <1>5, <2>1, <2>2, <2>3 DEF WorkerStep, Evaluate, QuietEvaluation
<1> QED
  BY <1>2, <1>3, <1>4, <1>5 DEF AutoNext

(***************************************************************************)
(* The oldest that is due on the day a processor read is the oldest that   *)
(* is due today: what has become due since is newer, and the refresh left  *)
(* open what was.                                                          *)
(***************************************************************************)
LEMMA OldestToday ==
    ASSUME NEW o \in Obligations, NEW ob, NEW row, NEW day \in Int, NEW now \in Int,
           day <= now, RowSound(o, row, now),
           \A m \in Numbers : Aged(ob.periods[m], row.periods[m]),
           NEW n \in DueOn(o, row, day), \A m \in DueOn(o, row, day) : n <= m
    PROVE  DueOf(o, n) <= now /\ \A m \in DueOn(o, ob, now) : n <= m
<1>1. n \in Numbers /\ DueOf(o, n) <= day /\ DueOf(o, n) \in Nat
  BY TermsOf DEF DueOn, Existing
<1>2. ASSUME NEW m \in DueOn(o, ob, now)
      PROVE  n <= m
  <2>1. m \in Numbers /\ ob.periods[m].status # "absent" /\ ob.periods[m].status \in Open
        /\ DueOf(o, m) \in Nat
    BY <1>2, TermsOf DEF DueOn, Existing
  <2>2. n \in Nat /\ m \in Nat
    BY <1>1, <2>1, NumbersAre
  <2>3. CASE DueOf(o, m) <= day
    <3>1. Aged(ob.periods[m], row.periods[m]) /\ row.periods[m] \in Period
      BY <2>1, RowSoundPeriod
    <3>2. row.periods[m].status # "absent" /\ row.periods[m].status \in Open
      BY <2>1, <3>1 DEF Aged, Period, Open, Closed
    <3>3. m \in DueOn(o, row, day)
      BY <2>1, <2>3, <3>2 DEF DueOn, Existing
    <3> QED
      BY <3>3
  <2>4. CASE ~(DueOf(o, m) <= day)
    <3>1. DueOf(o, n) < DueOf(o, m)
      BY <1>1, <2>1, <2>4
    <3>2. m < n => DueOf(o, m) < DueOf(o, n)
      BY <1>1, <2>1, TermsOf
    <3>3. ~(m < n)
      BY <1>1, <2>1, <3>1, <3>2
    <3> QED
      BY <2>2, <3>3
  <2> QED
    BY <2>3, <2>4
<1> QED
  BY <1>1, <1>2

(***************************************************************************)
(* An automatic payment has the consent of the owner as it commits: the    *)
(* configuration it has claimed is locked until then, and so is the row    *)
(* whose oldest due period it pays, even when midnight has passed.         *)
(***************************************************************************)
THEOREM AutoPaymentsObeyOwner == AutoSpec => AutoPaysWithConsent
<1> DEFINE Consent(o, n) ==
             /\ Enabled(o)
             /\ \A a \in Accounts : balance'[a] # balance[a] => a = config[o].acct
             /\ DueOf(o, n) <= today
             /\ \A m \in DueOn(o, obligation[o], today) : n <= m
<1>1. ASSUME AutoPayInv, NEW w \in Workers, AutoPay(w),
             NEW o \in Obligations, NEW n \in Numbers, n \in wins'[o] \ wins[o]
      PROVE  Consent(o, n)
  <2>1. /\ AtSource(w) /\ Pay(w)
        /\ wins' = [wins EXCEPT ![job[w]] = @ \cup {req[w].n}]
    BY <1>1 DEF AutoPay
  <2>2. /\ TableTypes /\ ConfigTypes /\ WorkerTypes
    BY <1>1 DEF AutoPayInv, BookBase, Books
  <2>3. /\ SourceHeld(w) /\ job[w] \in Obligations
        /\ req[w] = AutoRequest(job[w], req[w].n, config[job[w]].acct)
        /\ RowSound(job[w], seen[w][job[w]], today)
        /\ \A m \in Numbers :
              Aged(obligation[job[w]].periods[m], seen[w][job[w]].periods[m])
        /\ Enabled(job[w]) /\ asOf[w] <= today
    BY <1>1, <2>1, SourceReady
  <2>4. o = job[w] /\ n = req[w].n
    BY <1>1, <2>1, <2>2, <2>3 DEF ConfigTypes
  <2>5. req[w].acct = config[o].acct
    BY <2>3, <2>4 DEF AutoRequest
  <2>6. \A a \in Accounts : balance'[a] # balance[a] => a = config[o].acct
    <3>1. \E x : balance' = [balance EXCEPT ![req[w].acct] = x]
      BY <2>1 DEF Pay
    <3> QED
      BY <2>2, <2>5, <3>1 DEF TableTypes
  <2>7. today \in Int /\ asOf[w] \in Int
    BY <2>2, DaysAre
  <2>8. /\ n \in DueOn(o, seen[w][o], asOf[w])
        /\ \A m \in DueOn(o, seen[w][o], asOf[w]) : n <= m
    BY <2>3, <2>4 DEF SourceHeld
  <2>9. DueOf(o, n) <= today /\ \A m \in DueOn(o, obligation[o], today) : n <= m
    <3> DEFINE ob == obligation[o]
               row == seen[w][o]
               day == asOf[w]
    <3>1. /\ RowSound(o, row, today) /\ day <= today /\ day \in Int /\ today \in Int
          /\ \A m \in Numbers : Aged(ob.periods[m], row.periods[m])
          /\ n \in DueOn(o, row, day) /\ \A m \in DueOn(o, row, day) : n <= m
      BY <2>3, <2>4, <2>7, <2>8
    <3> HIDE DEF ob, row, day
    <3>2. DueOf(o, n) <= today /\ \A m \in DueOn(o, ob, today) : n <= m
      BY <3>1, OldestToday
    <3> QED
      BY <3>2 DEF ob
  <2> QED
    BY <2>3, <2>4, <2>6, <2>9
<1>2. AutoPayInv /\ EditsSound /\ [AutoNext]_autoVars =>
        [\A o \in Obligations : \A n \in Numbers :
            n \in wins'[o] \ wins[o] => Consent(o, n)]_autoVars
  <2> HIDE DEF Consent
  <2> SUFFICES ASSUME AutoPayInv, [AutoNext]_autoVars,
                      NEW o \in Obligations, NEW n \in Numbers, n \in wins'[o] \ wins[o]
               PROVE  Consent(o, n)
    OBVIOUS
  <2>1. PICK w \in Workers : AutoPay(w)
    BY WinsFrom
  <2> QED
    BY <1>1, <2>1
<1>3. [][\A o \in Obligations : \A n \in Numbers :
            n \in wins'[o] \ wins[o] => Consent(o, n)]_autoVars => AutoPaysWithConsent
  BY PTL DEF AutoPaysWithConsent
<1> QED
  BY <1>2, <1>3, AutoPaymentInvariant, PTL DEF AutoSpec

(***************************************************************************)
(* Beside processors, too, the books add up, obligations end exactly when  *)
(* nothing is left to pay, and an answered payment is the one recorded.    *)
(***************************************************************************)
THEOREM AutoBooksAddUp ==
    AutoSpec => [](MoneyAddsUp /\ LifeCycleIsSound /\ PaymentSuccessIsOwn)
<1>1. AutoPayInv => MoneyAddsUp
  BY DEF AutoPayInv, BookBase, Books, MoneyAddsUp, SumsAgree, RowsSound, RowSound, PeriodSound
<1>2. AutoPayInv => LifeCycleIsSound
  BY DEF AutoPayInv, BookBase, Books, LifeCycleIsSound, RowsSound, RowSound, LifeSound, Bounded
<1>3. AutoPayInv => PaymentSuccessIsOwn
  BY DEF AutoPayInv, BookBase, PayBase
<1> QED
  BY <1>1, <1>2, <1>3, AutoPaymentInvariant, PTL

===============================================================================
