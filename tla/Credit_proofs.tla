----------------------------- MODULE Credit_proofs -----------------------------
(***************************************************************************)
(* Proofs about Credit, for any cards, accounts, rates, requests and       *)
(* sessions: a session decides on the current rows of its card, so that no *)
(* race charges a card beyond its limit; no rounding, no payment and no    *)
(* redistribution makes or loses debt; and the installments of later       *)
(* months are left alone.                                                  *)
(***************************************************************************)
EXTENDS CreditProperties, FiniteSums

Stages == {"idle", "first", "second", "ready"}

\* A row of a purchase; what its installments are does not matter here.
IsPurchase(x) == x # Nothing => DOMAIN x = {"card", "rows"}

(***************************************************************************)
(* The types these proofs need.                                            *)
(***************************************************************************)
CardTypes ==
    /\ LockTypeOK
    /\ DOMAIN purchase = Purchases /\ \A p \in Purchases : IsPurchase(purchase[p])
    /\ charged \in [Cards -> Nat]
    /\ recorded \in [Keys -> Requests \cup {Nothing}]
    /\ pc \in [Sessions -> Stages]
    /\ req \in [Sessions -> Requests \cup {Nothing}]
    /\ DOMAIN seen = Sessions /\ \A s \in Sessions : DOMAIN seen[s] = Purchases

\* The session has read the purchases of its card.
HasRead(s) ==
    pc[s] = "ready" \/ (pc[s] = "second" /\ req[s].op # "payment")

\* The purchase of an early payment, as it was when its card was locked.
ReadEligible(s) ==
    LET pur == seen[s][req[s].purchase] IN
    pur # Nothing /\ pur.card = req[s].card /\ Unpaid(pur) # {}

\* The request a session serves; an early payment is of a purchase it knows.
Serving(s) ==
    /\ pc[s] # "idle" => req[s] \in Requests
    /\ pc[s] = "second" => NeedsBoth(req[s])
    /\ pc[s] # "idle" /\ req[s].op = "early" =>
         /\ purchase[req[s].purchase] # Nothing
         /\ HasRead(s) => ReadEligible(s)

(***************************************************************************)
(* A session that has read its card's purchases holds the card, and they   *)
(* are still what it has read: the purchases of other cards may have       *)
(* changed, and it does not write those.                                   *)
(***************************************************************************)
InCard(ps, p, c) == ps[p] # Nothing /\ ps[p].card = c

\* Two tables of purchases that are the same on a card.
Agree(ps, qs, c) ==
    \A p \in Purchases : InCard(ps, p, c) \/ InCard(qs, p, c) => ps[p] = qs[p]

\* What it has read of its card is what the table says.
ReadIsCurrent(s) ==
    HasRead(s) => lock[req[s].card] = s /\ Agree(seen[s], purchase, req[s].card)

\* A purchase is recorded under the key of the request that made it.
PurchasesRecorded ==
    \A p \in Purchases : purchase[p] # Nothing =>
        \E r \in Requests : r.op = "purchase" /\ r.purchase = p /\ recorded[r.cmd] # Nothing

CardInv ==
    /\ CardTypes /\ PurchasesRecorded
    /\ \A s \in Sessions : Serving(s) /\ ReadIsCurrent(s)

-----------------------------------------------------------------------------
(* What is owed depends on the purchases of the card alone *)

\* Purchases that agree on a card have the same pending installments there.
LEMMA PendingAgree ==
    ASSUME NEW ps, NEW qs, NEW c, Agree(ps, qs, c)
    PROVE  Pending(ps, c) = Pending(qs, c)
<1>1. ASSUME NEW us, NEW vs, Agree(us, vs, c), NEW x \in Pending(us, c)
      PROVE  x \in Pending(vs, c)
  <2>1. PICK p \in Purchases : us[p] # Nothing /\ \E i \in DOMAIN us[p].rows : x = <<p, i>>
    BY <1>1 DEF Pending, Slots
  <2>2. PICK i \in DOMAIN us[p].rows : x = <<p, i>>
    BY <2>1
  <2>3. us[p].card = c /\ us[p].rows[i].status # "paid"
    BY <1>1, <2>2 DEF Pending, At
  <2>4. vs[p] = us[p]
    BY <1>1, <2>1, <2>3 DEF Agree, InCard
  <2> QED
    BY <2>1, <2>2, <2>3, <2>4 DEF Pending, Slots, At
<1>2. Agree(qs, ps, c)
  BY DEF Agree
<1> QED
  BY <1>1, <1>2

LEMMA DebtAgree ==
    ASSUME NEW ps, NEW qs, NEW c, Agree(ps, qs, c)
    PROVE  Debt(ps, c) = Debt(qs, c)
<1>1. Pending(ps, c) = Pending(qs, c)
  BY PendingAgree
<1>2. \A x \in Pending(ps, c) : At(ps, x) = At(qs, x)
  BY DEF Pending, Slots, At, Agree, InCard
<1>3. [x \in Pending(ps, c) |-> Left(At(ps, x))] = [x \in Pending(qs, c) |-> Left(At(qs, x))]
  BY <1>1, <1>2
<1> QED
  BY <1>3 DEF Debt, TotalOf


-----------------------------------------------------------------------------
(* Sessions *)

\* The part of the invariant that is about one session.
Own(s) == Serving(s) /\ ReadIsCurrent(s)

\* A step leaves session t where it is, and alone with the card it has read.
Kept(t) ==
    /\ pc'[t] = pc[t] /\ req'[t] = req[t] /\ seen'[t] = seen[t]
    /\ \A c \in Cards : lock[c] = t => lock'[c] = t /\ Agree(purchase, purchase', c)
    /\ \A p \in Purchases : purchase[p] # Nothing => purchase'[p] # Nothing

LEMMA AgreeTrans ==
    ASSUME NEW ps, NEW qs, NEW us, NEW c, Agree(ps, qs, c), Agree(qs, us, c)
    PROVE  Agree(ps, us, c)
  BY DEF Agree, InCard

LEMMA RequestRows ==
    ASSUME NEW r \in Requests
    PROVE  /\ r # Nothing /\ r.card \in Cards /\ r.card \in Rows
           /\ r.op \in {"payment", "early", "preview"} => r.acct \in Rows
           /\ r.op \in EventOps => r.cmd \in Keys
           /\ r.op \in {"purchase", "early", "preview"} => r.purchase \in Purchases
           /\ r.op = "purchase" => r.amount \in Nat
           /\ r.op \in EventOps \cup {"preview", "limit", "delete"}
  BY CreditAssumption DEF Keys, EventOps

LEMMA KeptOwn ==
    ASSUME NEW t \in Sessions, pc[t] \in Stages, Own(t), Kept(t)
    PROVE  Own(t)'
<1>1. Serving(t)'
  BY RequestRows DEF Own, Serving, Kept, HasRead, ReadEligible
<1>2. ASSUME HasRead(t)' PROVE lock'[req[t].card] = t /\ Agree(seen[t], purchase', req[t].card)
  <2>1. HasRead(t) /\ pc[t] # "idle"
    BY <1>2 DEF HasRead, Kept
  <2>2. req[t] \in Requests /\ lock[req[t].card] = t /\ Agree(seen[t], purchase, req[t].card)
    BY <2>1 DEF Own, Serving, ReadIsCurrent
  <2>3. req[t].card \in Cards
    BY <2>2, RequestRows
  <2>4. Agree(purchase, purchase', req[t].card) /\ lock'[req[t].card] = t
    BY <2>2, <2>3 DEF Kept
  <2> QED
    BY <2>2, <2>4, AgreeTrans
<1> QED
  BY <1>1, <1>2 DEF Own, ReadIsCurrent, Kept

LEMMA AgreeSelf == ASSUME NEW ps, NEW c PROVE Agree(ps, ps, c)
  BY DEF Agree

\* The end of a transaction, whether it commits or rolls back.
LEMMA LeaveFrame ==
    ASSUME CardTypes, NEW s \in Sessions, Leave(s)
    PROVE  /\ LockTypeOK' /\ pc' \in [Sessions -> Stages]
           /\ req' \in [Sessions -> Requests \cup {Nothing}]
           /\ DOMAIN seen' = Sessions /\ \A t \in Sessions : DOMAIN seen'[t] = Purchases
           /\ Own(s)'
           /\ \A t \in Sessions \ {s} :
                /\ pc'[t] = pc[t] /\ req'[t] = req[t] /\ seen'[t] = seen[t]
                /\ \A row \in Rows : lock[row] = t => lock'[row] = t
<1>1. LockTypeOK' /\ \A t \in Sessions \ {s}, row \in Rows : lock[row] = t => lock'[row] = t
  BY DEF Leave, ReleaseAll, LockTypeOK, CardTypes
<1>2. /\ pc' = [pc EXCEPT ![s] = "idle"] /\ req' = [req EXCEPT ![s] = Nothing]
      /\ seen' = [seen EXCEPT ![s] = NoPurchases]
  BY DEF Leave
<1>3. pc'[s] = "idle"
  BY <1>2 DEF CardTypes
<1>4. Own(s)'
  BY <1>3 DEF Own, Serving, ReadIsCurrent, HasRead
<1>5. DOMAIN seen' = Sessions /\ \A t \in Sessions : DOMAIN seen'[t] = Purchases
  BY <1>2 DEF CardTypes, NoPurchases
<1> QED
  BY <1>1, <1>2, <1>4, <1>5 DEF CardTypes, Stages

\* A row that was free, or its own, is taken.
LEMMA TakeFrame ==
    ASSUME CardTypes, NEW s \in Sessions, NEW row \in Rows, Available(s, row), Take(s, row)
    PROVE  /\ LockTypeOK' /\ lock'[row] = s
           /\ \A x \in Rows, t \in Sessions : lock[x] = t => lock'[x] = t
  BY NobodyAssumption DEF Available, Take, LockTypeOK, CardTypes

-----------------------------------------------------------------------------
(* Requests arrive and lock *)

LEMMA BeginKeeps ==
    ASSUME CardInv, NEW s \in Sessions, NEW r \in Requests, Begin(s, r)
    PROVE  CardInv'
<1>1. CardTypes /\ \A t \in Sessions : Own(t)
  BY DEF CardInv, Own
<1>2. /\ UNCHANGED <<tableVars, lock, seen>> /\ pc' = [pc EXCEPT ![s] = "first"]
      /\ req' = [req EXCEPT ![s] = r]
  BY DEF Begin
<1>3. CardTypes'
  BY <1>1, <1>2 DEF CardTypes, LockTypeOK, tableVars, Stages
<1>4. /\ pc'[s] = "first" /\ req'[s] = r
      /\ \A t \in Sessions \ {s} : pc'[t] = pc[t] /\ req'[t] = req[t]
  BY <1>1, <1>2 DEF CardTypes
<1>5. Own(s)'
  BY <1>2, <1>4 DEF Begin, Own, Serving, ReadIsCurrent, HasRead, NeedsBoth, tableVars
<1>6. \A t \in Sessions \ {s} : Kept(t)
  BY <1>2, <1>4, AgreeSelf DEF Kept, tableVars
<1>7. \A t \in Sessions : Own(t)'
  BY <1>1, <1>5, <1>6, KeptOwn DEF CardTypes
<1>8. PurchasesRecorded'
  BY <1>2 DEF CardInv, PurchasesRecorded, tableVars
<1> QED
  BY <1>3, <1>7, <1>8 DEF CardInv, Own

\* The step that locks a row, and reads the purchases if it is a card.
Locks(s, row, stage) ==
    /\ Available(s, row) /\ Take(s, row) /\ Read(s, row)
    /\ pc' = [pc EXCEPT ![s] = stage]
    /\ UNCHANGED <<tableVars, req>>

LEMMA LocksFrame ==
    ASSUME CardInv, NEW s \in Sessions, NEW row \in Rows, NEW stage \in Stages,
           Locks(s, row, stage)
    PROVE  /\ CardTypes' /\ PurchasesRecorded'
           /\ pc'[s] = stage /\ lock'[row] = s
           /\ \A x \in Rows : lock[x] = s => lock'[x] = s
           /\ seen'[s] = IF row \in Cards THEN purchase ELSE seen[s]
           /\ \A t \in Sessions \ {s} : Kept(t)
<1>1. CardTypes
  BY DEF CardInv
<1>2. /\ LockTypeOK' /\ lock'[row] = s
      /\ \A x \in Rows, t \in Sessions : lock[x] = t => lock'[x] = t
  BY <1>1, TakeFrame DEF Locks
<1>3. /\ seen'[s] = IF row \in Cards THEN purchase ELSE seen[s]
      /\ DOMAIN seen' = Sessions /\ \A t \in Sessions : DOMAIN seen'[t] = Purchases
      /\ \A t \in Sessions \ {s} : seen'[t] = seen[t]
  BY <1>1 DEF Locks, Read, CardTypes
<1>4. /\ pc'[s] = stage /\ pc' \in [Sessions -> Stages]
      /\ \A t \in Sessions \ {s} : pc'[t] = pc[t]
  BY <1>1 DEF Locks, CardTypes
<1>5. CardTypes' /\ PurchasesRecorded'
  BY <1>1, <1>2, <1>3, <1>4 DEF CardInv, CardTypes, PurchasesRecorded, Locks, tableVars
<1>6. \A t \in Sessions \ {s} : Kept(t)
  BY <1>2, <1>3, <1>4, AgreeSelf, CreditAssumption DEF Kept, Locks, tableVars
<1> QED
  BY <1>2, <1>3, <1>4, <1>5, <1>6

LEMMA LockFirstKeeps ==
    ASSUME CardInv, NEW s \in Sessions, LockFirst(s)
    PROVE  CardInv'
<1>1. CardTypes /\ \A t \in Sessions : Own(t)
  BY DEF CardInv, Own
<1>2. req[s] \in Requests /\ pc[s] = "first"
  BY <1>1 DEF LockFirst, Own, Serving
<1>3. PICK row \in Rows : row = FirstRow(req[s])
  BY <1>2, RequestRows DEF FirstRow
<1>4. PICK stage \in Stages : stage = IF NeedsBoth(req[s]) THEN "second" ELSE "ready"
  BY DEF Stages
<1>5. Locks(s, row, stage)
  BY <1>3, <1>4 DEF LockFirst, Locks
<1>6. /\ CardTypes' /\ PurchasesRecorded'
      /\ pc'[s] = stage /\ lock'[row] = s
      /\ seen'[s] = IF row \in Cards THEN purchase ELSE seen[s]
      /\ \A t \in Sessions \ {s} : Kept(t)
  BY <1>5, LocksFrame
<1>7. Own(s)'
  <2>1. req'[s] = req[s] /\ purchase' = purchase
    BY <1>5 DEF Locks, tableVars
  <2>2. Serving(s)'
    <3>1. req[s].op = "early" => ReadEligible(s)'
      <4> SUFFICES ASSUME req[s].op = "early" PROVE ReadEligible(s)'
        OBVIOUS
      <4>1. row \in Cards
        BY <1>2, <1>3, RequestRows DEF FirstRow
      <4>2. seen'[s] = purchase
        BY <1>6, <4>1
      <4>3. /\ purchase[req[s].purchase].card = req[s].card
            /\ Unpaid(purchase[req[s].purchase]) # {}
        BY DEF LockFirst, EndsEarly, Eligible
      <4>4. purchase[req[s].purchase] # Nothing
        BY <1>1, <1>2 DEF Own, Serving
      <4> QED
        BY <2>1, <4>2, <4>3, <4>4 DEF ReadEligible
    <3> QED
      BY <1>1, <1>2, <1>3, <1>4, <1>6, <2>1, <3>1, RequestRows
      DEF Own, Serving, HasRead, FirstRow, NeedsBoth
  <2>3. HasRead(s)' => row = req[s].card /\ row \in Cards
    BY <1>2, <1>3, <1>4, <1>6, <2>1, RequestRows DEF HasRead, FirstRow, NeedsBoth
  <2>4. ReadIsCurrent(s)'
    BY <1>6, <2>1, <2>3, AgreeSelf DEF ReadIsCurrent
  <2> QED
    BY <2>2, <2>4 DEF Own
<1>8. \A t \in Sessions : Own(t)'
  BY <1>1, <1>6, <1>7, KeptOwn DEF CardTypes
<1> QED
  BY <1>6, <1>8 DEF CardInv, Own


LEMMA LockSecondKeeps ==
    ASSUME CardInv, NEW s \in Sessions, LockSecond(s)
    PROVE  CardInv'
<1>1. CardTypes /\ \A t \in Sessions : Own(t)
  BY DEF CardInv, Own
<1>2. req[s] \in Requests /\ pc[s] = "second" /\ NeedsBoth(req[s])
  BY <1>1 DEF LockSecond, Own, Serving
<1>3. PICK row \in Rows : row = SecondRow(req[s])
  BY <1>2, RequestRows DEF SecondRow, NeedsBoth
<1>4. Locks(s, row, "ready") /\ "ready" \in Stages
  BY <1>3 DEF LockSecond, Locks, Stages
<1>5. /\ CardTypes' /\ PurchasesRecorded'
      /\ pc'[s] = "ready" /\ lock'[row] = s
      /\ \A x \in Rows : lock[x] = s => lock'[x] = s
      /\ seen'[s] = IF row \in Cards THEN purchase ELSE seen[s]
      /\ \A t \in Sessions \ {s} : Kept(t)
  BY <1>4, LocksFrame
<1>6. req'[s] = req[s] /\ purchase' = purchase
  BY <1>4 DEF Locks, tableVars
<1>7. req[s].card \in Cards /\ req[s].card \in Rows
  BY <1>2, RequestRows
<1>8. lock'[req[s].card] = s /\ Agree(seen'[s], purchase, req[s].card)
  <2>1. CASE req[s].op = "payment"
    BY <1>3, <1>5, <1>7, <2>1, AgreeSelf DEF SecondRow
  <2>2. CASE req[s].op # "payment"
    <3>1. lock[req[s].card] = s /\ Agree(seen[s], purchase, req[s].card)
      BY <1>1, <1>2, <2>2 DEF Own, ReadIsCurrent, HasRead
    <3> QED
      BY <1>5, <1>7, <3>1, AgreeSelf
  <2> QED
    BY <2>1, <2>2
<1>9. Own(s)'
  <2>1. Serving(s)'
    <3>1. req[s].op = "early" => ReadEligible(s)'
      <4> DEFINE p == req[s].purchase
      <4> SUFFICES ASSUME req[s].op = "early" PROVE ReadEligible(s)'
        OBVIOUS
      <4>1. p \in Purchases /\ ReadEligible(s) /\ Agree(seen[s], purchase, req[s].card)
        BY <1>1, <1>2, RequestRows DEF Own, Serving, ReadIsCurrent, HasRead
      <4>2. seen'[s][p] = seen[s][p]
        BY <1>5, <4>1 DEF Agree, InCard, ReadEligible
      <4> QED
        BY <1>6, <4>1, <4>2 DEF ReadEligible
    <3> QED
      BY <1>1, <1>2, <1>5, <1>6, <3>1 DEF Own, Serving, HasRead
  <2>2. ReadIsCurrent(s)'
    BY <1>5, <1>6, <1>8 DEF ReadIsCurrent
  <2> QED
    BY <2>1, <2>2 DEF Own
<1>10. \A t \in Sessions : Own(t)'
  BY <1>1, <1>5, <1>9, KeptOwn DEF CardTypes
<1> QED
  BY <1>5, <1>10 DEF CardInv, Own

-----------------------------------------------------------------------------
(* What a session writes *)

\* What is needed of the row an early payment or the waterfall writes.
LEMMA RowsReplaced ==
    ASSUME NEW x, DOMAIN x = {"card", "rows"}, NEW rows
    PROVE  LET y == [x EXCEPT !.rows = rows] IN DOMAIN y = {"card", "rows"} /\ y.card = x.card
  OBVIOUS

\* Only purchases of the session's card are written, and they stay of that card.
LEMMA WrittenOfCard ==
    ASSUME CardInv, NEW s \in Sessions, Ready(s, req[s].op), req[s].op \in EventOps,
           Accepted(s), Fresh(s),
           NEW p \in OfCard(Written(s), req[s].card)
    PROVE  /\ IsPurchase(Written(s)[p]) /\ Written(s)[p].card = req[s].card
           /\ purchase[p] # Nothing => purchase[p].card = req[s].card
           /\ purchase[p] = Nothing => req[s].op = "purchase" /\ req[s].purchase = p
<1> DEFINE r == req[s]
<1>1. /\ CardTypes /\ PurchasesRecorded /\ pc[s] = "ready" /\ r \in Requests
      /\ Agree(seen[s], purchase, r.card) /\ DOMAIN seen[s] = Purchases
  BY DEF CardInv, Ready, Serving, ReadIsCurrent, HasRead, CardTypes
<1>2. p \in Purchases /\ Written(s)[p] # Nothing /\ Written(s)[p].card = r.card
  BY DEF OfCard
<1>3. ASSUME InCard(seen[s], p, r.card)
      PROVE  purchase[p] = seen[s][p] /\ purchase[p] # Nothing /\ purchase[p].card = r.card
             /\ DOMAIN seen[s][p] = {"card", "rows"}
  BY <1>1, <1>2, <1>3 DEF Agree, InCard, CardTypes, IsPurchase
<1>4. CASE r.op = "purchase"
  <2>1. Written(s) = [seen[s] EXCEPT ![r.purchase] = Built(r.card, r.amount, r.total, month)]
    BY <1>4 DEF Written
  <2>2. CASE p = r.purchase
    <3>1. DOMAIN Written(s)[p] = {"card", "rows"}
      BY <1>1, <1>2, <2>1, <2>2 DEF Built
    <3>2. purchase[p] = Nothing
      <4>1. SUFFICES ASSUME purchase[p] # Nothing PROVE FALSE
        OBVIOUS
      <4>2. PICK q \in Requests : q.op = "purchase" /\ q.purchase = p /\ recorded[q.cmd] # Nothing
        BY <1>1, <1>2, <4>1 DEF PurchasesRecorded
      <4>3. q.cmd = r.cmd
        BY <1>1, <1>4, <2>2, <4>2, CreditAssumption
      <4> QED
        BY <4>2, <4>3 DEF Fresh
    <3> QED
      BY <1>2, <1>4, <2>2, <3>1, <3>2 DEF IsPurchase
  <2>3. CASE p # r.purchase
    <3>1. Written(s)[p] = seen[s][p]
      BY <1>1, <1>2, <2>1, <2>3
    <3> QED
      BY <1>2, <1>3, <3>1 DEF InCard, IsPurchase
  <2> QED
    BY <2>2, <2>3
<1>5. CASE r.op = "payment"
  <2>1. Written(s) = PaidDown(seen[s], r.card, month, Applied(s))
    BY <1>5 DEF Written
  <2>2. CASE seen[s][p] = Nothing \/ seen[s][p].card # r.card
    <3>1. Written(s)[p] = seen[s][p]
      BY <1>2, <2>1, <2>2, Zenon DEF PaidDown
    <3> QED
      BY <1>2, <2>2, <3>1
  <2>3. CASE InCard(seen[s], p, r.card)
    <3>1. \E rows : Written(s)[p] = [seen[s][p] EXCEPT !.rows = rows]
      BY <1>2, <2>1, <2>3 DEF PaidDown, InCard
    <3>2. DOMAIN Written(s)[p] = {"card", "rows"}
      BY <1>3, <2>3, <3>1, RowsReplaced
    <3> QED
      BY <1>2, <1>3, <2>3, <3>2 DEF IsPurchase
  <2> QED
    BY <2>2, <2>3 DEF InCard
<1>6. CASE r.op = "early"
  <2>1. /\ Written(s) = [seen[s] EXCEPT ![r.purchase] = Redistributed(seen[s][r.purchase], Applied(s))]
        /\ seen[s][r.purchase].card = r.card
    BY <1>1, <1>6 DEF Written, CardInv, Serving, HasRead, ReadEligible
  <2>2. CASE p = r.purchase
    <3>1. InCard(seen[s], p, r.card)
      BY <1>1, <1>6, <2>1, <2>2 DEF InCard, CardInv, Serving, HasRead, ReadEligible
    <3>2. \E rows : Written(s)[p] = [seen[s][p] EXCEPT !.rows = rows]
      BY <1>1, <1>2, <2>1, <2>2, Zenon DEF Redistributed
    <3>3. DOMAIN Written(s)[p] = {"card", "rows"}
      BY <1>3, <3>1, <3>2, RowsReplaced
    <3> QED
      BY <1>2, <1>3, <3>1, <3>3 DEF IsPurchase
  <2>3. CASE p # r.purchase
    <3>1. Written(s)[p] = seen[s][p]
      BY <1>1, <1>2, <2>1, <2>3
    <3> QED
      BY <1>2, <1>3, <3>1 DEF InCard, IsPurchase
  <2> QED
    BY <2>2, <2>3
<1> QED
  BY <1>4, <1>5, <1>6 DEF EventOps

\* A commit that writes the purchases of the session's card.
LEMMA WriteKeeps ==
    ASSUME CardInv, NEW s \in Sessions, Ready(s, req[s].op), req[s].op \in EventOps,
           Accepted(s), Fresh(s), Write(s), Leave(s),
           recorded' = [recorded EXCEPT ![req[s].cmd] = req[s]],
           charged' \in [Cards -> Nat]
    PROVE  CardInv'
<1> DEFINE c == req[s].card
           written == OfCard(Written(s), c)
<1>1. CardTypes /\ PurchasesRecorded /\ \A t \in Sessions : Own(t)
  BY DEF CardInv, Own
<1>2. /\ req[s] \in Requests /\ req[s] # Nothing /\ req[s].cmd \in Keys /\ lock[c] = s
      /\ c \in Cards
  BY <1>1, RequestRows DEF Ready, Own, Serving, ReadIsCurrent, HasRead
<1>3. \A p \in written :
        /\ IsPurchase(Written(s)[p]) /\ Written(s)[p].card = c /\ Written(s)[p] # Nothing
        /\ purchase[p] # Nothing => purchase[p].card = c
        /\ purchase[p] = Nothing => req[s].op = "purchase" /\ req[s].purchase = p
  BY WrittenOfCard DEF OfCard
<1>4. /\ DOMAIN purchase' = Purchases
      /\ \A p \in Purchases : purchase'[p] = IF p \in written THEN Written(s)[p] ELSE purchase[p]
  BY DEF Write
<1> HIDE DEF written
<1>5. \A p \in Purchases : IsPurchase(purchase'[p])
  BY <1>1, <1>3, <1>4 DEF CardTypes
<1>6. \A p \in Purchases : purchase[p] # Nothing => purchase'[p] # Nothing
  BY <1>3, <1>4
<1>7. /\ LockTypeOK' /\ pc' \in [Sessions -> Stages]
      /\ req' \in [Sessions -> Requests \cup {Nothing}]
      /\ DOMAIN seen' = Sessions /\ (\A t \in Sessions : DOMAIN seen'[t] = Purchases)
      /\ Own(s)'
      /\ \A t \in Sessions \ {s} :
           /\ pc'[t] = pc[t] /\ req'[t] = req[t] /\ seen'[t] = seen[t]
           /\ \A row \in Rows : lock[row] = t => lock'[row] = t
  BY <1>1, LeaveFrame
<1>8. /\ recorded' \in [Keys -> Requests \cup {Nothing}] /\ recorded'[req[s].cmd] = req[s]
      /\ \A k \in Keys : recorded[k] # Nothing => recorded'[k] # Nothing
  BY <1>1, <1>2 DEF CardTypes
<1>9. CardTypes'
  BY <1>4, <1>5, <1>7, <1>8 DEF CardTypes, IsPurchase
<1>10. PurchasesRecorded'
  <2> SUFFICES ASSUME NEW p \in Purchases, purchase'[p] # Nothing
               PROVE  \E r \in Requests : r.op = "purchase" /\ r.purchase = p
                                          /\ recorded'[r.cmd] # Nothing
    BY DEF PurchasesRecorded
  <2>1. CASE purchase[p] # Nothing
    <3>1. PICK r \in Requests : r.op = "purchase" /\ r.purchase = p /\ recorded[r.cmd] # Nothing
      BY <1>1, <2>1 DEF PurchasesRecorded
    <3>2. r.cmd \in Keys
      BY <3>1, RequestRows DEF EventOps
    <3> QED
      BY <1>8, <3>1, <3>2
  <2>2. CASE purchase[p] = Nothing
    <3>1. req[s].op = "purchase" /\ req[s].purchase = p
      BY <1>3, <1>4, <2>2
    <3> QED
      BY <1>2, <1>8, <3>1
  <2> QED
    BY <2>1, <2>2
<1>11. \A t \in Sessions \ {s} : Kept(t)
  <2> SUFFICES ASSUME NEW t \in Sessions \ {s} PROVE Kept(t)
    OBVIOUS
  <2>1. ASSUME NEW d \in Cards, lock[d] = t
        PROVE  lock'[d] = t /\ Agree(purchase, purchase', d)
    <3>1. d # c
      BY <1>2, <2>1
    <3> HIDE DEF c
    <3>2. \A p \in Purchases : InCard(purchase, p, d) \/ InCard(purchase', p, d) => p \notin written
      BY <1>3, <1>4, <3>1 DEF InCard
    <3> QED
      BY <1>4, <1>7, <2>1, <3>2, CreditAssumption DEF Agree
  <2> QED
    BY <1>6, <1>7, <2>1 DEF Kept
<1>12. \A t \in Sessions : Own(t)'
  BY <1>1, <1>7, <1>11, KeptOwn DEF CardTypes
<1> QED
  BY <1>9, <1>10, <1>12 DEF CardInv, Own

LEMMA ChargeKeeps ==
    ASSUME CardInv, NEW s \in Sessions, Charge(s)
    PROVE  CardInv'
<1>1. /\ Ready(s, req[s].op) /\ req[s].op = "purchase" /\ req[s].op \in EventOps
      /\ Accepted(s) /\ Fresh(s) /\ Write(s) /\ Leave(s)
      /\ recorded' = [recorded EXCEPT ![req[s].cmd] = req[s]]
      /\ charged' = [charged EXCEPT ![req[s].card] = @ + req[s].amount]
  BY DEF Charge, Ready, EventOps
<1>2. req[s] \in Requests /\ charged \in [Cards -> Nat]
  BY <1>1 DEF CardInv, Serving, Ready, CardTypes
<1>3. req[s].amount \in Nat /\ req[s].card \in Cards
  BY <1>1, <1>2, RequestRows
<1>4. charged' \in [Cards -> Nat]
  BY <1>1, <1>2, <1>3
<1> QED
  BY <1>1, <1>4, WriteKeeps

LEMMA PayKeeps ==
    ASSUME CardInv, NEW s \in Sessions, Pay(s)
    PROVE  CardInv'
<1>1. /\ Ready(s, req[s].op) /\ req[s].op \in EventOps
      /\ Accepted(s) /\ Fresh(s) /\ Write(s) /\ Leave(s)
      /\ recorded' = [recorded EXCEPT ![req[s].cmd] = req[s]]
      /\ charged' = charged
  BY DEF Pay, Ready, EventOps
<1>2. charged' \in [Cards -> Nat]
  BY <1>1 DEF CardInv, CardTypes
<1> QED
  BY <1>1, <1>2, WriteKeeps

\* A commit or rollback that leaves the purchases alone.
LEMMA QuietEndKeeps ==
    ASSUME CardInv, NEW s \in Sessions, Leave(s), UNCHANGED <<purchase, charged, recorded>>
    PROVE  CardInv'
<1>1. CardTypes /\ PurchasesRecorded /\ \A t \in Sessions : Own(t)
  BY DEF CardInv, Own
<1>2. /\ LockTypeOK' /\ pc' \in [Sessions -> Stages]
      /\ req' \in [Sessions -> Requests \cup {Nothing}]
      /\ DOMAIN seen' = Sessions /\ (\A t \in Sessions : DOMAIN seen'[t] = Purchases)
      /\ Own(s)'
      /\ \A t \in Sessions \ {s} :
           /\ pc'[t] = pc[t] /\ req'[t] = req[t] /\ seen'[t] = seen[t]
           /\ \A row \in Rows : lock[row] = t => lock'[row] = t
  BY <1>1, LeaveFrame
<1>3. CardTypes' /\ PurchasesRecorded'
  BY <1>1, <1>2 DEF CardTypes, PurchasesRecorded
<1>4. \A t \in Sessions \ {s} : Kept(t)
  BY <1>2, AgreeSelf, CreditAssumption DEF Kept
<1>5. \A t \in Sessions : Own(t)'
  BY <1>1, <1>2, <1>4, KeptOwn DEF CardTypes
<1> QED
  BY <1>3, <1>5 DEF CardInv, Own

-----------------------------------------------------------------------------
LEMMA CardInitially == Init => CardInv
<1> SUFFICES ASSUME Init PROVE CardInv
  OBVIOUS
<1>1. /\ lock = [row \in Rows |-> Nobody] /\ purchase = NoPurchases
      /\ charged = [c \in Cards |-> 0] /\ recorded = [k \in Keys |-> Nothing]
      /\ pc = [s \in Sessions |-> "idle"] /\ req = [s \in Sessions |-> Nothing]
      /\ seen = [s \in Sessions |-> NoPurchases]
  BY DEF Init, LockInit
<1>2. CardTypes
  BY <1>1 DEF CardTypes, LockTypeOK, NoPurchases, IsPurchase, Stages
<1>3. PurchasesRecorded
  BY <1>1 DEF PurchasesRecorded, NoPurchases
<1>4. \A s \in Sessions : Serving(s) /\ ReadIsCurrent(s)
  BY <1>1 DEF Serving, ReadIsCurrent, HasRead
<1> QED
  BY <1>2, <1>3, <1>4 DEF CardInv

LEMMA CardInductive == CardInv /\ [Next]_vars => CardInv'
<1> SUFFICES ASSUME CardInv, [Next]_vars PROVE CardInv'
  OBVIOUS
<1>1. CASE UNCHANGED vars \/ NextMonth
  <2>1. UNCHANGED <<purchase, charged, recorded, lock, pc, req, seen>>
    BY <1>1 DEF vars, tableVars, sessionVars, NextMonth
  <2>2. CardTypes'
    BY <2>1 DEF CardInv, CardTypes, LockTypeOK
  <2>3. PurchasesRecorded'
    BY <2>1 DEF CardInv, PurchasesRecorded
  <2>4. \A s \in Sessions : (Serving(s) /\ ReadIsCurrent(s))'
    BY <2>1 DEF CardInv, Serving, ReadIsCurrent, HasRead, ReadEligible
  <2> QED
    BY <2>2, <2>3, <2>4 DEF CardInv
<1>2. ASSUME NEW s \in Sessions, SessionStep(s) PROVE CardInv'
  <2>1. CASE Replay(s) \/ Preview(s) \/ SetLimit(s) \/ Delete(s) \/ Refuse(s)
             \/ Fail(s) \/ Deadlock(s)
    <3>1. Leave(s) /\ UNCHANGED <<purchase, charged, recorded>>
      BY <2>1 DEF Replay, Preview, SetLimit, Delete, Refuse, Fail, Deadlock, tableVars
    <3> QED
      BY <3>1, QuietEndKeeps
  <2> QED
    BY <1>2, <2>1, BeginKeeps, LockFirstKeeps, LockSecondKeeps, ChargeKeeps, PayKeeps
    DEF SessionStep, Serve
<1> QED
  BY <1>1, <1>2 DEF Next

(***************************************************************************)
(* Whatever clients ask and sessions fail, a session that has read its     *)
(* card's purchases decides on what they are.                              *)
(***************************************************************************)
THEOREM CardsAreReadCurrent == Spec => []CardInv
<1> QED
  BY CardInitially, CardInductive, PTL DEF Spec

\* A purchase is within the limit and the debt that its card has at that moment.
LEMMA ChargeWithin ==
    ASSUME CardInv, NEW s \in Sessions, Charge(s),
           NEW c \in Cards, charged'[c] > charged[c]
    PROVE  /\ card[c].active
           /\ Debt(purchase, c) + (charged'[c] - charged[c]) <= card[c].limit
<1>1. /\ req[s] \in Requests /\ req[s].op = "purchase" /\ pc[s] = "ready"
      /\ charged \in [Cards -> Nat] /\ ReadIsCurrent(s)
  BY DEF Charge, Ready, CardInv, Serving, CardTypes
<1>2. req[s].amount \in Nat /\ req[s].card \in Cards
  BY <1>1, RequestRows
<1>3. charged' = [charged EXCEPT ![req[s].card] = @ + req[s].amount]
  BY DEF Charge
<1>4. c = req[s].card
  <2>1. c # req[s].card => charged'[c] = charged[c] /\ charged[c] \in Nat
    BY <1>1, <1>3
  <2> QED
    BY <2>1
<1>5. charged'[c] - charged[c] = req[s].amount
  BY <1>1, <1>2, <1>3, <1>4
<1>6. Debt(seen[s], c) = Debt(purchase, c)
  <2>1. Agree(seen[s], purchase, c)
    BY <1>1, <1>4 DEF ReadIsCurrent, HasRead
  <2> QED
    BY <2>1, DebtAgree
<1>7. OpenCard(s) /\ Debt(seen[s], c) + req[s].amount <= card[c].limit
  BY <1>1, <1>4 DEF Charge, Accepted, WithinLimit
<1> QED
  BY <1>4, <1>5, <1>6, <1>7 DEF OpenCard

(***************************************************************************)
(* No card is ever charged beyond the limit it has when the purchase       *)
(* commits, whatever purchases, retries, payments and edits of the limit   *)
(* race with it.                                                           *)
(***************************************************************************)
THEOREM LimitAlwaysHolds == Spec => LimitHolds
<1> DEFINE Within == \A c \in Cards :
                       charged'[c] > charged[c] =>
                         /\ card[c].active
                         /\ Debt(purchase, c) + (charged'[c] - charged[c]) <= card[c].limit
<1>1. CardInv /\ [Next]_vars => [Within]_vars
  <2> SUFFICES ASSUME CardInv, Next PROVE Within
    OBVIOUS
  <2>1. ASSUME UNCHANGED charged PROVE Within
    <3>1. \A c \in Cards : charged[c] \in Nat
      BY DEF CardInv, CardTypes
    <3> QED
      BY <2>1, <3>1
  <2>2. ASSUME NEW s \in Sessions, SessionStep(s), ~Charge(s) PROVE UNCHANGED charged
    BY <2>2 DEF SessionStep, Serve, Begin, LockFirst, LockSecond, Pay, Replay, Preview, SetLimit,
                Delete, Refuse, Fail, Deadlock, tableVars
  <2>3. NextMonth => UNCHANGED charged
    BY DEF NextMonth, tableVars
  <2>4. ASSUME NEW s \in Sessions, Charge(s) PROVE Within
    BY <2>4, ChargeWithin
  <2> HIDE DEF Within
  <2> QED
    BY <2>1, <2>2, <2>3, <2>4 DEF Next
<1> QED
  BY <1>1, CardsAreReadCurrent, PTL DEF LimitHolds, Spec

-----------------------------------------------------------------------------
(* Rounding *)

\* Division with remainder stays in the integers.
LEMMA DivisionType ==
    ASSUME NEW n \in Int, NEW d \in Nat \ {0}
    PROVE  /\ n \div d \in Int /\ n % d \in 0 .. d - 1
           /\ n \in Nat => n \div d \in Nat
  OBVIOUS

\* Rounding half up, and where it lands.
LEMMA RoundedType ==
    ASSUME NEW n \in Int, NEW d \in Nat \ {0}
    PROVE  /\ HalfEven(n, d) \in Int /\ HalfUp(n, d) \in Int
           /\ n \in Nat => HalfEven(n, d) \in Nat /\ HalfUp(n, d) \in Nat
<1>1. /\ n \div d \in Int /\ n % d \in 0 .. d - 1
      /\ n \in Nat => n \div d \in Nat
  BY DivisionType
<1>2. HalfEven(n, d) \in {n \div d, n \div d + 1}
  BY DEF HalfEven
<1>3. HalfUp(n, d) \in {n \div d, n \div d + 1}
  BY DEF HalfUp
<1> QED
  BY <1>1, <1>2, <1>3

\* Over four installments at most, equal parts never take more than there is.
LEMMA PartsNeverNegative ==
    ASSUME NEW n \in Nat, NEW d \in 1 .. EvenlyDivided
    PROVE  (d - 1) * HalfEven(n, d) <= n /\ HalfEven(n, d) \in Nat
<1>1. d \in {1, 2, 3, 4}
  BY DEF EvenlyDivided
<1>2. CASE d = 1
  BY <1>2, RoundedType
<1>3. CASE d = 2
  <2>1. HalfEven(n, 2) <= n
    BY DEF HalfEven
  <2> QED
    BY <1>3, <2>1, RoundedType
<1>4. CASE d = 3
  <2>1. 2 * HalfEven(n, 3) <= n
    BY DEF HalfEven
  <2> QED
    BY <1>4, <2>1, RoundedType
<1>5. CASE d = 4
  <2>1. 3 * HalfEven(n, 4) <= n
    BY DEF HalfEven
  <2> QED
    BY <1>5, <2>1, RoundedType
<1> QED
  BY <1>1, <1>2, <1>3, <1>4, <1>5

\* The parts of an amount are one for each installment, and integers.
LEMMA AmountsType ==
    ASSUME NEW n \in Int, NEW d \in Nat \ {0}
    PROVE  /\ DOMAIN InstallmentAmounts(n, d) = 1 .. d
           /\ \A i \in 1 .. d : InstallmentAmounts(n, d)[i] \in Int
           /\ n \in Nat /\ d <= EvenlyDivided =>
                \A i \in 1 .. d : InstallmentAmounts(n, d)[i] \in Nat
<1> DEFINE base == HalfEven(n, d)
<1>1. base \in Int
  BY RoundedType
<1>2. (d - 1) * base \in Int
  <2> HIDE DEF base
  <2> QED
    BY <1>1
<1>3. n \in Nat /\ d <= EvenlyDivided => (d - 1) * base <= n /\ base \in Nat
  <2>1. d <= EvenlyDivided => d \in 1 .. EvenlyDivided
    BY DEF EvenlyDivided
  <2> QED
    BY <2>1, PartsNeverNegative
<1>4. InstallmentAmounts(n, d) =
        [i \in 1 .. d |-> IF i < d THEN base ELSE n - (d - 1) * base]
  BY DEF InstallmentAmounts
<1> HIDE DEF base
<1>5. PICK m \in Int : m = (d - 1) * base
  BY <1>2
<1> QED
  BY <1>1, <1>3, <1>4, <1>5

-----------------------------------------------------------------------------
(* Purchases whose rows fit the tables *)

\* A row the constraints of the table accept.
SoundRow(row) ==
    /\ row \in Installment /\ row.principal > 0 /\ row.interest >= 0
    /\ row.paid >= 0 /\ row.paid <= row.principal

SoundPurchase(x) == x \in Purchase /\ \A i \in DOMAIN x.rows : SoundRow(x.rows[i])

SoundBooks(ps) == \A p \in Purchases : ps[p] # Nothing => SoundPurchase(ps[p])

\* All installments of a card, paid or not.
Held(ps, c) == {x \in Slots(ps) : ps[x[1]].card = c}

\* A sound purchase has its rows numbered from 1.
LEMMA SoundRows ==
    ASSUME NEW x, SoundPurchase(x)
    PROVE  /\ x.card \in Cards /\ Len(x.rows) \in Nat /\ DOMAIN x.rows = 1 .. Len(x.rows)
           /\ IsFiniteSet(DOMAIN x.rows)
           /\ x = [card |-> x.card, rows |-> x.rows]
<1>1. x.card \in Cards /\ x.rows \in Seq(Installment) /\ x = [card |-> x.card, rows |-> x.rows]
  BY DEF SoundPurchase, Purchase
<1>2. Len(x.rows) \in Nat /\ DOMAIN x.rows = 1 .. Len(x.rows)
  BY <1>1
<1>3. IsFiniteSet(1 .. Len(x.rows))
  BY <1>2, FS_Interval
<1> QED
  BY <1>1, <1>2, <1>3

LEMMA SlotsOf ==
    ASSUME NEW ps, SoundBooks(ps), NEW x
    PROVE  x \in Slots(ps) <=>
             \E p \in Purchases : \E i \in DOMAIN ps[p].rows : ps[p] # Nothing /\ x = <<p, i>>
  BY DEF Slots

\* A slot names a purchase and one of its rows.
LEMMA SlotFacts ==
    ASSUME NEW ps, SoundBooks(ps), NEW x \in Slots(ps)
    PROVE  /\ x[1] \in Purchases /\ ps[x[1]] # Nothing /\ SoundPurchase(ps[x[1]])
           /\ x[2] \in DOMAIN ps[x[1]].rows /\ x[2] \in Nat /\ x = <<x[1], x[2]>>
           /\ SoundRow(At(ps, x))
<1>0. PICK p \in Purchases : \E i \in DOMAIN ps[p].rows : ps[p] # Nothing /\ x = <<p, i>>
  BY SlotsOf
<1>1. PICK i \in DOMAIN ps[p].rows : ps[p] # Nothing /\ x = <<p, i>>
  BY <1>0
<1>2. SoundPurchase(ps[p]) /\ SoundRow(ps[p].rows[i])
  BY <1>1 DEF SoundBooks, SoundPurchase
<1>3. i \in Nat
  BY <1>2, SoundRows
<1> QED
  BY <1>1, <1>2, <1>3 DEF At

\* There are finitely many installments.
LEMMA SlotsFinite ==
    ASSUME NEW ps, SoundBooks(ps)
    PROVE  /\ IsFiniteSet(Slots(ps))
           /\ \A c : /\ IsFiniteSet(Held(ps, c)) /\ IsFiniteSet(Pending(ps, c))
                     /\ Pending(ps, c) \in SUBSET Held(ps, c) /\ Held(ps, c) \in SUBSET Slots(ps)
<1> DEFINE known == {p \in Purchases : ps[p] # Nothing}
           part == [p \in known |-> {p} \X DOMAIN ps[p].rows]
<1>1. IsFiniteSet(known)
  BY FinitePurchases, FS_Subset
<1>2. \A p \in known : IsFiniteSet(part[p])
  <2> SUFFICES ASSUME NEW p \in known PROVE IsFiniteSet(part[p])
    OBVIOUS
  <2>1. IsFiniteSet(DOMAIN ps[p].rows)
    BY SoundRows DEF SoundBooks
  <2>2. IsFiniteSet({p})
    BY FS_Singleton
  <2>3. IsFiniteSet({p} \X DOMAIN ps[p].rows)
    BY <2>1, <2>2, FS_Product
  <2> QED
    BY <2>3
<1>3. IsFiniteSet(UNION {part[p] : p \in known})
  <2> HIDE DEF known, part
  <2> QED
    BY <1>1, <1>2, FiniteUnion
<1>4. Slots(ps) \in SUBSET UNION {part[p] : p \in known}
  BY DEF Slots
<1>5. IsFiniteSet(Slots(ps))
  BY <1>3, <1>4, FS_Subset
<1>6. \A c : Held(ps, c) \in SUBSET Slots(ps) /\ Pending(ps, c) \in SUBSET Held(ps, c)
  BY DEF Held, Pending
<1>7. \A c : IsFiniteSet(Held(ps, c))
  BY <1>5, <1>6, FS_Subset
<1>8. \A c : IsFiniteSet(Pending(ps, c))
  BY <1>6, <1>7, FS_Subset
<1> QED
  BY <1>5, <1>6, <1>7, <1>8

\* What a row asks for is a natural number.
LEMMA LeftType ==
    ASSUME NEW row, SoundRow(row)
    PROVE  Left(row) \in Nat /\ row.interest \in Nat /\ row.principal - row.paid \in Nat
           /\ Left(row) = row.principal - row.paid + row.interest
           /\ row.paid \in Int /\ row.principal \in Int /\ row.month \in Nat
  BY DEF SoundRow, Installment, Left

-----------------------------------------------------------------------------
(* The waterfall *)

\* A demand is for the interest, the principal or the late part of a slot.
LEMMA DemandFacts ==
    ASSUME NEW ps, SoundBooks(ps), NEW c, NEW m, NEW d \in Demands(ps, c, m)
    PROVE  /\ d[1] \in {1, 2, 4, 6} /\ d[2] \in Pending(ps, c) /\ d = <<d[1], d[2]>>
           /\ d[1] = 1 => At(ps, d[2]).month < m
           /\ d[1] \in {2, 4} => At(ps, d[2]).month = m
           /\ d[1] = 6 => At(ps, d[2]).month > m /\ Single(ps, d[2])
           /\ Asked(ps, d) \in Nat
<1>1. /\ d[1] \in {1, 2, 4, 6} /\ d[2] \in Pending(ps, c) /\ d = <<d[1], d[2]>>
      /\ d[1] = 1 => At(ps, d[2]).month < m
      /\ d[1] \in {2, 4} => At(ps, d[2]).month = m
      /\ d[1] = 6 => At(ps, d[2]).month > m /\ Single(ps, d[2])
  BY DEF Demands
<1>2. SoundRow(At(ps, d[2]))
  BY <1>1, SlotFacts, SlotsFinite
<1>3. Asked(ps, d) \in Nat
  <2> DEFINE row == At(ps, d[2])
             interest == IF row.interest > row.paid THEN row.interest - row.paid ELSE 0
  <2>1. /\ Left(row) \in Nat /\ row.interest \in Nat /\ row.principal - row.paid \in Nat
        /\ Left(row) = row.principal - row.paid + row.interest
        /\ row.paid \in Int /\ row.principal \in Int
    BY <1>2, LeftType
  <2>2. row.principal > 0
    BY <1>2 DEF SoundRow
  <2>3. Asked(ps, d) = CASE d[1] = 2 -> interest
                         [] d[1] = 4 -> Left(row) - interest
                         [] OTHER -> Left(row)
    BY DEF Asked
  <2> HIDE DEF row
  <2>4. interest \in Nat /\ Left(row) - interest \in Nat
    BY <2>1, <2>2
  <2> HIDE DEF interest
  <2> QED
    BY <1>1, <2>1, <2>3, <2>4
<1> QED
  BY <1>1, <1>3

\* A payment meets finitely many demands.
LEMMA DemandsFinite ==
    ASSUME NEW ps, SoundBooks(ps), NEW c, NEW m
    PROVE  IsFiniteSet(Demands(ps, c, m))
<1>1. IsFiniteSet(Pending(ps, c))
  BY SlotsFinite
<1>2. IsFiniteSet(1 .. 6)
  <2>1. PICK last \in Int : last = 6
    OBVIOUS
  <2>2. IsFiniteSet(1 .. last)
    BY FS_Interval
  <2> QED
    BY <2>1, <2>2
<1>3. IsFiniteSet((1 .. 6) \X Pending(ps, c))
  BY <1>1, <1>2, FS_Product
<1>4. Demands(ps, c, m) \in SUBSET ((1 .. 6) \X Pending(ps, c))
  BY DEF Demands
<1> QED
  BY <1>3, <1>4, FS_Subset

\* What the demands ask, and what a payment of n gives them.
Room(ps, demands) == [d \in demands |-> Asked(ps, d)]

\* What the waterfall gives each demand, of an amount n.
Slice(ps, demands, n) == [d \in demands |-> Given(ps, demands, n, d)]

\* What an installment gets.
Part(ps, demands, n, x) == SumFunctionOnSet(Slice(ps, demands, n), {d \in demands : d[2] = x})

\* Places in the order of the waterfall, compared field by field.
Earlier(x, y) ==
    \/ x[1] < y[1]
    \/ x[1] = y[1] /\ x[2] < y[2]
    \/ x[1] = y[1] /\ x[2] = y[2] /\ x[3] < y[3]
    \/ x[1] = y[1] /\ x[2] = y[2] /\ x[3] = y[3] /\ x[4] < y[4]

\* The order of the waterfall is that of its places.
LEMMA PrecedesIsEarlier ==
    ASSUME NEW ps, NEW d, NEW e
    PROVE  Precedes(ps, d, e) <=> Earlier(Place(ps, d), Place(ps, e))
<1> DEFINE x == Place(ps, d)
           y == Place(ps, e)
           First(k) == x[k] < y[k] /\ \A j \in 1 .. k - 1 : x[j] = y[j]
<1>1. Precedes(ps, d, e) <=> \E k \in 1 .. 4 : First(k)
  BY DEF Precedes
<1> HIDE DEF x, y
<1>2. First(1) <=> x[1] < y[1]
  OBVIOUS
<1>3. First(2) <=> x[1] = y[1] /\ x[2] < y[2]
  <2>1. 1 .. 2 - 1 = {1}
    OBVIOUS
  <2> QED
    BY <2>1
<1>4. First(3) <=> x[1] = y[1] /\ x[2] = y[2] /\ x[3] < y[3]
  <2>1. 1 .. 3 - 1 = {1, 2}
    OBVIOUS
  <2> QED
    BY <2>1
<1>5. First(4) <=> x[1] = y[1] /\ x[2] = y[2] /\ x[3] = y[3] /\ x[4] < y[4]
  <2>1. 1 .. 4 - 1 = {1, 2, 3}
    OBVIOUS
  <2> QED
    BY <2>1
<1> HIDE DEF First
<1>6. (\E k \in 1 .. 4 : First(k)) <=> First(1) \/ First(2) \/ First(3) \/ First(4)
  <2>1. 1 .. 4 = {1, 2, 3, 4}
    OBVIOUS
  <2> QED
    BY <2>1
<1>7. Earlier(x, y) <=> First(1) \/ First(2) \/ First(3) \/ First(4)
  BY <1>2, <1>3, <1>4, <1>5 DEF Earlier
<1> QED
  BY <1>1, <1>6, <1>7 DEF x, y

LEMMA PlaceFacts ==
    ASSUME NEW ps, SoundBooks(ps), NEW c, NEW m, NEW d \in Demands(ps, c, m)
    PROVE  LET x == Place(ps, d)
           IN  /\ x[1] \in Int /\ x[2] \in Int /\ x[3] \in Int /\ x[4] \in Int
               /\ x[1] = d[1] /\ x[3] = d[2][2] /\ x[4] = IdOrder[d[2][1]]
<1>1. d[1] \in {1, 2, 4, 6} /\ d[2] \in Slots(ps)
  BY DemandFacts, SlotsFinite
<1>2. d[2][1] \in Purchases /\ d[2][2] \in Nat /\ At(ps, d[2]).month \in Nat
  BY <1>1, SlotFacts, LeftType
<1>3. IdOrder[d[2][1]] \in Nat
  BY <1>2, InstallmentsAssumption
<1> QED
  BY <1>1, <1>2, <1>3 DEF Place

\* The waterfall orders its demands totally.
LEMMA DemandsOrdered ==
    ASSUME NEW ps, SoundBooks(ps), NEW c, NEW m
    PROVE  LET demands == Demands(ps, c, m)
           IN  /\ \A d \in demands : ~Precedes(ps, d, d)
               /\ \A d, e, f \in demands :
                    Precedes(ps, d, e) /\ Precedes(ps, e, f) => Precedes(ps, d, f)
               /\ \A d, e \in demands : d = e \/ Precedes(ps, d, e) \/ Precedes(ps, e, d)
<1> DEFINE demands == Demands(ps, c, m)
           place(d) == Place(ps, d)
<1>1. \A d \in demands :
        place(d)[1] \in Int /\ place(d)[2] \in Int /\ place(d)[3] \in Int /\ place(d)[4] \in Int
  BY PlaceFacts
<1>2. \A d, e \in demands : Precedes(ps, d, e) <=> Earlier(place(d), place(e))
  BY PrecedesIsEarlier
<1>3. ASSUME NEW d \in demands, NEW e \in demands,
             place(d)[1] = place(e)[1], place(d)[3] = place(e)[3], place(d)[4] = place(e)[4]
      PROVE  d = e
  <2>1. d[1] = e[1] /\ d[2][2] = e[2][2] /\ IdOrder[d[2][1]] = IdOrder[e[2][1]]
    BY <1>3, PlaceFacts
  <2>2. /\ d = <<d[1], d[2]>> /\ e = <<e[1], e[2]>>
        /\ d[2] \in Slots(ps) /\ e[2] \in Slots(ps)
    BY DemandFacts, SlotsFinite
  <2>3. /\ d[2][1] \in Purchases /\ e[2][1] \in Purchases
        /\ d[2] = <<d[2][1], d[2][2]>> /\ e[2] = <<e[2][1], e[2][2]>>
    BY <2>2, SlotFacts
  <2>4. d[2][1] = e[2][1]
    BY <2>1, <2>3, InstallmentsAssumption
  <2> QED
    BY <2>1, <2>2, <2>3, <2>4
<1> HIDE DEF demands, place
<1>4. \A d \in demands : ~Earlier(place(d), place(d))
  BY <1>1 DEF Earlier
<1>5. \A d, e, f \in demands :
        Earlier(place(d), place(e)) /\ Earlier(place(e), place(f)) => Earlier(place(d), place(f))
  BY <1>1 DEF Earlier
<1>6. \A d, e \in demands : d = e \/ Earlier(place(d), place(e)) \/ Earlier(place(e), place(d))
  BY <1>1, <1>3 DEF Earlier
<1>7. /\ \A d \in demands : ~Precedes(ps, d, d)
      /\ \A d, e, f \in demands :
           Precedes(ps, d, e) /\ Precedes(ps, e, f) => Precedes(ps, d, f)
      /\ \A d, e \in demands : d = e \/ Precedes(ps, d, e) \/ Precedes(ps, e, d)
  BY <1>2, <1>4, <1>5, <1>6
<1> QED
  BY <1>7 DEF demands

\* The total of the demands is their sum.
LEMMA TotalIsSum ==
    ASSUME NEW ps, NEW demands, NEW S \in SUBSET demands, IsFiniteSet(demands)
    PROVE  SumFunction([d \in S |-> Asked(ps, d)]) = SumFunctionOnSet(Room(ps, demands), S)
<1>1. IsFiniteSet(S)
  BY FS_Subset
<1>2. \A d \in S : [e \in S |-> Asked(ps, e)][d] = Room(ps, demands)[d]
  BY DEF Room
<1>3. SumFunctionOnSet([d \in S |-> Asked(ps, d)], S) = SumFunctionOnSet(Room(ps, demands), S)
  <2>1. PICK f : f = [d \in S |-> Asked(ps, d)]
    OBVIOUS
  <2> QED
    BY <1>1, <1>2, <2>1, SumCongruence
<1> QED
  BY <1>3 DEF SumFunction

\* The waterfall gives no demand more than it asks, and all of the amount.
LEMMA SlicesAddUp ==
    ASSUME NEW ps, SoundBooks(ps), NEW c, NEW m, NEW n \in Nat
    PROVE  LET demands == Demands(ps, c, m)
               slice == Slice(ps, demands, n)
           IN  /\ \A d \in demands : slice[d] \in Nat /\ slice[d] <= Asked(ps, d)
               /\ Exhausts(ps, c, m, n) => SumFunctionOnSet(slice, demands) = n
<1> DEFINE demands == Demands(ps, c, m)
           slice == Slice(ps, demands, n)
           room == Room(ps, demands)
           lt == {de \in demands \X demands : Precedes(ps, de[1], de[2])}
           rank == [d \in demands |-> Cardinality({e \in demands : <<e, d>> \in lt})]
           left(d) == LeftFor(d, demands, rank, room, n)
<1>1. IsFiniteSet(demands) /\ \A d \in demands : room[d] = Asked(ps, d) /\ room[d] \in Nat
  BY DemandsFinite, DemandFacts DEF Room
<1>2. \A d, e \in demands : <<d, e>> \in lt <=> Precedes(ps, d, e)
  OBVIOUS
<1>3. /\ \A d \in demands : <<d, d>> \notin lt
      /\ \A d, e, f \in demands : <<d, e>> \in lt /\ <<e, f>> \in lt => <<d, f>> \in lt
      /\ \A d, e \in demands : d = e \/ <<d, e>> \in lt \/ <<e, d>> \in lt
  <2> HIDE DEF lt, demands
  <2>1. /\ \A d \in demands : ~Precedes(ps, d, d)
        /\ \A d, e, f \in demands :
             Precedes(ps, d, e) /\ Precedes(ps, e, f) => Precedes(ps, d, f)
        /\ \A d, e \in demands : d = e \/ Precedes(ps, d, e) \/ Precedes(ps, e, d)
    BY DemandsOrdered DEF demands
  <2> QED
    BY <1>2, <2>1
<1>4. lt \in SUBSET (demands \X demands)
  OBVIOUS
<1>5. \A d \in demands : rank[d] = Cardinality({e \in demands : <<e, d>> \in lt})
  OBVIOUS
<1> HIDE DEF lt, rank, demands
<1>6. /\ \A d \in demands : rank[d] \in Nat
      /\ \A d, e \in demands : rank[d] < rank[e] <=> <<d, e>> \in lt
      /\ \A d, e \in demands : rank[d] = rank[e] => d = e
  BY <1>1, <1>3, <1>4, <1>5, OrderRanks
<1>7. \A d \in demands : slice[d] = IF left(d) <= 0 THEN 0 ELSE Least(left(d), room[d])
  <2> SUFFICES ASSUME NEW d \in demands
               PROVE  slice[d] = IF left(d) <= 0 THEN 0 ELSE Least(left(d), room[d])
    OBVIOUS
  <2> DEFINE before == {e \in demands : Precedes(ps, e, d)}
             rest == n - SumFunction([e \in before |-> Asked(ps, e)])
  <2>1. before = {e \in demands : rank[e] < rank[d]}
    BY <1>2, <1>6
  <2>2. SumFunction([e \in before |-> Asked(ps, e)]) = SumFunctionOnSet(room, before)
    BY <1>1, TotalIsSum
  <2>3. left(d) = rest
    BY <2>1, <2>2 DEF LeftFor
  <2>4. slice[d] = IF rest <= 0 THEN 0 ELSE IF rest <= Asked(ps, d) THEN rest ELSE Asked(ps, d)
    BY DEF Slice, Given, TotalOf
  <2> HIDE DEF rest, left
  <2> QED
    BY <1>1, <2>3, <2>4 DEF Least
<1>8. \A d \in demands : left(d) \in Int
  <2> SUFFICES ASSUME NEW d \in demands PROVE left(d) \in Int
    OBVIOUS
  <2>1. IsFiniteSet({e \in demands : rank[e] < rank[d]})
    BY <1>1, FS_Subset
  <2> HIDE DEF room
  <2>2. SumFunctionOnSet(room, {e \in demands : rank[e] < rank[d]}) \in Nat
    BY <1>1, <2>1, SumBounds
  <2> QED
    BY <2>2 DEF LeftFor
<1> HIDE DEF slice, room
<1>9. \A d \in demands : slice[d] \in Nat /\ slice[d] <= Asked(ps, d)
  <2> HIDE DEF left
  <2> QED
    BY <1>1, <1>7, <1>8 DEF Least
<1>10. SumFunctionOnSet(slice, demands) = Least(n, SumFunctionOnSet(room, demands))
  BY <1>1, <1>6, <1>7, FillingAddsUp
<1>11. Exhausts(ps, c, m, n) => n <= SumFunctionOnSet(room, demands)
  <2>1. SumFunction([d \in demands |-> Asked(ps, d)]) = SumFunctionOnSet(room, demands)
    BY <1>1, TotalIsSum DEF room
  <2> QED
    BY <2>1 DEF Exhausts, TotalOf, demands
<1>12. Exhausts(ps, c, m, n) => SumFunctionOnSet(slice, demands) = n
  BY <1>10, <1>11 DEF Least
<1> QED
  BY <1>9, <1>12 DEF slice, demands

\* What installment x gets of a payment of n.
Share(ps, c, m, n, x) == Part(ps, Demands(ps, c, m), n, x)

\* What a slot gets is at most what it asks, and nothing when it is not due.
LEMMA ShareFacts ==
    ASSUME NEW ps, SoundBooks(ps), NEW c, NEW m \in Int, NEW n \in Nat, NEW x
    PROVE  /\ Share(ps, c, m, n, x) \in Nat
           /\ x \notin Pending(ps, c) => Share(ps, c, m, n, x) = 0
           /\ x \in Pending(ps, c) => Share(ps, c, m, n, x) <= Left(At(ps, x))
           /\ x \in Pending(ps, c) /\ At(ps, x).month > m /\ ~Single(ps, x)
                => Share(ps, c, m, n, x) = 0
<1> DEFINE demands == Demands(ps, c, m)
           slice == Slice(ps, demands, n)
           room == Room(ps, demands)
           own == {d \in demands : d[2] = x}
<1>1. \A d \in demands : slice[d] \in Nat /\ room[d] \in Nat /\ slice[d] <= room[d]
                         /\ room[d] = Asked(ps, d)
  BY SlicesAddUp, DemandFacts DEF Room
<1>2. IsFiniteSet(own)
  BY DemandsFinite, FS_Subset
<1>3. Share(ps, c, m, n, x) = SumFunctionOnSet(slice, own)
  BY DEF Share, Part
<1>4. own = {} => SumFunctionOnSet(slice, own) = 0
  <2>1. SumFunctionOnSet(slice, {}) = 0
    BY SumEmpty
  <2> HIDE DEF own
  <2> QED
    BY <2>1
<1>5. \A d \in own : /\ d = <<d[1], x>> /\ x \in Pending(ps, c)
                     /\ d[1] \in {1, 2, 4, 6}
                     /\ d[1] = 1 => At(ps, x).month < m
                     /\ d[1] \in {2, 4} => At(ps, x).month = m
                     /\ d[1] = 6 => At(ps, x).month > m /\ Single(ps, x)
  BY DemandFacts
<1>6. SumFunctionOnSet(slice, own) \in Nat
      /\ SumFunctionOnSet(slice, own) <= SumFunctionOnSet(room, own)
  <2>1. \A d \in own : slice[d] \in Nat /\ room[d] \in Nat /\ slice[d] <= room[d]
    BY <1>1
  <2> HIDE DEF own, slice, room
  <2>2. \A d \in own : slice[d] \in Int /\ room[d] \in Int /\ slice[d] <= room[d]
    BY <2>1
  <2> QED
    BY <1>2, <2>1, <2>2, SumBounds, SumMonotone
<1>7. x \notin Pending(ps, c) => own = {}
  BY <1>5
<1>8. ASSUME x \in Pending(ps, c), At(ps, x).month > m, ~Single(ps, x)
      PROVE  own = {}
  <2>1. At(ps, x).month \in Nat
    BY <1>8, SlotsFinite, SlotFacts, LeftType
  <2> QED
    BY <1>5, <1>8, <2>1
<1>9. ASSUME x \in Pending(ps, c) PROVE SumFunctionOnSet(room, own) <= Left(At(ps, x))
  <2>1. Left(At(ps, x)) \in Nat /\ At(ps, x).month \in Nat
    BY <1>9, SlotsFinite, SlotFacts, LeftType
  <2>2. SumFunctionOnSet(room, {}) = 0
    BY SumEmpty
  <2>3. \A d \in own : room[d] \in Nat
    BY <1>1
  <2>4. ASSUME NEW k \in {1, 6}, \A d \in own : d[1] = k
        PROVE  SumFunctionOnSet(room, own) <= Left(At(ps, x))
    <3>1. CASE own = {}
      BY <2>1, <2>2, <3>1
    <3>2. CASE own # {}
      <4>1. PICK d \in own : TRUE
        BY <3>2
      <4>2. own \ {d} = {} /\ d = <<k, x>>
        BY <1>5, <2>4, <4>1
      <4>3. room[d] = Left(At(ps, x))
        BY <1>1, <4>1, <4>2 DEF Asked
      <4> HIDE DEF own, room
      <4>4. \A e \in own : room[e] \in Int
        BY <2>3
      <4>5. SumFunctionOnSet(room, own) = room[d] + SumFunctionOnSet(room, own \ {d})
        BY <1>2, <4>1, <4>4, SumRemove
      <4> QED
        BY <2>1, <2>2, <4>2, <4>3, <4>5
    <3> QED
      BY <3>1, <3>2
  <2>5. CASE At(ps, x).month < m
    <3>1. \A d \in own : d[1] = 1
      BY <1>5, <2>1, <2>5
    <3> QED
      BY <2>4, <3>1
  <2>6. CASE At(ps, x).month > m
    <3>1. \A d \in own : d[1] = 6
      BY <1>5, <2>1, <2>6
    <3> QED
      BY <2>4, <3>1
  <2>7. CASE At(ps, x).month = m
    <3>1. \A d \in own : d = <<2, x>> \/ d = <<4, x>>
      BY <1>5, <2>1, <2>7
    <3>2. <<2, x>> \in own /\ <<4, x>> \in own
      BY <1>9, <2>7 DEF Demands
    <3>3. own = {<<2, x>>, <<4, x>>} /\ <<2, x>> # <<4, x>>
      <4> HIDE DEF own
      <4> QED
        BY <3>1, <3>2
    <3>4. room[<<2, x>>] + room[<<4, x>>] = Left(At(ps, x))
      <4>1. room[<<2, x>>] = Asked(ps, <<2, x>>) /\ room[<<4, x>>] = Asked(ps, <<4, x>>)
        BY <1>1, <3>2
      <4>2. Asked(ps, <<4, x>>) = Left(At(ps, x)) - Asked(ps, <<2, x>>)
        BY DEF Asked
      <4>3. room[<<2, x>>] \in Nat
        BY <2>3, <3>2
      <4> QED
        BY <2>1, <4>1, <4>2, <4>3
    <3> HIDE DEF own, room
    <3>5. \A e \in own : room[e] \in Int
      BY <2>3
    <3>6. PICK a, b : a = <<2, x>> /\ b = <<4, x>>
      OBVIOUS
    <3>7. SumFunctionOnSet(room, own) = room[a] + SumFunctionOnSet(room, own \ {a})
      BY <1>2, <3>2, <3>5, <3>6, SumRemove
    <3>8. own \ {a} = {b} /\ {b} \ {b} = {}
      BY <3>3, <3>6
    <3>9. IsFiniteSet({b}) /\ \A e \in {b} : room[e] \in Int
      BY <3>2, <3>5, <3>6, FS_Singleton
    <3>10. SumFunctionOnSet(room, {b}) = room[b] + SumFunctionOnSet(room, {b} \ {b})
      BY <3>9, SumRemove
    <3>11. room[a] \in Nat /\ room[b] \in Nat
      BY <2>3, <3>2, <3>6
    <3>12. SumFunctionOnSet(room, {b} \ {b}) = 0
      BY <2>2, <3>8
    <3>13. SumFunctionOnSet(room, own \ {a}) = room[b]
      BY <3>8, <3>10, <3>11, <3>12
    <3>14. room[a] + room[b] = Left(At(ps, x))
      BY <3>4, <3>6
    <3> QED
      BY <2>1, <3>7, <3>13, <3>14
  <2> QED
    BY <2>1, <2>5, <2>6, <2>7
<1>10. x \in Pending(ps, c) => Share(ps, c, m, n, x) <= Left(At(ps, x))
  <2> SUFFICES ASSUME x \in Pending(ps, c) PROVE Share(ps, c, m, n, x) <= Left(At(ps, x))
    OBVIOUS
  <2>1. Left(At(ps, x)) \in Nat
    BY SlotsFinite, SlotFacts, LeftType
  <2>2. SumFunctionOnSet(room, own) \in Nat
    <3>1. \A d \in own : room[d] \in Nat
      BY <1>1
    <3> HIDE DEF own, room
    <3> QED
      BY <1>2, <3>1, SumBounds
  <2> QED
    BY <1>3, <1>6, <1>9, <2>1, <2>2
<1> QED
  BY <1>3, <1>4, <1>6, <1>7, <1>8, <1>10

-----------------------------------------------------------------------------
(* What a payment does to the rows *)

\* The principal a row owes, and the same less the interest of a row that is closed.
Low(row) == IF row.status = "paid" THEN 0 ELSE row.principal - row.paid

\* Its interest is the part of a closed row that may have been forgiven.
High(row) == IF row.status = "paid" THEN -row.interest ELSE row.principal - row.paid

\* A row after it got n.
Paid(row, n) ==
    IF n = 0 THEN row
    ELSE [row EXCEPT !.paid = @ + n, !.status = IF n >= Left(row) THEN "paid" ELSE "partial"]

LEMMA RowFields ==
    ASSUME NEW row \in Installment
    PROVE  row = [principal |-> row.principal, interest |-> row.interest, paid |-> row.paid,
                  status |-> row.status, month |-> row.month]
  BY DEF Installment

LEMMA PaidFields ==
    ASSUME NEW row \in Installment, row.paid \in Int, NEW n \in Nat, n # 0
    PROVE  LET new == Paid(row, n)
           IN  /\ new \in Installment
               /\ new.paid = row.paid + n /\ new.principal = row.principal
               /\ new.interest = row.interest /\ new.month = row.month
               /\ new.status = IF n >= Left(row) THEN "paid" ELSE "partial"
<1> DEFINE new == Paid(row, n)
<1>1. PICK status : status = IF n >= Left(row) THEN "paid" ELSE "partial"
  OBVIOUS
<1>2. new = [row EXCEPT !.paid = @ + n, !.status = status]
  BY <1>1 DEF Paid
<1>3. new = [principal |-> row.principal, interest |-> row.interest, paid |-> row.paid + n,
             status |-> status, month |-> row.month]
  BY <1>2, RowFields
<1>4. status \in {"pending", "partial", "paid"}
  BY <1>1
<1> HIDE DEF new
<1>5. new \in Installment
  BY <1>3, <1>4 DEF Installment
<1> QED
  BY <1>1, <1>3, <1>5 DEF new

\* A payment leaves the row sound and takes from it what it gave.
LEMMA PaidRow ==
    ASSUME NEW row, SoundRow(row), NEW n \in Nat, n <= Left(row), n # 0 => row.status # "paid"
    PROVE  LET new == Paid(row, n)
           IN  /\ new \in Installment /\ new.interest >= 0 /\ new.paid >= 0
               /\ new.month = row.month
               /\ Low(new) >= Low(row) - n /\ High(new) <= High(row) - n
               /\ Low(new) \in Int /\ High(new) \in Int /\ Low(row) \in Int /\ High(row) \in Int
<1> DEFINE new == Paid(row, n)
<1>1. /\ Left(row) \in Nat /\ row.interest \in Nat /\ row.principal \in Int /\ row.paid \in Int
      /\ Left(row) = row.principal - row.paid + row.interest
      /\ row \in Installment /\ row.month \in Nat /\ row.paid >= 0
  BY LeftType DEF SoundRow
<1>2. Low(row) \in Int /\ High(row) \in Int
  BY <1>1 DEF Low, High
<1>3. n = 0 => new = row
  BY DEF Paid
<1>4. n # 0 => /\ new \in Installment
               /\ new.paid = row.paid + n /\ new.principal = row.principal
               /\ new.interest = row.interest /\ new.month = row.month
               /\ new.status = IF n >= Left(row) THEN "paid" ELSE "partial"
  BY <1>1, PaidFields
<1>5. n # 0 => Low(row) = row.principal - row.paid /\ High(row) = row.principal - row.paid
  BY DEF Low, High
<1> HIDE DEF new
<1>6. new \in Installment /\ new.interest >= 0 /\ new.paid >= 0 /\ new.month = row.month
  BY <1>1, <1>3, <1>4
<1>7. Low(new) >= Low(row) - n /\ High(new) <= High(row) - n /\ Low(new) \in Int /\ High(new) \in Int
  <2>1. CASE n = 0
    BY <1>2, <1>3, <2>1
  <2>2. CASE n # 0 /\ n >= Left(row)
    <3>1. n = Left(row) /\ Low(new) = 0 /\ High(new) = -row.interest
      BY <1>1, <1>4, <2>2 DEF Low, High
    <3> QED
      BY <1>1, <1>5, <2>2, <3>1
  <2>3. CASE n # 0 /\ ~(n >= Left(row))
    <3>1. Low(new) = row.principal - (row.paid + n) /\ High(new) = row.principal - (row.paid + n)
      BY <1>4, <2>3 DEF Low, High
    <3> QED
      BY <1>1, <1>5, <2>3, <3>1
  <2> QED
    BY <2>1, <2>2, <2>3
<1> QED
  BY <1>2, <1>6, <1>7 DEF new

LEMMA RowsAreSeq ==
    ASSUME NEW k \in Nat, NEW f \in [1 .. k -> Installment]
    PROVE  f \in Seq(Installment) /\ Len(f) = k
  OBVIOUS

\* Rows of a purchase that are written anew, one by one.
LEMMA RowsWritten ==
    ASSUME NEW x, SoundPurchase(x), NEW f,
           DOMAIN f = DOMAIN x.rows, f = [i \in DOMAIN f |-> f[i]],
           \A i \in DOMAIN x.rows : f[i] \in Installment
    PROVE  LET y == [x EXCEPT !.rows = f]
           IN  /\ y \in Purchase /\ y # Nothing /\ y.card = x.card /\ y.rows = f
               /\ Len(y.rows) = Len(x.rows)
<1>1. /\ x.card \in Cards /\ Len(x.rows) \in Nat /\ DOMAIN x.rows = 1 .. Len(x.rows)
      /\ x = [card |-> x.card, rows |-> x.rows]
  BY SoundRows
<1>2. f \in [1 .. Len(x.rows) -> Installment]
  BY <1>1
<1>3. f \in Seq(Installment) /\ Len(f) = Len(x.rows)
  BY <1>1, <1>2, RowsAreSeq
<1>4. [x EXCEPT !.rows = f] = [card |-> x.card, rows |-> f]
  BY <1>1
<1>5. [card |-> x.card, rows |-> f] \in Purchase
  BY <1>1, <1>3 DEF Purchase
<1> QED
  BY <1>3, <1>4, <1>5, NothingAssumption

\* A payment changes each row by its share, and the purchase by nothing else.
LEMMA PaidDownRows ==
    ASSUME NEW ps, SoundBooks(ps), NEW c, NEW m \in Int, NEW n \in Nat, NEW p \in Purchases
    PROVE  LET qs == PaidDown(ps, c, m, n)
               x == ps[p]
           IN  /\ ~InCard(ps, p, c) => qs[p] = x
               /\ InCard(ps, p, c) =>
                    /\ qs[p] \in Purchase /\ qs[p] # Nothing /\ qs[p].card = c
                    /\ DOMAIN qs[p].rows = DOMAIN x.rows /\ Len(qs[p].rows) = Len(x.rows)
                    /\ \A i \in DOMAIN x.rows :
                         qs[p].rows[i] = Paid(x.rows[i], Share(ps, c, m, n, <<p, i>>))
<1> DEFINE demands == Demands(ps, c, m)
           given(d) == Given(ps, demands, n, d)
           part(x) == SumFunction([d \in {d \in demands : d[2] = x} |-> given(d)])
           qs == PaidDown(ps, c, m, n)
           rows == ps[p].rows
           new == [i \in DOMAIN rows |-> Paid(rows[i], part(<<p, i>>))]
<1>1. qs[p] = IF ps[p] = Nothing \/ ps[p].card # c THEN ps[p] ELSE [ps[p] EXCEPT !.rows = new]
  BY DEF PaidDown, Paid, TotalOf
<1>2. ASSUME NEW x PROVE part(x) = Share(ps, c, m, n, x)
  <2> DEFINE own == {d \in demands : d[2] = x}
  <2>1. IsFiniteSet(own)
    BY DemandsFinite, FS_Subset
  <2>2. PICK f : f = [d \in own |-> given(d)]
    OBVIOUS
  <2>3. \A d \in own : f[d] = Slice(ps, demands, n)[d]
    BY <2>2 DEF Slice
  <2>4. SumFunctionOnSet(f, own) = SumFunctionOnSet(Slice(ps, demands, n), own)
    BY <2>1, <2>3, SumCongruence
  <2>5. part(x) = SumFunctionOnSet(f, own)
    BY <2>2 DEF SumFunction
  <2> QED
    BY <2>4, <2>5 DEF Share, Part
<1> HIDE DEF part
<1>3. ASSUME InCard(ps, p, c)
      PROVE  /\ SoundPurchase(ps[p])
             /\ \A i \in DOMAIN rows : new[i] \in Installment
                                       /\ new[i] = Paid(rows[i], Share(ps, c, m, n, <<p, i>>))
  <2>1. SoundPurchase(ps[p])
    BY <1>3 DEF SoundBooks, InCard
  <2>2. ASSUME NEW i \in DOMAIN rows
        PROVE  /\ new[i] \in Installment
               /\ new[i] = Paid(rows[i], Share(ps, c, m, n, <<p, i>>))
    <3> DEFINE k == Share(ps, c, m, n, <<p, i>>)
    <3>1. new[i] = Paid(rows[i], k)
      BY <1>2
    <3>2. <<p, i>> \in Slots(ps) /\ At(ps, <<p, i>>) = rows[i]
      BY <1>3 DEF Slots, At, InCard
    <3>3. <<p, i>> \in Pending(ps, c) <=> rows[i].status # "paid"
      BY <1>3, <3>2 DEF Pending, InCard
    <3>4. k \in Nat /\ (<<p, i>> \notin Pending(ps, c) => k = 0)
          /\ (<<p, i>> \in Pending(ps, c) => k <= Left(rows[i]))
      BY <3>2, ShareFacts
    <3>5. SoundRow(rows[i]) /\ Left(rows[i]) \in Nat
      BY <2>1, LeftType DEF SoundPurchase
    <3> HIDE DEF k, rows
    <3>6. Paid(rows[i], k) \in Installment
      BY <3>3, <3>4, <3>5, PaidRow
    <3> QED
      BY <3>1, <3>6 DEF k
  <2> QED
    BY <2>1, <2>2
<1>4. InCard(ps, p, c) =>
        /\ qs[p] \in Purchase /\ qs[p] # Nothing /\ qs[p].card = c /\ qs[p].rows = new
        /\ Len(qs[p].rows) = Len(rows)
  <2> SUFFICES ASSUME InCard(ps, p, c)
               PROVE  /\ qs[p] \in Purchase /\ qs[p] # Nothing /\ qs[p].card = c /\ qs[p].rows = new
                      /\ Len(qs[p].rows) = Len(rows)
    OBVIOUS
  <2>1. qs[p] = [ps[p] EXCEPT !.rows = new] /\ ps[p].card = c
    BY <1>1 DEF InCard
  <2>2. SoundPurchase(ps[p]) /\ DOMAIN new = DOMAIN rows /\ new = [i \in DOMAIN new |-> new[i]]
        /\ \A i \in DOMAIN rows : new[i] \in Installment
    BY <1>3
  <2> HIDE DEF new, qs
  <2> QED
    BY <2>1, <2>2, RowsWritten
<1> QED
  BY <1>1, <1>3, <1>4 DEF InCard

-----------------------------------------------------------------------------
(* Sums over the installments of a card *)

\* What the rows of a card owe, and the same less the interest of closed rows.
Lows(ps, c) == SumFunctionOnSet([x \in Held(ps, c) |-> Low(At(ps, x))], Held(ps, c))

Highs(ps, c) == SumFunctionOnSet([x \in Held(ps, c) |-> High(At(ps, x))], Held(ps, c))

\* The two amounts of a sound row.
LEMMA RowBounds ==
    ASSUME NEW row, SoundRow(row)
    PROVE  Low(row) \in Int /\ High(row) \in Int
  BY LeftType DEF Low, High

\* An installment of a card is a sound row of one of its purchases.
LEMMA HeldFacts ==
    ASSUME NEW ps, SoundBooks(ps), NEW c, NEW x \in Held(ps, c)
    PROVE  /\ x = <<x[1], x[2]>> /\ x[1] \in Purchases /\ x[2] \in DOMAIN ps[x[1]].rows
           /\ InCard(ps, x[1], c) /\ At(ps, x) = ps[x[1]].rows[x[2]]
           /\ SoundRow(At(ps, x)) /\ Low(At(ps, x)) \in Int /\ High(At(ps, x)) \in Int
<1>1. x \in Slots(ps) /\ ps[x[1]].card = c
  BY DEF Held
<1>2. /\ x[1] \in Purchases /\ ps[x[1]] # Nothing
      /\ x[2] \in DOMAIN ps[x[1]].rows /\ x = <<x[1], x[2]>>
      /\ SoundRow(At(ps, x))
  BY <1>1, SlotFacts
<1>3. Low(At(ps, x)) \in Int /\ High(At(ps, x)) \in Int
  BY <1>2, RowBounds
<1> QED
  BY <1>1, <1>2, <1>3 DEF At, InCard

\* Every row of a purchase of the card is one of its installments.
LEMMA HeldIs ==
    ASSUME NEW ps, NEW c, NEW p \in Purchases, InCard(ps, p, c), NEW i \in DOMAIN ps[p].rows
    PROVE  <<p, i>> \in Held(ps, c) /\ At(ps, <<p, i>>) = ps[p].rows[i]
  BY DEF Held, Slots, InCard, At

\* The same purchases with as many installments have the same slots.
LEMMA SameHeld ==
    ASSUME NEW ps, SoundBooks(ps), NEW qs, SoundBooks(qs), NEW c,
           \A p \in Purchases : /\ InCard(ps, p, c) <=> InCard(qs, p, c)
                                /\ InCard(ps, p, c) => DOMAIN ps[p].rows = DOMAIN qs[p].rows
    PROVE  Held(ps, c) = Held(qs, c)
<1>1. ASSUME NEW us, NEW vs, SoundBooks(us), NEW x \in Held(us, c),
             \A p \in Purchases : /\ InCard(us, p, c) <=> InCard(vs, p, c)
                                  /\ InCard(us, p, c) => DOMAIN us[p].rows = DOMAIN vs[p].rows
      PROVE  x \in Held(vs, c)
  <2>1. /\ x = <<x[1], x[2]>> /\ x[1] \in Purchases /\ x[2] \in DOMAIN us[x[1]].rows
        /\ InCard(us, x[1], c)
    BY <1>1, HeldFacts
  <2>2. InCard(vs, x[1], c) /\ x[2] \in DOMAIN vs[x[1]].rows
    BY <1>1, <2>1
  <2> QED
    BY <2>1, <2>2, HeldIs
<1>2. \A x \in Held(ps, c) : x \in Held(qs, c)
  BY <1>1
<1>3. \A p \in Purchases : /\ InCard(qs, p, c) <=> InCard(ps, p, c)
                           /\ InCard(qs, p, c) => DOMAIN qs[p].rows = DOMAIN ps[p].rows
  OBVIOUS
<1>4. \A x \in Held(qs, c) : x \in Held(ps, c)
  BY <1>1, <1>3
<1> QED
  BY <1>2, <1>4

\* If every row goes down by what it is given, so do the sums.
LEMMA SumsGoDown ==
    ASSUME NEW ps, SoundBooks(ps), NEW qs, SoundBooks(qs), NEW c, Held(ps, c) = Held(qs, c),
           NEW given, NEW n \in Int,
           \A x \in Held(ps, c) :
             /\ given[x] \in Int
             /\ Low(At(qs, x)) >= Low(At(ps, x)) - given[x]
             /\ High(At(qs, x)) <= High(At(ps, x)) - given[x],
           SumFunctionOnSet(given, Held(ps, c)) = n
    PROVE  /\ Lows(ps, c) \in Int /\ Highs(ps, c) \in Int
           /\ Lows(qs, c) \in Int /\ Highs(qs, c) \in Int
           /\ Lows(qs, c) >= Lows(ps, c) - n /\ Highs(qs, c) <= Highs(ps, c) - n
<1> DEFINE S == Held(ps, c)
<1>1. IsFiniteSet(S)
  BY SlotsFinite
<1>2. PICK a, b, d, e :
        /\ a = [x \in S |-> Low(At(ps, x))] /\ b = [x \in S |-> Low(At(qs, x))]
        /\ d = [x \in S |-> High(At(ps, x))] /\ e = [x \in S |-> High(At(qs, x))]
  OBVIOUS
<1>3. \A x \in S : /\ a[x] \in Int /\ b[x] \in Int /\ d[x] \in Int /\ e[x] \in Int
                   /\ a[x] = Low(At(ps, x)) /\ b[x] = Low(At(qs, x))
                   /\ d[x] = High(At(ps, x)) /\ e[x] = High(At(qs, x))
  BY <1>2, HeldFacts
<1>4. /\ Lows(ps, c) = SumFunctionOnSet(a, S) /\ Lows(qs, c) = SumFunctionOnSet(b, S)
      /\ Highs(ps, c) = SumFunctionOnSet(d, S) /\ Highs(qs, c) = SumFunctionOnSet(e, S)
  BY <1>2 DEF Lows, Highs
<1>5. PICK g, h : /\ g = [x \in S |-> b[x] + given[x]]
                  /\ h = [x \in S |-> e[x] + given[x]]
  OBVIOUS
<1> HIDE DEF S
<1>6. \A x \in S : /\ given[x] \in Int /\ g[x] = b[x] + given[x] /\ h[x] = e[x] + given[x]
                   /\ g[x] \in Int /\ h[x] \in Int /\ a[x] <= g[x] /\ h[x] <= d[x]
  <2>1. \A x \in S : /\ given[x] \in Int
                     /\ Low(At(qs, x)) >= Low(At(ps, x)) - given[x]
                     /\ High(At(qs, x)) <= High(At(ps, x)) - given[x]
    BY DEF S
  <2>2. \A x \in S : g[x] = b[x] + given[x] /\ h[x] = e[x] + given[x]
    BY <1>5
  <2>3. \A x \in S : b[x] >= a[x] - given[x] /\ e[x] <= d[x] - given[x]
    BY <1>3, <2>1
  <2> QED
    BY <1>3, <2>1, <2>2, <2>3
<1>7. \A x \in S : a[x] \in Int /\ b[x] \in Int /\ d[x] \in Int /\ e[x] \in Int
  BY <1>3
<1>8. /\ SumFunctionOnSet(a, S) \in Int /\ SumFunctionOnSet(b, S) \in Int
      /\ SumFunctionOnSet(d, S) \in Int /\ SumFunctionOnSet(e, S) \in Int
  BY <1>1, <1>7, SumType
<1>9. SumFunctionOnSet(given, S) = n
  BY DEF S
<1>10. SumFunctionOnSet(g, S) = SumFunctionOnSet(b, S) + n
  <2>1. SumFunctionOnSet(g, S) = SumFunctionOnSet(b, S) + SumFunctionOnSet(given, S)
    BY <1>1, <1>6, <1>7, SumAdd
  <2> QED
    BY <1>9, <2>1
<1>11. SumFunctionOnSet(h, S) = SumFunctionOnSet(e, S) + n
  <2>1. SumFunctionOnSet(h, S) = SumFunctionOnSet(e, S) + SumFunctionOnSet(given, S)
    BY <1>1, <1>6, <1>7, SumAdd
  <2> QED
    BY <1>9, <2>1
<1>12. SumFunctionOnSet(a, S) <= SumFunctionOnSet(g, S)
  BY <1>1, <1>6, <1>7, SumMonotone
<1>13. SumFunctionOnSet(h, S) <= SumFunctionOnSet(d, S)
  BY <1>1, <1>6, <1>7, SumMonotone
<1> QED
  BY <1>4, <1>8, <1>10, <1>11, <1>12, <1>13

\* A payment that the waterfall exhausts brings the debt down by its amount.
LEMMA PaymentGoesDown ==
    ASSUME NEW ps, SoundBooks(ps), NEW c, NEW m \in Int, NEW n \in Nat,
           Exhausts(ps, c, m, n), SoundBooks(PaidDown(ps, c, m, n))
    PROVE  LET qs == PaidDown(ps, c, m, n)
           IN  /\ Lows(ps, c) \in Int /\ Highs(ps, c) \in Int
               /\ Lows(qs, c) \in Int /\ Highs(qs, c) \in Int
               /\ Lows(qs, c) >= Lows(ps, c) - n /\ Highs(qs, c) <= Highs(ps, c) - n
<1> DEFINE qs == PaidDown(ps, c, m, n)
           S == Held(ps, c)
           demands == Demands(ps, c, m)
           slice == Slice(ps, demands, n)
           at == [d \in demands |-> d[2]]
           given == [x \in S |-> Share(ps, c, m, n, x)]
<1>1. \A p \in Purchases : /\ InCard(ps, p, c) <=> InCard(qs, p, c)
                           /\ InCard(ps, p, c) => DOMAIN ps[p].rows = DOMAIN qs[p].rows
  BY PaidDownRows DEF InCard
<1>2. Held(ps, c) = Held(qs, c)
  <2> HIDE DEF qs
  <2>1. SoundBooks(qs)
    BY DEF qs
  <2> QED
    BY <1>1, <2>1, SameHeld
<1>3. ASSUME NEW x \in S
      PROVE  /\ given[x] \in Int
             /\ Low(At(qs, x)) >= Low(At(ps, x)) - given[x]
             /\ High(At(qs, x)) <= High(At(ps, x)) - given[x]
  <2> DEFINE k == Share(ps, c, m, n, x)
  <2>1. /\ x = <<x[1], x[2]>> /\ x[1] \in Purchases /\ x[2] \in DOMAIN ps[x[1]].rows
        /\ InCard(ps, x[1], c) /\ At(ps, x) = ps[x[1]].rows[x[2]]
        /\ SoundRow(At(ps, x))
    BY HeldFacts
  <2>2. At(qs, x) = Paid(At(ps, x), k)
    BY <2>1, PaidDownRows DEF At
  <2>3. x \in Pending(ps, c) <=> At(ps, x).status # "paid"
    BY DEF Pending, Held
  <2>4. k \in Nat /\ k <= Left(At(ps, x)) /\ (k # 0 => At(ps, x).status # "paid")
    <3>1. k \in Nat /\ Left(At(ps, x)) \in Nat
          /\ (x \notin Pending(ps, c) => k = 0) /\ (x \in Pending(ps, c) => k <= Left(At(ps, x)))
      BY <2>1, ShareFacts, LeftType
    <3> HIDE DEF k
    <3> QED
      BY <2>3, <3>1
  <2> HIDE DEF k, qs
  <2>5. Low(At(qs, x)) >= Low(At(ps, x)) - k /\ High(At(qs, x)) <= High(At(ps, x)) - k
    BY <2>1, <2>2, <2>4, PaidRow
  <2> QED
    BY <2>4, <2>5 DEF k
<1>4. SumFunctionOnSet(given, S) = n
  <2>1. IsFiniteSet(demands) /\ IsFiniteSet(S) /\ \A d \in demands : at[d] \in S
    BY DemandsFinite, SlotsFinite, DemandFacts
  <2>2. \A d \in demands : slice[d] \in Int
    BY SlicesAddUp
  <2>3. SumFunctionOnSet(slice, demands) = n
    BY SlicesAddUp
  <2>4. given = [x \in S |-> SumFunctionOnSet(slice, {d \in demands : at[d] = x})]
    <3>1. \A x : {d \in demands : at[d] = x} = {d \in demands : d[2] = x}
      OBVIOUS
    <3> QED
      BY <3>1 DEF Share, Part
  <2> HIDE DEF demands, S, slice, at, given
  <2>5. SumFunctionOnSet([x \in S |-> SumFunctionOnSet(slice, {d \in demands : at[d] = x})], S)
          = SumFunctionOnSet(slice, demands)
    BY <2>1, <2>2, SumFibers
  <2> QED
    BY <2>3, <2>4, <2>5
<1>5. SoundBooks(qs)
  OBVIOUS
<1> HIDE DEF qs, given
<1>6. /\ Lows(ps, c) \in Int /\ Highs(ps, c) \in Int
      /\ Lows(qs, c) \in Int /\ Highs(qs, c) \in Int
      /\ Lows(qs, c) >= Lows(ps, c) - n /\ Highs(qs, c) <= Highs(ps, c) - n
  BY <1>2, <1>3, <1>4, <1>5, SumsGoDown
<1> QED
  BY <1>6 DEF qs

-----------------------------------------------------------------------------
(* What an early payment does to the rows *)

\* A row after an early payment left it with a share of the remainder.
Spread(row, share) ==
    IF row.paid + share <= 0
    THEN [row EXCEPT !.paid = row.principal, !.status = "paid"]
    ELSE [row EXCEPT !.principal = row.paid + share,
                     !.status = IF share <= 0 THEN "paid" ELSE "pending"]

LEMMA RowClosed ==
    ASSUME NEW row \in Installment, NEW n, NEW status, NEW new,
           new = [row EXCEPT !.paid = n, !.status = status]
    PROVE  new = [principal |-> row.principal, interest |-> row.interest, paid |-> n,
                  status |-> status, month |-> row.month]
  BY DEF Installment

LEMMA RowReset ==
    ASSUME NEW row \in Installment, NEW n, NEW status, NEW new,
           new = [row EXCEPT !.principal = n, !.status = status]
    PROVE  new = [principal |-> n, interest |-> row.interest, paid |-> row.paid,
                  status |-> status, month |-> row.month]
  BY DEF Installment

LEMMA SpreadFields ==
    ASSUME NEW row \in Installment, row.paid \in Int, row.principal \in Int, NEW share \in Int
    PROVE  LET new == Spread(row, share)
               closes == row.paid + share <= 0
           IN  /\ new \in Installment
               /\ new.interest = row.interest /\ new.month = row.month
               /\ new.paid = IF closes THEN row.principal ELSE row.paid
               /\ new.principal = IF closes THEN row.principal ELSE row.paid + share
               /\ new.status = IF closes \/ share <= 0 THEN "paid" ELSE "pending"
<1> DEFINE new == Spread(row, share)
           closes == row.paid + share <= 0
<1>1. PICK paid \in Int, principal \in Int, status \in {"paid", "pending"} :
        /\ paid = IF closes THEN row.principal ELSE row.paid
        /\ principal = IF closes THEN row.principal ELSE row.paid + share
        /\ status = IF closes \/ share <= 0 THEN "paid" ELSE "pending"
  OBVIOUS
<1>2. new = [principal |-> principal, interest |-> row.interest, paid |-> paid,
             status |-> status, month |-> row.month]
  <2>1. CASE closes
    <3>1. new = [row EXCEPT !.paid = row.principal, !.status = "paid"]
      BY <2>1 DEF Spread
    <3>2. paid = row.principal /\ status = "paid" /\ principal = row.principal
      BY <1>1, <2>1
    <3> HIDE DEF new
    <3>4. new = [row EXCEPT !.paid = paid, !.status = status]
      BY <3>1, <3>2
    <3>5. new = [principal |-> row.principal, interest |-> row.interest, paid |-> paid,
                 status |-> status, month |-> row.month]
      BY <3>4, RowClosed
    <3> QED
      BY <3>2, <3>5
  <2>2. CASE ~closes
    <3>1. new = [row EXCEPT !.principal = row.paid + share,
                            !.status = IF share <= 0 THEN "paid" ELSE "pending"]
      BY <2>2 DEF Spread
    <3>2. /\ paid = row.paid /\ principal = row.paid + share
          /\ status = IF share <= 0 THEN "paid" ELSE "pending"
      BY <1>1, <2>2
    <3> HIDE DEF new, closes
    <3>3. new = [row EXCEPT !.principal = principal, !.status = status]
      BY <3>1, <3>2
    <3>5. new = [principal |-> principal, interest |-> row.interest, paid |-> row.paid,
                 status |-> status, month |-> row.month]
      BY <3>3, RowReset
    <3> QED
      BY <3>2, <3>5
  <2> QED
    BY <2>1, <2>2
<1> HIDE DEF new
<1>3. new \in Installment
  BY <1>1, <1>2 DEF Installment
<1> QED
  BY <1>1, <1>2, <1>3 DEF new

\* It is sound, and its two amounts are on both sides of the share.
LEMMA SpreadRow ==
    ASSUME NEW row, SoundRow(row), NEW share \in Int
    PROVE  LET new == Spread(row, share)
           IN  /\ new \in Installment /\ new.interest >= 0 /\ new.paid >= 0
               /\ share \in Nat => Low(new) >= share /\ High(new) <= share
<1> DEFINE new == Spread(row, share)
<1>1. /\ row.interest \in Nat /\ row.principal \in Int /\ row.paid \in Int
      /\ row \in Installment /\ row.paid >= 0 /\ row.principal > 0
  BY LeftType DEF SoundRow
<1>2. /\ new \in Installment
      /\ new.interest = row.interest
      /\ new.paid = IF row.paid + share <= 0 THEN row.principal ELSE row.paid
      /\ new.principal = IF row.paid + share <= 0 THEN row.principal ELSE row.paid + share
      /\ new.status = IF row.paid + share <= 0 \/ share <= 0 THEN "paid" ELSE "pending"
  BY <1>1, SpreadFields
<1> HIDE DEF new
<1>3. new \in Installment /\ new.interest >= 0 /\ new.paid >= 0
  BY <1>1, <1>2
<1>4. ASSUME share \in Nat PROVE Low(new) >= share /\ High(new) <= share
  <2>1. CASE share = 0
    <3>1. Low(new) = 0 /\ High(new) = -row.interest
      BY <1>2, <2>1 DEF Low, High
    <3> QED
      BY <1>1, <2>1, <3>1
  <2>2. CASE share > 0
    <3>1. ~(row.paid + share <= 0) /\ ~(share <= 0)
      BY <1>1, <1>4, <2>2
    <3>2. new.status # "paid" /\ new.principal = row.paid + share /\ new.paid = row.paid
      BY <1>2, <3>1
    <3>3. Low(new) = new.principal - new.paid /\ High(new) = new.principal - new.paid
      BY <3>2 DEF Low, High
    <3> QED
      BY <1>1, <1>4, <3>2, <3>3
  <2> QED
    BY <1>4, <2>1, <2>2
<1> QED
  BY <1>3, <1>4 DEF new

\* The part of what is left that the installment gets, by its place among the unpaid.
NewShare(pur, amount, i) ==
    InstallmentAmounts(Remaining(pur) - amount, Cardinality(Unpaid(pur)))
        [Cardinality({j \in Unpaid(pur) : j <= i})]

\* The installments an early payment redistributes.
LEMMA UnpaidFacts ==
    ASSUME NEW pur, SoundPurchase(pur)
    PROVE  /\ IsFiniteSet(Unpaid(pur)) /\ Unpaid(pur) \in SUBSET DOMAIN pur.rows
           /\ Unpaid(pur) \in SUBSET Int
           /\ Cardinality(Unpaid(pur)) \in Nat
           /\ Unpaid(pur) # {} => Cardinality(Unpaid(pur)) # 0
           /\ Cardinality(Unpaid(pur)) <= Len(pur.rows)
           /\ \A i \in Unpaid(pur) : Low(pur.rows[i]) = pur.rows[i].principal - pur.rows[i].paid
                                     /\ Low(pur.rows[i]) \in Nat
<1>1. /\ DOMAIN pur.rows = 1 .. Len(pur.rows) /\ Len(pur.rows) \in Nat
      /\ IsFiniteSet(DOMAIN pur.rows)
  BY SoundRows
<1>2. Unpaid(pur) \in SUBSET DOMAIN pur.rows
  BY DEF Unpaid
<1>3. IsFiniteSet(Unpaid(pur)) /\ Cardinality(Unpaid(pur)) <= Cardinality(DOMAIN pur.rows)
  BY <1>1, <1>2, FS_Subset
<1>4. Cardinality(Unpaid(pur)) \in Nat /\ (Unpaid(pur) # {} => Cardinality(Unpaid(pur)) # 0)
  BY <1>3, FS_CardinalityType, FS_EmptySet
<1>5. Cardinality(DOMAIN pur.rows) = Len(pur.rows)
  <2>1. PICK n \in Int : n = Len(pur.rows)
    BY <1>1
  <2>2. Cardinality(1 .. n) = IF 1 > n THEN 0 ELSE n - 1 + 1
    BY FS_Interval
  <2> QED
    BY <1>1, <2>1, <2>2
<1>6. \A i \in Unpaid(pur) : SoundRow(pur.rows[i]) /\ pur.rows[i].status # "paid"
  BY DEF Unpaid, SoundPurchase
<1>7. \A i \in Unpaid(pur) : Low(pur.rows[i]) = pur.rows[i].principal - pur.rows[i].paid
                             /\ Low(pur.rows[i]) \in Nat
  BY <1>6, LeftType DEF Low
<1> QED
  BY <1>1, <1>2, <1>3, <1>4, <1>5, <1>7

LEMMA RemainingType ==
    ASSUME NEW pur, SoundPurchase(pur)
    PROVE  /\ Remaining(pur) \in Nat
           /\ Remaining(pur) = SumFunctionOnSet([i \in Unpaid(pur) |-> Low(pur.rows[i])], Unpaid(pur))
<1>1. PICK f, g : /\ f = [i \in Unpaid(pur) |-> pur.rows[i].principal - pur.rows[i].paid]
                  /\ g = [i \in Unpaid(pur) |-> Low(pur.rows[i])]
  OBVIOUS
<1>2. \A i \in Unpaid(pur) : g[i] \in Nat /\ f[i] = g[i]
  BY <1>1, UnpaidFacts
<1>3. IsFiniteSet(Unpaid(pur))
  BY UnpaidFacts
<1>4. SumFunctionOnSet(f, Unpaid(pur)) = SumFunctionOnSet(g, Unpaid(pur))
  BY <1>2, <1>3, SumCongruence
<1>5. SumFunctionOnSet(g, Unpaid(pur)) \in Nat
  BY <1>2, <1>3, SumBounds
<1>6. Remaining(pur) = SumFunctionOnSet(f, Unpaid(pur))
  BY <1>1 DEF Remaining, SumFunction
<1> QED
  BY <1>1, <1>4, <1>5, <1>6

\* The shares are never negative over few enough installments.
LEMMA NewShares ==
    ASSUME NEW pur, SoundPurchase(pur), NEW amount \in Int, Unpaid(pur) # {}
    PROVE  /\ \A i \in Unpaid(pur) : NewShare(pur, amount, i) \in Int
           /\ Len(pur.rows) <= EvenlyDivided /\ amount <= Remaining(pur) =>
                \A i \in Unpaid(pur) : NewShare(pur, amount, i) \in Nat
           /\ SumFunctionOnSet([i \in Unpaid(pur) |-> NewShare(pur, amount, i)], Unpaid(pur))
                = Remaining(pur) - amount
<1> DEFINE S == Unpaid(pur)
           upto(i) == {j \in S : j <= i}
           rest == Remaining(pur) - amount
           parts == InstallmentAmounts(rest, Cardinality(S))
<1>1. IsFiniteSet(S) /\ S \in SUBSET Int /\ Cardinality(S) \in Nat \ {0}
      /\ Cardinality(S) <= Len(pur.rows) /\ Len(pur.rows) \in Nat /\ rest \in Int
  <2>1. /\ IsFiniteSet(S) /\ S \in SUBSET Int /\ Cardinality(S) \in Nat
        /\ Cardinality(S) # 0 /\ Cardinality(S) <= Len(pur.rows)
    BY UnpaidFacts
  <2>2. Remaining(pur) \in Nat /\ Len(pur.rows) \in Nat
    BY RemainingType, SoundRows
  <2> HIDE DEF S
  <2> QED
    BY <2>1, <2>2
<1>2. \A i \in S : NewShare(pur, amount, i) = parts[Cardinality(upto(i))]
  BY DEF NewShare
<1> HIDE DEF S
<1>3. PICK last \in S : \A i \in S : i <= last
  <2>1. S # {}
    BY DEF S
  <2>2. PICK f : f = [i \in S |-> i]
    OBVIOUS
  <2>3. \A i \in S : f[i] \in Int
    BY <1>1, <2>2
  <2>4. \E e \in S : \A i \in S : f[i] <= f[e]
    BY <1>1, <2>1, <2>3, LastExists
  <2> QED
    BY <2>2, <2>4
<1>4. ASSUME NEW i \in S PROVE Cardinality(upto(i)) \in 1 .. Cardinality(S)
  <2>1. IsFiniteSet(upto(i)) /\ Cardinality(upto(i)) <= Cardinality(S)
    BY <1>1, FS_Subset
  <2>2. upto(i) # {}
    BY <1>1
  <2>3. Cardinality(upto(i)) \in Nat /\ Cardinality(upto(i)) # 0
    BY <2>1, <2>2, FS_CardinalityType, FS_EmptySet
  <2> QED
    BY <1>1, <2>1, <2>3
<1>5. Cardinality(upto(last)) = Cardinality(S)
  <2>1. upto(last) = S
    BY <1>3
  <2> QED
    BY <2>1
<1>6. ASSUME NEW i \in S \ {last} PROVE Cardinality(upto(i)) < Cardinality(S)
  <2>1. last \notin upto(i) /\ upto(i) \in SUBSET S
    BY <1>1, <1>3
  <2>2. Cardinality(upto(i)) # Cardinality(S)
    BY <1>1, <2>1, FS_Subset
  <2> QED
    BY <1>1, <1>4, <2>2
<1>7. /\ DOMAIN parts = 1 .. Cardinality(S)
      /\ \A k \in 1 .. Cardinality(S) : parts[k] \in Int
      /\ rest \in Nat /\ Cardinality(S) <= EvenlyDivided =>
           \A k \in 1 .. Cardinality(S) : parts[k] \in Nat
  BY <1>1, AmountsType
<1> HIDE DEF upto
<1>8. \A i \in S : NewShare(pur, amount, i) \in Int
  BY <1>2, <1>4, <1>7
<1>9. ASSUME Len(pur.rows) <= EvenlyDivided, amount <= Remaining(pur)
      PROVE  \A i \in S : NewShare(pur, amount, i) \in Nat
  <2>1. rest \in Nat /\ Cardinality(S) <= EvenlyDivided
    <3>1. Remaining(pur) \in Nat
      BY RemainingType
    <3> QED
      BY <1>1, <1>9, <3>1 DEF EvenlyDivided
  <2> QED
    BY <1>2, <1>4, <1>7, <2>1
<1>10. SumFunctionOnSet([i \in S |-> NewShare(pur, amount, i)], S) = rest
  <2> DEFINE base == HalfEven(rest, Cardinality(S))
  <2>1. base \in Int
    BY <1>1, RoundedType
  <2>2. \A k \in 1 .. Cardinality(S) :
          parts[k] = IF k < Cardinality(S) THEN base ELSE rest - (Cardinality(S) - 1) * base
    BY DEF InstallmentAmounts
  <2> HIDE DEF base, parts, rest
  <2>3. PICK f : f = [i \in S |-> NewShare(pur, amount, i)]
    OBVIOUS
  <2>4. \A i \in S \ {last} : f[i] = base
    BY <1>2, <1>4, <1>6, <2>2, <2>3
  <2>5. f[last] = rest - (Cardinality(S) - 1) * base
    <3>1. f[last] = parts[Cardinality(S)] /\ Cardinality(S) \in 1 .. Cardinality(S)
      BY <1>2, <1>4, <1>5, <2>3
    <3>2. ~(Cardinality(S) < Cardinality(S))
      BY <1>1
    <3> QED
      BY <2>2, <3>1, <3>2
  <2>6. SumFunctionOnSet(f, S) = rest
    <3>1. EqualParts(f, S, last, base, rest)
      BY <2>4, <2>5 DEF EqualParts
    <3> QED
      BY <1>1, <2>1, <3>1, PartsAddUp
  <2> QED
    BY <2>3, <2>6
<1> QED
  BY <1>8, <1>9, <1>10 DEF S

\* An early payment changes each unpaid row by its share.
LEMMA RedistributedRows ==
    ASSUME NEW pur, SoundPurchase(pur), NEW amount \in Int, Unpaid(pur) # {}
    PROVE  LET new == Redistributed(pur, amount)
           IN  /\ new \in Purchase /\ new # Nothing /\ new.card = pur.card
               /\ DOMAIN new.rows = DOMAIN pur.rows /\ Len(new.rows) = Len(pur.rows)
               /\ \A i \in DOMAIN pur.rows :
                    new.rows[i] = IF i \notin Unpaid(pur) THEN pur.rows[i]
                                  ELSE Spread(pur.rows[i], NewShare(pur, amount, i))
<1> DEFINE rows == [i \in DOMAIN pur.rows |->
                      IF i \notin Unpaid(pur) THEN pur.rows[i]
                      ELSE Spread(pur.rows[i], NewShare(pur, amount, i))]
<1>1. Redistributed(pur, amount) = [pur EXCEPT !.rows = rows]
  BY DEF Redistributed, Spread, NewShare
<1>2. \A i \in DOMAIN pur.rows : rows[i] \in Installment
  <2> SUFFICES ASSUME NEW i \in DOMAIN pur.rows PROVE rows[i] \in Installment
    OBVIOUS
  <2>1. SoundRow(pur.rows[i])
    BY DEF SoundPurchase
  <2>2. CASE i \notin Unpaid(pur)
    BY <2>1, <2>2 DEF SoundRow
  <2>3. CASE i \in Unpaid(pur)
    <3>1. NewShare(pur, amount, i) \in Int
      BY <2>3, NewShares
    <3>2. Spread(pur.rows[i], NewShare(pur, amount, i)) \in Installment
      BY <2>1, <3>1, SpreadRow
    <3> QED
      BY <2>3, <3>2
  <2> QED
    BY <2>2, <2>3
<1>3. DOMAIN rows = DOMAIN pur.rows /\ rows = [i \in DOMAIN rows |-> rows[i]]
  OBVIOUS
<1>4. PICK f : f = rows
  OBVIOUS
<1>6. /\ DOMAIN f = DOMAIN pur.rows /\ f = [i \in DOMAIN f |-> f[i]]
      /\ \A i \in DOMAIN pur.rows : f[i] \in Installment
  BY <1>2, <1>3, <1>4
<1>5. LET y == [pur EXCEPT !.rows = f]
      IN  /\ y \in Purchase /\ y # Nothing /\ y.card = pur.card /\ y.rows = f
          /\ Len(y.rows) = Len(pur.rows)
  <2> HIDE DEF rows
  <2> QED
    BY <1>6, RowsWritten
<1> QED
  BY <1>1, <1>3, <1>4, <1>5

\* An early payment brings the debt down by its amount, if its parts are not negative.
LEMMA EarlyGoesDown ==
    ASSUME NEW ps, SoundBooks(ps), NEW c, NEW p \in Purchases, InCard(ps, p, c),
           NEW amount \in Int, amount <= Remaining(ps[p]), Unpaid(ps[p]) # {},
           Len(ps[p].rows) <= EvenlyDivided, DOMAIN ps = Purchases,
           SoundBooks([ps EXCEPT ![p] = Redistributed(@, amount)])
    PROVE  LET qs == [ps EXCEPT ![p] = Redistributed(@, amount)]
           IN  /\ Lows(ps, c) \in Int /\ Highs(ps, c) \in Int
               /\ Lows(qs, c) \in Int /\ Highs(qs, c) \in Int
               /\ Lows(qs, c) >= Lows(ps, c) - amount /\ Highs(qs, c) <= Highs(ps, c) - amount
<1> DEFINE qs == [ps EXCEPT ![p] = Redistributed(@, amount)]
           pur == ps[p]
           U == Unpaid(pur)
           S == Held(ps, c)
           at == [i \in U |-> <<p, i>>]
<1>1. SoundPurchase(pur) /\ pur.card = c
  BY DEF SoundBooks, InCard
<1>2. /\ qs[p] = Redistributed(pur, amount)
      /\ \A q \in Purchases : q # p => qs[q] = ps[q]
  OBVIOUS
<1> HIDE DEF qs
<1>3. /\ qs[p] # Nothing /\ qs[p].card = c /\ DOMAIN qs[p].rows = DOMAIN pur.rows
      /\ \A i \in DOMAIN pur.rows :
           qs[p].rows[i] = IF i \notin U THEN pur.rows[i]
                           ELSE Spread(pur.rows[i], NewShare(pur, amount, i))
  <2>1. pur.card = c
    BY <1>1
  <2> HIDE DEF pur
  <2> QED
    BY <1>1, <1>2, <2>1, RedistributedRows DEF pur
<1>4. SoundBooks(qs)
  BY DEF qs
<1>5. Held(ps, c) = Held(qs, c)
  <2>1. \A q \in Purchases : /\ InCard(ps, q, c) <=> InCard(qs, q, c)
                             /\ InCard(ps, q, c) => DOMAIN ps[q].rows = DOMAIN qs[q].rows
    BY <1>1, <1>2, <1>3 DEF InCard
  <2> QED
    BY <1>4, <2>1, SameHeld
<1>6. PICK low, share, f :
        /\ low = [i \in U |-> Low(pur.rows[i])]
        /\ share = [i \in U |-> NewShare(pur, amount, i)]
        /\ f = [i \in U |-> low[i] - share[i]]
  OBVIOUS
<1>7. IsFiniteSet(U) /\ IsFiniteSet(S) /\ U \in SUBSET DOMAIN pur.rows
  BY <1>1, UnpaidFacts, SlotsFinite
<1>8. \A i \in U : /\ low[i] = Low(pur.rows[i]) /\ low[i] \in Int
                   /\ share[i] = NewShare(pur, amount, i) /\ share[i] \in Nat
                   /\ f[i] = low[i] - share[i]
  <2>1. \A i \in U : Low(pur.rows[i]) \in Nat /\ NewShare(pur, amount, i) \in Nat
    BY <1>1, UnpaidFacts, NewShares
  <2> QED
    BY <1>6, <2>1
<1>9. SumFunctionOnSet(f, U) = amount
  <2>1. SumFunctionOnSet(low, U) = Remaining(pur) /\ Remaining(pur) \in Nat
    BY <1>1, <1>6, RemainingType
  <2>2. SumFunctionOnSet(share, U) = Remaining(pur) - amount
    BY <1>1, <1>6, NewShares
  <2> HIDE DEF U, pur
  <2>3. \A i \in U : f[i] \in Int /\ share[i] \in Int /\ low[i] = f[i] + share[i]
    BY <1>8
  <2>4. SumFunctionOnSet(low, U) = SumFunctionOnSet(f, U) + SumFunctionOnSet(share, U)
    BY <1>7, <2>3, SumAdd
  <2>5. SumFunctionOnSet(f, U) \in Int
    BY <1>7, <2>3, SumType
  <2> QED
    BY <2>1, <2>2, <2>4, <2>5
<1>10. \A i \in U : at[i] = <<p, i>> /\ at[i] \in S
  BY <1>7, HeldIs
<1>11. PICK given : given = [x \in S |-> SumFunctionOnSet(f, {i \in U : at[i] = x})]
  OBVIOUS
<1> HIDE DEF at
<1>12. SumFunctionOnSet(given, S) = amount
  <2> HIDE DEF U, S, pur
  <2>1. \A i \in U : f[i] \in Int /\ at[i] \in S
    BY <1>8, <1>10
  <2>2. SumFunctionOnSet([x \in S |-> SumFunctionOnSet(f, {i \in U : at[i] = x})], S)
          = SumFunctionOnSet(f, U)
    BY <1>7, <2>1, SumFibers
  <2> QED
    BY <1>9, <1>11, <2>2
<1>13. ASSUME NEW x \in S
       PROVE  /\ given[x] \in Int
              /\ Low(At(qs, x)) >= Low(At(ps, x)) - given[x]
              /\ High(At(qs, x)) <= High(At(ps, x)) - given[x]
  <2>1. /\ x = <<x[1], x[2]>> /\ x[1] \in Purchases /\ x[2] \in DOMAIN ps[x[1]].rows
        /\ At(ps, x) = ps[x[1]].rows[x[2]] /\ SoundRow(At(ps, x))
        /\ Low(At(ps, x)) \in Int /\ High(At(ps, x)) \in Int
    BY HeldFacts
  <2>2. given[x] = SumFunctionOnSet(f, {i \in U : at[i] = x})
    BY <1>11
  <2>3. CASE x[1] = p /\ x[2] \in U
    <3>1. PICK i \in U : x = <<p, i>> /\ i = x[2]
      BY <2>1, <2>3
    <3>2. {j \in U : at[j] = x} = {i} /\ {i} \ {i} = {}
      BY <1>10, <3>1
    <3>3. SumFunctionOnSet(f, {i}) = f[i]
      <4>4. f[i] \in Int
        BY <1>8
      <4>1. IsFiniteSet({i}) /\ \A j \in {i} : f[j] \in Int
        BY <4>4, FS_Singleton
      <4>2. SumFunctionOnSet(f, {i}) = f[i] + SumFunctionOnSet(f, {i} \ {i})
        BY <4>1, SumRemove
      <4>3. SumFunctionOnSet(f, {i} \ {i}) = 0
        BY <3>2, SumEmpty
      <4> QED
        BY <4>1, <4>2, <4>3
    <3>4. At(ps, x) = pur.rows[i] /\ At(qs, x) = Spread(pur.rows[i], share[i])
      BY <1>3, <1>7, <1>8, <2>1, <3>1 DEF At
    <3>5. Low(pur.rows[i]) = High(pur.rows[i])
      BY DEF Low, High, Unpaid
    <3> HIDE DEF pur
    <3>6. Low(At(qs, x)) >= share[i] /\ High(At(qs, x)) <= share[i] /\ At(qs, x) \in Installment
      BY <1>8, <2>1, <3>4, SpreadRow
    <3>7. Low(At(qs, x)) \in Int /\ High(At(qs, x)) \in Int
      BY <3>6 DEF Low, High, Installment
    <3>8. given[x] = f[i]
      BY <2>2, <3>2, <3>3
    <3>9. /\ Low(At(ps, x)) = low[i] /\ High(At(ps, x)) = low[i]
          /\ f[i] = low[i] - share[i] /\ low[i] \in Int /\ share[i] \in Int
      BY <1>8, <3>4, <3>5
    <3> HIDE DEF U
    <3> QED
      BY <3>6, <3>7, <3>8, <3>9
  <2>4. CASE ~(x[1] = p /\ x[2] \in U)
    <3>1. {i \in U : at[i] = x} = {}
      BY <1>10, <2>1, <2>4
    <3>2. given[x] = 0
      BY <2>2, <3>1, SumEmpty
    <3>3. At(qs, x) = At(ps, x)
      BY <1>2, <1>3, <2>1, <2>4 DEF At
    <3> QED
      BY <2>1, <3>2, <3>3
  <2> QED
    BY <2>3, <2>4
<1>14. /\ Lows(ps, c) \in Int /\ Highs(ps, c) \in Int
       /\ Lows(qs, c) \in Int /\ Highs(qs, c) \in Int
       /\ Lows(qs, c) >= Lows(ps, c) - amount /\ Highs(qs, c) <= Highs(ps, c) - amount
  BY <1>4, <1>5, <1>12, <1>13, SumsGoDown
<1> QED
  BY <1>14 DEF qs

-----------------------------------------------------------------------------
(* What a purchase adds *)

\* There are n numbers from 1 to n.
LEMMA CountUp ==
    ASSUME NEW n \in Nat
    PROVE  IsFiniteSet(1 .. n) /\ Cardinality(1 .. n) = n
<1>1. n \in Int
  OBVIOUS
<1>2. IsFiniteSet(1 .. n) /\ Cardinality(1 .. n) = IF 1 > n THEN 0 ELSE n - 1 + 1
  BY <1>1, FS_Interval
<1> QED
  BY <1>1, <1>2

LEMMA ProductType ==
    ASSUME NEW a \in Int, NEW b \in Nat
    PROVE  a * b \in Int /\ (a \in Nat => a * b \in Nat)
  OBVIOUS

\* Rows that fit the tables, with interest and payments that are not negative.
LEMMA FitsIsSound ==
    ASSUME NEW x \in Purchase, RowsFit(x.rows),
           \A i \in DOMAIN x.rows : x.rows[i].interest >= 0 /\ x.rows[i].paid >= 0
    PROVE  SoundPurchase(x)
<1>1. x.rows \in Seq(Installment)
  BY DEF Purchase
<1>2. \A i \in DOMAIN x.rows : x.rows[i] \in Installment
  BY <1>1
<1> QED
  BY <1>2 DEF SoundPurchase, SoundRow, RowsFit

\* The rows of a new purchase are sound and owe its parts.
LEMMA BuiltFacts ==
    ASSUME NEW c \in Cards, NEW amount \in Nat, NEW total \in Nat \ {0}, NEW m \in Nat
    PROVE  LET x == Built(c, amount, total, m)
               parts == InstallmentAmounts(amount, total)
           IN  /\ x \in Purchase /\ x # Nothing /\ x.card = c
               /\ DOMAIN x.rows = 1 .. total
               /\ \A i \in 1 .. total :
                    Low(x.rows[i]) = parts[i] /\ High(x.rows[i]) = parts[i]
               /\ RowsFit(x.rows) => SoundPurchase(x)
<1> DEFINE x == Built(c, amount, total, m)
           parts == InstallmentAmounts(amount, total)
<1>1. \A i \in 1 .. total : parts[i] \in Int
  BY AmountsType
<1>2. Rate[c] \in Nat
  BY InstallmentsAssumption
<1>3. ASSUME NEW i \in 1 .. total
      PROVE  /\ HalfEven(parts[i] * Rate[c], 100) \in Int
             /\ parts[i] > 0 => HalfEven(parts[i] * Rate[c], 100) >= 0
  <2>1. PICK k \in Int : k = parts[i] * Rate[c] /\ (parts[i] \in Nat => k \in Nat)
    BY <1>1, <1>2, ProductType
  <2>2. HalfEven(k, 100) \in Int /\ (k \in Nat => HalfEven(k, 100) \in Nat)
    BY RoundedType
  <2> HIDE DEF parts
  <2>3. parts[i] > 0 => parts[i] \in Nat
    BY <1>1
  <2> QED
    BY <2>1, <2>2, <2>3
<1>4. /\ x.card = c /\ x = [card |-> c, rows |-> x.rows] /\ DOMAIN x.rows = 1 .. total
      /\ \A i \in 1 .. total :
           x.rows[i] = [principal |-> parts[i], interest |-> HalfEven(parts[i] * Rate[c], 100),
                        paid |-> 0, status |-> "pending", month |-> m + i - 1]
      /\ x.rows = [i \in 1 .. total |-> x.rows[i]]
  BY DEF Built
<1> HIDE DEF x, parts
<1>4a. ASSUME NEW i \in 1 .. total
       PROVE  /\ x.rows[i].interest = HalfEven(parts[i] * Rate[c], 100)
              /\ x.rows[i].principal = parts[i]
              /\ x.rows[i].paid = 0 /\ x.rows[i].status = "pending"
  <2>1. PICK principal, interest, month_ :
          /\ principal = parts[i] /\ interest = HalfEven(parts[i] * Rate[c], 100)
          /\ month_ = m + i - 1
    OBVIOUS
  <2>2. x.rows[i] = [principal |-> principal, interest |-> interest,
                     paid |-> 0, status |-> "pending", month |-> month_]
    BY <1>4, <2>1
  <2> QED
    BY <2>1, <2>2
<1>5. ASSUME NEW i \in 1 .. total PROVE x.rows[i] \in Installment
  <2>1. PICK principal, interest, month_ :
          /\ principal = parts[i] /\ interest = HalfEven(parts[i] * Rate[c], 100)
          /\ month_ = m + i - 1
    OBVIOUS
  <2>2. principal \in Int /\ interest \in Int /\ month_ \in Nat
    BY <1>1, <1>3, <2>1
  <2>3. x.rows[i] = [principal |-> principal, interest |-> interest,
                     paid |-> 0, status |-> "pending", month |-> month_]
    BY <1>4, <2>1
  <2> QED
    BY <2>2, <2>3 DEF Installment
<1>6. x.rows \in [1 .. total -> Installment]
  BY <1>4, <1>5
<1>7. x \in Purchase
  <2>1. x.rows \in Seq(Installment)
    BY <1>6, RowsAreSeq
  <2> QED
    BY <1>4, <2>1 DEF Purchase
<1>8. ASSUME NEW i \in 1 .. total PROVE Low(x.rows[i]) = parts[i] /\ High(x.rows[i]) = parts[i]
  <2>1. x.rows[i].status = "pending" /\ x.rows[i].principal = parts[i] /\ x.rows[i].paid = 0
    BY <1>4a
  <2>2. Low(x.rows[i]) = parts[i] - 0 /\ High(x.rows[i]) = parts[i] - 0
    BY <2>1 DEF Low, High
  <2> QED
    BY <1>1, <2>2
<1>9. ASSUME RowsFit(x.rows) PROVE SoundPurchase(x)
  <2>1. ASSUME NEW i \in 1 .. total PROVE x.rows[i].interest >= 0 /\ x.rows[i].paid >= 0
    <3>1. /\ x.rows[i].interest = HalfEven(parts[i] * Rate[c], 100)
          /\ x.rows[i].principal = parts[i] /\ x.rows[i].paid = 0
      BY <1>4a
    <3>2. parts[i] > 0
      BY <1>4, <1>9, <3>1 DEF RowsFit
    <3> QED
      BY <1>3, <3>1, <3>2
  <2> QED
    BY <1>4, <1>7, <1>9, <2>1, FitsIsSound
<1> QED
  BY <1>4, <1>7, <1>8, <1>9, NothingAssumption DEF x, parts

\* The rows of a new purchase add up to its amount.
LEMMA PurchaseGoesUp ==
    ASSUME NEW ps, SoundBooks(ps), DOMAIN ps = Purchases, NEW c \in Cards,
           NEW p \in Purchases, ~InCard(ps, p, c),
           NEW amount \in Nat, NEW total \in Nat \ {0}, NEW m \in Nat,
           NEW qs, SoundBooks(qs), qs[p] = Built(c, amount, total, m),
           \A q \in Purchases \ {p} : qs[q] = ps[q]
    PROVE  /\ Lows(ps, c) \in Int /\ Highs(ps, c) \in Int
           /\ Lows(qs, c) = Lows(ps, c) + amount /\ Highs(qs, c) = Highs(ps, c) + amount
<1> DEFINE new == Built(c, amount, total, m)
           S == Held(ps, c)
           N == {p} \X (1 .. total)
           parts == InstallmentAmounts(amount, total)
<1>1. /\ new # Nothing /\ new.card = c /\ DOMAIN new.rows = 1 .. total
      /\ \A i \in 1 .. total : Low(new.rows[i]) = parts[i] /\ High(new.rows[i]) = parts[i]
  BY BuiltFacts
<1>2. qs[p] = new /\ \A q \in Purchases : q # p => qs[q] = ps[q]
  OBVIOUS
<1>3. SoundBooks(qs)
  OBVIOUS
<1> HIDE DEF new
<1>4. Held(qs, c) = S \cup N
  <2>1. ASSUME NEW x \in Held(qs, c) PROVE x \in S \cup N
    <3>1. /\ x = <<x[1], x[2]>> /\ x[1] \in Purchases /\ x[2] \in DOMAIN qs[x[1]].rows
          /\ InCard(qs, x[1], c)
      BY <1>3, HeldFacts
    <3>2. CASE x[1] = p
      BY <1>1, <1>2, <3>1, <3>2
    <3>3. CASE x[1] # p
      <4>1. qs[x[1]] = ps[x[1]]
        BY <1>2, <3>1, <3>3
      <4>2. InCard(ps, x[1], c) /\ x[2] \in DOMAIN ps[x[1]].rows
        BY <3>1, <4>1 DEF InCard
      <4> QED
        BY <3>1, <4>2, HeldIs
    <3> QED
      BY <3>2, <3>3
  <2>2. ASSUME NEW x \in N PROVE x \in Held(qs, c)
    <3>1. PICK i \in 1 .. total : x = <<p, i>>
      OBVIOUS
    <3>2. InCard(qs, p, c) /\ i \in DOMAIN qs[p].rows
      BY <1>1, <1>2 DEF InCard
    <3> QED
      BY <3>1, <3>2, HeldIs
  <2>3. ASSUME NEW x \in S PROVE x \in Held(qs, c)
    <3>1. /\ x = <<x[1], x[2]>> /\ x[1] \in Purchases /\ x[2] \in DOMAIN ps[x[1]].rows
          /\ InCard(ps, x[1], c)
      BY HeldFacts
    <3>2. x[1] # p
      BY <3>1
    <3>3. qs[x[1]] = ps[x[1]]
      BY <1>2, <3>1, <3>2
    <3>4. InCard(qs, x[1], c) /\ x[2] \in DOMAIN qs[x[1]].rows
      BY <3>1, <3>3 DEF InCard
    <3>5. PICK q, i : q = x[1] /\ i = x[2]
      OBVIOUS
    <3>6. x = <<q, i>> /\ q \in Purchases /\ InCard(qs, q, c) /\ i \in DOMAIN qs[q].rows
      BY <3>1, <3>4, <3>5
    <3> HIDE DEF S, N, parts
    <3> QED
      BY <1>3, <3>6, HeldIs
  <2> QED
    BY <2>1, <2>2, <2>3
<1>5. \A x \in S : x[1] # p /\ x[1] \in Purchases /\ At(qs, x) = At(ps, x)
                   /\ Low(At(ps, x)) \in Int /\ High(At(ps, x)) \in Int
  <2> SUFFICES ASSUME NEW x \in S
               PROVE  x[1] # p /\ x[1] \in Purchases /\ At(qs, x) = At(ps, x)
                      /\ Low(At(ps, x)) \in Int /\ High(At(ps, x)) \in Int
    OBVIOUS
  <2>1. x[1] \in Purchases /\ InCard(ps, x[1], c)
        /\ Low(At(ps, x)) \in Int /\ High(At(ps, x)) \in Int
    BY HeldFacts
  <2>2. x[1] # p
    BY <2>1
  <2> QED
    BY <1>2, <2>1, <2>2 DEF At
<1>6. IsFiniteSet(S) /\ IsFiniteSet(N) /\ Cardinality(N) = total
  <2>1. IsFiniteSet(S)
    BY SlotsFinite
  <2>2. PICK n \in Int : n = total
    OBVIOUS
  <2>3. IsFiniteSet(1 .. n) /\ Cardinality(1 .. n) = n
    BY <2>2, CountUp
  <2>4. IsFiniteSet({p}) /\ Cardinality({p}) = 1
    BY FS_Singleton
  <2>5. IsFiniteSet({p} \X (1 .. n)) /\ Cardinality({p} \X (1 .. n)) = 1 * Cardinality(1 .. n)
    BY <2>3, <2>4, FS_Product
  <2>6. Cardinality({p} \X (1 .. n)) = n
    BY <2>2, <2>3, <2>5
  <2> QED
    BY <2>1, <2>2, <2>5, <2>6
<1>7. S \cap N = {}
  BY <1>5
<1>8. ASSUME NEW f, \A x \in S : f[x] \in Int, \A i \in 1 .. total : f[<<p, i>>] = parts[i]
      PROVE  SumFunctionOnSet(f, S \cup N) = SumFunctionOnSet(f, S) + amount
  <2> DEFINE base == HalfEven(amount, total)
             last == <<p, total>>
  <2>1. base \in Int
    BY RoundedType
  <2>2. \A i \in 1 .. total :
          parts[i] = IF i < total THEN base ELSE amount - (total - 1) * base
    BY DEF InstallmentAmounts
  <2> HIDE DEF base, parts
  <2>3. EqualParts(f, N, last, base, amount) /\ last \in N
    <3>1. total \in 1 .. total /\ ~(total < total)
      OBVIOUS
    <3>2. last \in N
      BY <3>1
    <3>3. f[last] = amount - (total - 1) * base
      BY <1>8, <2>2, <3>1
    <3>4. ASSUME NEW x \in N \ {last} PROVE f[x] = base
      <4>1. PICK i \in 1 .. total : x = <<p, i>>
        OBVIOUS
      <4>2. i < total
        BY <3>4, <4>1
      <4> QED
        BY <1>8, <2>2, <4>1, <4>2
    <3> HIDE DEF last, N
    <3>5. f[last] = amount - (Cardinality(N) - 1) * base
      BY <1>6, <3>3
    <3> QED
      BY <3>2, <3>4, <3>5 DEF EqualParts
  <2>4. \A x \in N : f[x] \in Int
    <3> SUFFICES ASSUME NEW x \in N PROVE f[x] \in Int
      OBVIOUS
    <3>1. PICK i \in 1 .. total : x = <<p, i>>
      OBVIOUS
    <3>2. parts[i] \in Int
      BY AmountsType DEF parts
    <3> QED
      BY <1>8, <3>1, <3>2
  <2> HIDE DEF N, S, last
  <2>5. SumFunctionOnSet(f, N) = amount
    BY <1>6, <2>1, <2>3, PartsAddUp
  <2>6. \A x \in S \cup N : f[x] \in Int
    BY <1>8, <2>4
  <2>7. SumFunctionOnSet(f, S \cup N) = SumFunctionOnSet(f, S) + SumFunctionOnSet(f, N)
    BY <1>6, <1>7, <2>6, SumUnion
  <2> QED
    BY <2>5, <2>7
<1>9. PICK f, g, low, high :
        /\ f = [x \in S \cup N |-> Low(At(qs, x))] /\ g = [x \in S \cup N |-> High(At(qs, x))]
        /\ low = [x \in S |-> Low(At(ps, x))] /\ high = [x \in S |-> High(At(ps, x))]
  OBVIOUS
<1>10. /\ Lows(qs, c) = SumFunctionOnSet(f, S \cup N) /\ Highs(qs, c) = SumFunctionOnSet(g, S \cup N)
       /\ Lows(ps, c) = SumFunctionOnSet(low, S) /\ Highs(ps, c) = SumFunctionOnSet(high, S)
  <2>1. Held(qs, c) = S \cup N /\ Held(ps, c) = S
    BY <1>4
  <2> HIDE DEF S, N
  <2> QED
    BY <1>9, <2>1 DEF Lows, Highs
<1>11. \A x \in S : /\ f[x] = low[x] /\ g[x] = high[x] /\ low[x] \in Int /\ high[x] \in Int
  BY <1>5, <1>9
<1>12. \A i \in 1 .. total : f[<<p, i>>] = parts[i] /\ g[<<p, i>>] = parts[i]
  <2> SUFFICES ASSUME NEW i \in 1 .. total
               PROVE  f[<<p, i>>] = parts[i] /\ g[<<p, i>>] = parts[i]
    OBVIOUS
  <2>1. <<p, i>> \in S \cup N
    OBVIOUS
  <2>2. At(qs, <<p, i>>) = new.rows[i]
    BY <1>2 DEF At
  <2> HIDE DEF S, N, parts
  <2>3. f[<<p, i>>] = Low(At(qs, <<p, i>>)) /\ g[<<p, i>>] = High(At(qs, <<p, i>>))
    BY <1>9, <2>1
  <2> QED
    BY <1>1, <2>2, <2>3
<1> HIDE DEF S, N
<1>13. SumFunctionOnSet(f, S) = SumFunctionOnSet(low, S)
       /\ SumFunctionOnSet(g, S) = SumFunctionOnSet(high, S)
  BY <1>6, <1>11, SumCongruence
<1>14. SumFunctionOnSet(low, S) \in Int /\ SumFunctionOnSet(high, S) \in Int
  BY <1>6, <1>11, SumType
<1>15. SumFunctionOnSet(f, S \cup N) = SumFunctionOnSet(f, S) + amount
       /\ SumFunctionOnSet(g, S \cup N) = SumFunctionOnSet(g, S) + amount
  BY <1>8, <1>11, <1>12
<1> QED
  BY <1>10, <1>13, <1>14, <1>15

\* What is owed depends on the purchases of the card alone.
LEMMA SumsAgree ==
    ASSUME NEW ps, SoundBooks(ps), NEW qs, SoundBooks(qs), NEW c, Agree(ps, qs, c)
    PROVE  Lows(ps, c) = Lows(qs, c) /\ Highs(ps, c) = Highs(qs, c)
<1>1. \A p \in Purchases : /\ InCard(ps, p, c) <=> InCard(qs, p, c)
                           /\ InCard(ps, p, c) => ps[p] = qs[p]
  BY DEF Agree, InCard
<1>2. Held(ps, c) = Held(qs, c)
  BY <1>1, SameHeld
<1>3. \A x \in Held(ps, c) : At(ps, x) = At(qs, x)
  BY <1>1, HeldFacts DEF At
<1>4. /\ [x \in Held(ps, c) |-> Low(At(ps, x))] = [x \in Held(qs, c) |-> Low(At(qs, x))]
      /\ [x \in Held(ps, c) |-> High(At(ps, x))] = [x \in Held(qs, c) |-> High(At(qs, x))]
  BY <1>2, <1>3
<1> QED
  BY <1>2, <1>4 DEF Lows, Highs

-----------------------------------------------------------------------------
(* The invariant of the books *)

\* The tables of cards, requests and balances have their types.
TablesOK ==
    /\ month \in 0 .. Horizon
    /\ card \in [Cards -> [limit : Nat, active : BOOLEAN]]
    /\ balance \in [Accounts -> Nat]
    /\ repaid \in [Cards -> Nat] /\ posted \in [Accounts -> Nat]

\* A payment holds the account it pays from, with what it needs on it.
HoldsAccount(s) ==
    /\ pc[s] = "second" /\ req[s].op = "payment" => lock[req[s].acct] = s
    /\ pc[s] = "ready" /\ NeedsBoth(req[s]) => lock[req[s].acct] = s /\ MayPay(s)

\* What a session has read is sound.
ReadSound(s) == SoundBooks(seen[s]) /\ HoldsAccount(s)

\* The inductive invariant: locks and reads, and the rows of every purchase.
CreditInv ==
    /\ CardInv /\ TablesOK /\ SoundBooks(purchase)
    /\ \A s \in Sessions : ReadSound(s)

(***************************************************************************)
(* What was charged and not repaid lies between the principal the rows owe *)
(* and that less the interest of rows that are closed.                     *)
(***************************************************************************)
CardAddsUp(c) ==
    DividesEvenly(c) =>
       /\ Highs(purchase, c) <= charged[c] - repaid[c]
       /\ charged[c] - repaid[c] <= Lows(purchase, c)

\* The books of every card, and of every account, add up.
Accounted ==
    /\ \A c \in Cards : CardAddsUp(c)
    /\ \A a \in Accounts : balance[a] = Opening[a] - posted[a]

-----------------------------------------------------------------------------
(* What a commit writes is sound *)

\* A session about to write its card.
Writing(s) ==
    /\ Ready(s, req[s].op) /\ req[s].op \in EventOps
    /\ Accepted(s) /\ Fresh(s) /\ Writable(s)

\* What each request writes, and what it has checked before it writes.
LEMMA WritingFacts ==
    ASSUME CreditInv, NEW s \in Sessions, Writing(s)
    PROVE  LET r == req[s] IN
           /\ r \in Requests /\ r.card \in Cards /\ lock[r.card] = s /\ month \in Nat
           /\ DOMAIN seen[s] = Purchases /\ SoundBooks(seen[s])
           /\ Agree(seen[s], purchase, r.card)
           /\ r.op = "purchase" =>
                /\ r.purchase \in Purchases /\ r.amount \in Nat /\ r.total \in Nat \ {0}
                /\ ~InCard(seen[s], r.purchase, r.card) /\ purchase[r.purchase] = Nothing
                /\ Written(s) = [seen[s] EXCEPT ![r.purchase] =
                                    Built(r.card, r.amount, r.total, month)]
           /\ r.op = "payment" =>
                /\ r.acct \in Accounts /\ Applied(s) \in Nat /\ Source(s) \in Nat
                /\ balance[r.acct] >= Source(s)
                /\ Exhausts(seen[s], r.card, month, Applied(s))
                /\ Written(s) = PaidDown(seen[s], r.card, month, Applied(s))
           /\ r.op = "early" =>
                /\ r.acct \in Accounts /\ Applied(s) \in Nat /\ Source(s) \in Nat
                /\ balance[r.acct] >= Source(s)
                /\ r.purchase \in Purchases /\ InCard(seen[s], r.purchase, r.card)
                /\ Applied(s) <= Remaining(seen[s][r.purchase])
                /\ Unpaid(seen[s][r.purchase]) # {}
                /\ Written(s) = [seen[s] EXCEPT ![r.purchase] = Redistributed(@, Applied(s))]
<1> DEFINE r == req[s]
<1>1. /\ CardTypes /\ PurchasesRecorded /\ Serving(s) /\ ReadIsCurrent(s) /\ TablesOK
      /\ SoundBooks(seen[s]) /\ HoldsAccount(s)
      /\ pc[s] = "ready" /\ r.op \in EventOps /\ Accepted(s) /\ Fresh(s) /\ Writable(s)
  BY DEF CreditInv, CardInv, ReadSound, Writing, Ready
<1>2. /\ r \in Requests /\ r.card \in Cards /\ lock[r.card] = s
      /\ DOMAIN seen[s] = Purchases /\ Agree(seen[s], purchase, r.card)
  BY <1>1, RequestRows DEF Serving, ReadIsCurrent, HasRead, CardTypes
<1>3. month \in Nat
  BY <1>1, CreditAssumption DEF TablesOK
<1>4. ASSUME r.op = "purchase"
      PROVE  /\ r.purchase \in Purchases /\ r.amount \in Nat /\ r.total \in Nat \ {0}
             /\ ~InCard(seen[s], r.purchase, r.card) /\ purchase[r.purchase] = Nothing
             /\ Written(s) = [seen[s] EXCEPT ![r.purchase] =
                                 Built(r.card, r.amount, r.total, month)]
  <2>1. r.purchase \in Purchases /\ r.amount \in Nat /\ r.total \in Nat \ {0}
    BY <1>2, <1>4, CreditAssumption
  <2>2. SUFFICES ASSUME purchase[r.purchase] # Nothing PROVE FALSE
    <3>1. InCard(seen[s], r.purchase, r.card) => purchase[r.purchase] # Nothing
      BY <1>2, <2>1 DEF Agree, InCard
    <3>2. Written(s) = [seen[s] EXCEPT ![r.purchase] = Built(r.card, r.amount, r.total, month)]
      BY <1>4 DEF Written
    <3> QED
      BY <2>1, <3>1, <3>2
  <2>3. PICK q \in Requests :
          q.op = "purchase" /\ q.purchase = r.purchase /\ recorded[q.cmd] # Nothing
    BY <1>1, <2>1, <2>2 DEF PurchasesRecorded
  <2>4. q.cmd = r.cmd
    BY <1>2, <1>4, <2>3, CreditAssumption
  <2> QED
    BY <1>1, <2>3, <2>4 DEF Fresh
<1>5. ASSUME r.op \in {"payment", "early"}
      PROVE  r.acct \in Accounts /\ r.amount \in Nat /\ Worth[r.acct] \in Nat \ {0}
  BY <1>2, <1>5, CreditAssumption
<1>6. ASSUME r.op = "payment"
      PROVE  /\ r.acct \in Accounts /\ Applied(s) \in Nat /\ Source(s) \in Nat
             /\ balance[r.acct] >= Source(s)
             /\ Exhausts(seen[s], r.card, month, Applied(s))
             /\ Written(s) = PaidDown(seen[s], r.card, month, Applied(s))
  <2>1. r.amount > 0 /\ r.amount # 0
    BY <1>2, <1>6, CreditAssumption
  <2>2. Applied(s) = HalfUp(r.amount, Worth[r.acct]) /\ Source(s) = r.amount
    BY <2>1 DEF Applied, Source
  <2>3. HalfUp(r.amount, Worth[r.acct]) \in Nat
    BY <1>5, <1>6, RoundedType
  <2>4. balance[r.acct] >= r.amount
    BY <1>1, <1>6 DEF HoldsAccount, MayPay, NeedsBoth
  <2> QED
    BY <1>1, <1>5, <1>6, <2>2, <2>3, <2>4 DEF Writable, Written
<1>7. ASSUME r.op = "early"
      PROVE  /\ r.acct \in Accounts /\ Applied(s) \in Nat /\ Source(s) \in Nat
             /\ balance[r.acct] >= Source(s)
             /\ r.purchase \in Purchases /\ InCard(seen[s], r.purchase, r.card)
             /\ Applied(s) <= Remaining(seen[s][r.purchase])
             /\ Unpaid(seen[s][r.purchase]) # {}
             /\ Written(s) = [seen[s] EXCEPT ![r.purchase] = Redistributed(@, Applied(s))]
  <2>1. r.purchase \in Purchases
    BY <1>2, <1>7, CreditAssumption
  <2>2. WithinPurchase(s)
    BY <1>1, <1>7 DEF Accepted
  <2>3. seen[s][r.purchase].card = r.card /\ Unpaid(seen[s][r.purchase]) # {}
    BY <1>1, <1>7 DEF Serving, HasRead, ReadEligible
  <2>4. seen[s][r.purchase] # Nothing
    BY <1>1, <1>7 DEF Serving, HasRead, ReadEligible
  <2>5. Remaining(seen[s][r.purchase]) \in Nat
    BY <1>1, <2>1, <2>4, RemainingType DEF SoundBooks
  <2>6. Applied(s) \in Nat
    <3>1. HalfUp(r.amount, Worth[r.acct]) \in Nat
      BY <1>5, <1>7, RoundedType
    <3> QED
      BY <2>5, <3>1 DEF Applied
  <2>7. Source(s) \in Nat
    <3>1. Applied(s) * Worth[r.acct] \in Nat
      BY <1>5, <1>7, <2>6, ProductType
    <3> QED
      BY <1>5, <1>7, <3>1 DEF Source
  <2>8. Written(s) = [seen[s] EXCEPT ![r.purchase] = Redistributed(@, Applied(s))]
    BY <1>7 DEF Written
  <2> QED
    BY <1>5, <1>7, <2>1, <2>2, <2>3, <2>4, <2>6, <2>7, <2>8
    DEF InCard, WithinPurchase
<1> QED
  BY <1>1, <1>2, <1>3, <1>4, <1>6, <1>7

\* A purchase as a session has read it and as it writes it.
WrittenWell(s, p) ==
    LET c == req[s].card
        old == seen[s][p]
        new == Written(s)[p]
        bought == req[s].op = "purchase" /\ p = req[s].purchase
    IN  /\ ~bought /\ ~InCard(seen[s], p, c) => new = old
        /\ InCard(seen[s], p, c) =>
             /\ ~bought /\ new # Nothing /\ new.card = c
             /\ DOMAIN new.rows = DOMAIN old.rows /\ Len(new.rows) = Len(old.rows)
        /\ bought => new # Nothing /\ new.card = c
        /\ new # Nothing /\ (new.card = c => RowsFit(new.rows)) => SoundPurchase(new)

\* A commit changes the purchases of its own card only.
LEMMA WrittenInPlace ==
    ASSUME CreditInv, NEW s \in Sessions, Writing(s), NEW p \in Purchases
    PROVE  WrittenWell(s, p)
<1> DEFINE r == req[s]
           c == r.card
           old == seen[s][p]
           new == Written(s)[p]
           bought == r.op = "purchase" /\ p = r.purchase
           known == InCard(seen[s], p, c)
<1>0. ASSUME /\ ~bought /\ ~known => new = old
             /\ known => /\ ~bought /\ new # Nothing /\ new.card = c
                         /\ DOMAIN new.rows = DOMAIN old.rows /\ Len(new.rows) = Len(old.rows)
             /\ bought => new # Nothing /\ new.card = c
             /\ new # Nothing /\ (new.card = c => RowsFit(new.rows)) => SoundPurchase(new)
      PROVE  WrittenWell(s, p)
  BY <1>0 DEF WrittenWell
<1>1. c \in Cards /\ month \in Nat /\ DOMAIN seen[s] = Purchases /\ SoundBooks(seen[s])
  BY WritingFacts
<1>2. old # Nothing => SoundPurchase(old)
  BY <1>1 DEF SoundBooks
<1>3. ASSUME ~bought, new = old PROVE WrittenWell(s, p)
  <2>1. known => old # Nothing /\ old.card = c
    BY DEF InCard
  <2> HIDE DEF new, old, known, bought, c
  <2> QED
    BY <1>0, <1>2, <1>3, <2>1
<1>4. CASE r.op = "purchase"
  <2>1. /\ r.amount \in Nat /\ r.total \in Nat \ {0}
        /\ ~InCard(seen[s], r.purchase, c)
        /\ Written(s) = [seen[s] EXCEPT ![r.purchase] = Built(c, r.amount, r.total, month)]
    BY <1>4, WritingFacts
  <2>2. CASE p = r.purchase
    <3>1. new = Built(c, r.amount, r.total, month) /\ ~InCard(seen[s], p, c) /\ bought
      BY <1>1, <1>4, <2>1, <2>2
    <3>2. new # Nothing /\ new.card = c /\ (RowsFit(new.rows) => SoundPurchase(new))
      BY <1>1, <2>1, <3>1, BuiltFacts
    <3>3. ~known
      BY <3>1
    <3> HIDE DEF new, old, known, bought, c
    <3> QED
      BY <1>0, <3>1, <3>2, <3>3
  <2>3. CASE p # r.purchase
    BY <1>1, <1>3, <2>1, <2>3
  <2> QED
    BY <2>2, <2>3
<1>5. CASE r.op = "payment"
  <2>1. /\ Applied(s) \in Nat
        /\ Written(s) = PaidDown(seen[s], c, month, Applied(s))
    BY <1>5, WritingFacts
  <2>2. PICK n \in Nat, m \in Int : n = Applied(s) /\ m = month
    BY <1>1, <2>1
  <2>3. Written(s) = PaidDown(seen[s], c, m, n)
    BY <2>1, <2>2
  <2>4. CASE ~InCard(seen[s], p, c)
    <3>1. PaidDown(seen[s], c, m, n)[p] = seen[s][p]
      BY <2>4 DEF PaidDown, InCard
    <3> QED
      BY <1>3, <1>5, <2>3, <3>1
  <2>5. CASE InCard(seen[s], p, c)
    <3>1. /\ new \in Purchase /\ new # Nothing /\ new.card = c
          /\ DOMAIN new.rows = DOMAIN old.rows /\ Len(new.rows) = Len(old.rows)
          /\ \A i \in DOMAIN old.rows :
               new.rows[i] = Paid(old.rows[i], Share(seen[s], c, m, n, <<p, i>>))
      BY <1>1, <2>3, <2>5, PaidDownRows
    <3>2. SoundPurchase(old)
      BY <1>2, <2>5 DEF InCard
    <3> HIDE DEF new, old
    <3>3. ASSUME NEW i \in DOMAIN old.rows
          PROVE  new.rows[i].interest >= 0 /\ new.rows[i].paid >= 0
      <4> DEFINE k == Share(seen[s], c, m, n, <<p, i>>)
                 x == <<p, i>>
      <4>1. x \in Slots(seen[s]) /\ At(seen[s], x) = old.rows[i]
        BY <2>5 DEF Slots, At, InCard, old
      <4>2. x \in Pending(seen[s], c) <=> old.rows[i].status # "paid"
        BY <2>5, <4>1 DEF Pending, InCard
      <4>3. k \in Nat /\ (x \notin Pending(seen[s], c) => k = 0)
            /\ (x \in Pending(seen[s], c) => k <= Left(old.rows[i]))
        BY <1>1, <4>1, ShareFacts
      <4>4. SoundRow(old.rows[i]) /\ Left(old.rows[i]) \in Nat
        BY <3>2, LeftType DEF SoundPurchase
      <4>5. new.rows[i] = Paid(old.rows[i], k)
        BY <3>1
      <4> HIDE DEF k, x
      <4>6. k \in Nat /\ k <= Left(old.rows[i]) /\ (k # 0 => old.rows[i].status # "paid")
        BY <4>2, <4>3, <4>4
      <4> QED
        BY <4>4, <4>5, <4>6, PaidRow
    <3>4. RowsFit(new.rows) => SoundPurchase(new)
      BY <3>1, <3>3, FitsIsSound
    <3>5. known /\ ~bought
      BY <1>5, <2>5
    <3> HIDE DEF known, bought, c
    <3> QED
      BY <1>0, <3>1, <3>4, <3>5
  <2> QED
    BY <2>4, <2>5
<1>6. CASE r.op = "early"
  <2>1. /\ Applied(s) \in Nat /\ r.purchase \in Purchases /\ InCard(seen[s], r.purchase, c)
        /\ Unpaid(seen[s][r.purchase]) # {}
        /\ Written(s) = [seen[s] EXCEPT ![r.purchase] = Redistributed(@, Applied(s))]
    BY <1>6, WritingFacts
  <2>2. CASE p # r.purchase
    <3>1. new = old
      BY <1>1, <2>1, <2>2
    <3>2. InCard(seen[s], p, c) => old # Nothing /\ old.card = c
      BY DEF InCard
    <3> QED
      BY <1>3, <1>6, <3>1
  <2>3. CASE p = r.purchase
    <3>1. InCard(seen[s], p, c) /\ old.card = c /\ SoundPurchase(old) /\ Unpaid(old) # {}
      BY <1>2, <2>1, <2>3 DEF InCard
    <3>2. new = Redistributed(old, Applied(s))
      BY <1>1, <2>1, <2>3
    <3>3. PICK n \in Int : n = Applied(s)
      BY <2>1
    <3> HIDE DEF new, old
    <3>4. /\ new \in Purchase /\ new # Nothing /\ new.card = c
          /\ DOMAIN new.rows = DOMAIN old.rows /\ Len(new.rows) = Len(old.rows)
          /\ \A i \in DOMAIN old.rows :
               new.rows[i] = IF i \notin Unpaid(old) THEN old.rows[i]
                             ELSE Spread(old.rows[i], NewShare(old, n, i))
      BY <3>1, <3>2, <3>3, RedistributedRows
    <3>5. ASSUME NEW i \in DOMAIN old.rows
          PROVE  new.rows[i].interest >= 0 /\ new.rows[i].paid >= 0
      <4>1. SoundRow(old.rows[i])
        BY <3>1 DEF SoundPurchase
      <4>2. CASE i \notin Unpaid(old)
        BY <3>4, <4>1, <4>2 DEF SoundRow
      <4>3. CASE i \in Unpaid(old)
        <5>1. NewShare(old, n, i) \in Int
          BY <3>1, <4>3, NewShares
        <5>2. new.rows[i] = Spread(old.rows[i], NewShare(old, n, i))
          BY <3>4, <4>3
        <5> QED
          BY <4>1, <5>1, <5>2, SpreadRow
      <4> QED
        BY <4>2, <4>3
    <3>6. RowsFit(new.rows) => SoundPurchase(new)
      BY <3>4, <3>5, FitsIsSound
    <3>7. known /\ ~bought
      BY <1>6, <3>1
    <3> HIDE DEF known, bought, c
    <3> QED
      BY <1>0, <3>1, <3>4, <3>6, <3>7
  <2> QED
    BY <2>2, <2>3
<1>7. r.op \in {"purchase", "payment", "early"}
  BY DEF Writing, EventOps
<1> QED
  BY <1>4, <1>5, <1>6, <1>7

\* What a session writes is sound.
LEMMA WrittenSound ==
    ASSUME CreditInv, NEW s \in Sessions, Writing(s)
    PROVE  SoundBooks(Written(s))
<1> SUFFICES ASSUME NEW p \in Purchases, Written(s)[p] # Nothing
             PROVE  SoundPurchase(Written(s)[p])
  BY DEF SoundBooks
<1>1. Written(s)[p].card = req[s].card => RowsFit(Written(s)[p].rows)
  BY DEF Writing, Writable, Fits, OfCard
<1>2. WrittenWell(s, p)
  BY WrittenInPlace
<1> QED
  BY <1>1, <1>2 DEF WrittenWell

\* The purchases after a commit: those of the card are what the session wrote.
LEMMA CommitFacts ==
    ASSUME CreditInv, NEW s \in Sessions, Writing(s), Write(s)
    PROVE  /\ SoundBooks(purchase') /\ Agree(Written(s), purchase', req[s].card)
           /\ \A d \in Cards \ {req[s].card} : Agree(purchase, purchase', d)
           /\ \A p \in Purchases : purchase[p] # Nothing =>
                /\ purchase'[p] # Nothing /\ purchase'[p].card = purchase[p].card
                /\ DOMAIN purchase'[p].rows = DOMAIN purchase[p].rows
                /\ Len(purchase'[p].rows) = Len(purchase[p].rows)
<1> DEFINE c == req[s].card
           written == OfCard(Written(s), c)
           old == seen[s]
           new == Written(s)
<1>1. \A p \in Purchases : purchase'[p] = IF p \in written THEN new[p] ELSE purchase[p]
  BY DEF Write
<1>2. Agree(old, purchase, c) /\ SoundBooks(purchase) /\ SoundBooks(new)
  BY WritingFacts, WrittenSound DEF CreditInv
<1>3. \A p \in Purchases : p \in written <=> InCard(new, p, c)
  BY DEF OfCard, InCard
<1>4. \A p \in written : purchase[p] # Nothing => purchase[p].card = c
  BY WrittenOfCard DEF CreditInv, Writing
<1>5. ASSUME NEW p \in Purchases, InCard(purchase, p, c)
      PROVE  /\ InCard(new, p, c) /\ p \in written
             /\ DOMAIN new[p].rows = DOMAIN purchase[p].rows
             /\ Len(new[p].rows) = Len(purchase[p].rows)
  <2>1. InCard(old, p, c) /\ old[p] = purchase[p]
    BY <1>2, <1>5 DEF Agree, InCard
  <2>2. WrittenWell(s, p)
    BY WrittenInPlace
  <2> QED
    BY <1>3, <2>1, <2>2 DEF WrittenWell, InCard
<1> HIDE DEF new, written, old
<1>6. SoundBooks(purchase')
  BY <1>1, <1>2, <1>3 DEF SoundBooks, InCard
<1>7. ASSUME NEW p \in Purchases, InCard(new, p, c) \/ InCard(purchase', p, c)
      PROVE  new[p] = purchase'[p]
  <2>1. CASE p \in written
    BY <1>1, <2>1
  <2>2. CASE p \notin written
    <3>1. purchase'[p] = purchase[p] /\ InCard(purchase, p, c)
      BY <1>1, <1>3, <1>7, <2>2 DEF InCard
    <3> QED
      BY <1>5, <2>2, <3>1
  <2> QED
    BY <2>1, <2>2
<1>8. ASSUME NEW d \in Cards \ {c}, NEW p \in Purchases,
             InCard(purchase, p, d) \/ InCard(purchase', p, d)
      PROVE  purchase[p] = purchase'[p]
  <2>1. p \notin written
    BY <1>1, <1>3, <1>4, <1>8 DEF InCard
  <2> QED
    BY <1>1, <2>1
<1>9. ASSUME NEW p \in Purchases, purchase[p] # Nothing
      PROVE  /\ purchase'[p] # Nothing /\ purchase'[p].card = purchase[p].card
             /\ DOMAIN purchase'[p].rows = DOMAIN purchase[p].rows
             /\ Len(purchase'[p].rows) = Len(purchase[p].rows)
  <2>1. CASE p \in written
    <3>1. InCard(purchase, p, c)
      BY <1>4, <1>9, <2>1 DEF InCard
    <3> QED
      BY <1>1, <1>5, <2>1, <3>1 DEF InCard
  <2>2. CASE p \notin written
    BY <1>1, <1>9, <2>2
  <2> QED
    BY <2>1, <2>2
<1> QED
  BY <1>6, <1>7, <1>8, <1>9 DEF Agree, new

-----------------------------------------------------------------------------
(* The invariant is kept *)

\* The rows a step of one session leaves with the others, and what they hold.
Untouched(s, t) ==
    /\ pc'[t] = pc[t] /\ req'[t] = req[t] /\ seen'[t] = seen[t]
    /\ \A row \in Rows : lock[row] = t => lock'[row] = t
    /\ \A a \in Accounts : lock[a] = t => balance'[a] = balance[a]

\* A session is not disturbed by a step that leaves it and its locks alone.
LEMMA UntouchedKeeps ==
    ASSUME CreditInv, NEW s, NEW t \in Sessions, Untouched(s, t)
    PROVE  ReadSound(t)'
<1>1. ReadSound(t) /\ Serving(t) /\ pc[t] \in Stages
  BY DEF CreditInv, CardInv, CardTypes
<1>2. SoundBooks(seen'[t])
  BY <1>1 DEF ReadSound, Untouched
<1>3. HoldsAccount(t)'
  <2>1. ASSUME pc[t] \in {"second", "ready"}, NeedsBoth(req[t])
        PROVE  req[t].acct \in Rows /\ req[t].acct \in Accounts
    BY <1>1, <2>1, CreditAssumption DEF Serving, NeedsBoth
  <2>2. ASSUME pc'[t] = "second" /\ req'[t].op = "payment"
        PROVE  lock'[req'[t].acct] = t
    <3>1. lock[req[t].acct] = t /\ req[t].acct \in Rows
      BY <1>1, <2>1, <2>2 DEF ReadSound, HoldsAccount, Untouched, NeedsBoth
    <3> QED
      BY <3>1 DEF Untouched
  <2>3. ASSUME pc'[t] = "ready" /\ NeedsBoth(req[t])
        PROVE  /\ lock'[req'[t].acct] = t
               /\ req'[t].op = "payment" => balance'[req'[t].acct] >= req'[t].amount
    <3>1. /\ lock[req[t].acct] = t /\ MayPay(t)
          /\ req[t].acct \in Rows /\ req[t].acct \in Accounts
      BY <1>1, <2>1, <2>3 DEF ReadSound, HoldsAccount, Untouched
    <3> QED
      BY <3>1 DEF Untouched, MayPay
  <2> QED
    BY <2>2, <2>3 DEF HoldsAccount, MayPay, NeedsBoth, Untouched
<1> QED
  BY <1>2, <1>3 DEF ReadSound

LEMMA NoPurchasesSound == SoundBooks(NoPurchases)
  BY DEF SoundBooks, NoPurchases

\* A session that leaves has read nothing and holds nothing.
LEMMA LeaveKeeps ==
    ASSUME CreditInv, NEW s \in Sessions, Leave(s),
           \A a \in Accounts : lock[a] # s => balance'[a] = balance[a]
    PROVE  \A t \in Sessions : ReadSound(t)'
<1>1. CardTypes
  BY DEF CreditInv, CardInv
<1>2. pc'[s] = "idle" /\ seen'[s] = NoPurchases
  BY <1>1 DEF Leave, CardTypes
<1>3. ReadSound(s)'
  BY <1>2, NoPurchasesSound DEF ReadSound, HoldsAccount
<1>4. ASSUME NEW t \in Sessions \ {s} PROVE ReadSound(t)'
  <2>1. /\ pc'[t] = pc[t] /\ req'[t] = req[t] /\ seen'[t] = seen[t]
        /\ \A row \in Rows : lock[row] = t => lock'[row] = t
    BY <1>1, LeaveFrame
  <2>2. \A a \in Accounts : lock[a] = t => balance'[a] = balance[a]
    OBVIOUS
  <2> QED
    BY <2>1, <2>2, UntouchedKeeps DEF Untouched
<1> QED
  BY <1>3, <1>4

\* The other sessions of a commit keep what they hold.
LEMMA CommitKeeps ==
    ASSUME CreditInv, CardInv', NEW s \in Sessions, Writing(s), Write(s), Leave(s),
           TablesOK', \A a \in Accounts : lock[a] # s => balance'[a] = balance[a]
    PROVE  CreditInv'
  BY CommitFacts, LeaveKeeps DEF CreditInv

\* A purchase, and then a payment, keeps the invariant.
LEMMA ChargeSound ==
    ASSUME CreditInv, CardInv', NEW s \in Sessions, Charge(s)
    PROVE  CreditInv' /\ Writing(s)
<1>1. Writing(s) /\ Write(s) /\ Leave(s)
  BY DEF Charge, Writing, Ready, EventOps
<1>2. TablesOK' /\ balance' = balance
  BY DEF Charge, CreditInv, TablesOK
<1> QED
  BY <1>1, <1>2, CommitKeeps

LEMMA PaySound ==
    ASSUME CreditInv, CardInv', NEW s \in Sessions, Pay(s)
    PROVE  CreditInv' /\ Writing(s)
<1>1. Writing(s) /\ Write(s) /\ Leave(s) /\ req[s].op \in {"payment", "early"}
  BY DEF Pay, Writing, Ready, EventOps
<1>2. /\ req[s].acct \in Accounts /\ req[s].card \in Cards
      /\ Applied(s) \in Nat /\ Source(s) \in Nat /\ balance[req[s].acct] >= Source(s)
  BY <1>1, WritingFacts
<1>3. /\ balance' = [balance EXCEPT ![req[s].acct] = @ - Source(s)]
      /\ posted' = [posted EXCEPT ![req[s].acct] = @ + Source(s)]
      /\ repaid' = [repaid EXCEPT ![req[s].card] = @ + Applied(s)]
      /\ UNCHANGED <<month, card>>
  BY DEF Pay
<1>4. TablesOK
  BY DEF CreditInv
<1>5. PICK n \in Nat, k \in Nat : n = Source(s) /\ k = Applied(s)
  BY <1>2
<1>6. TablesOK'
  <2>1. balance[req[s].acct] - n \in Nat
    BY <1>2, <1>4, <1>5 DEF TablesOK
  <2>2. posted[req[s].acct] + n \in Nat /\ repaid[req[s].card] + k \in Nat
    BY <1>2, <1>4 DEF TablesOK
  <2>3. /\ balance' = [balance EXCEPT ![req[s].acct] = @ - n]
        /\ posted' = [posted EXCEPT ![req[s].acct] = @ + n]
        /\ repaid' = [repaid EXCEPT ![req[s].card] = @ + k]
    BY <1>3, <1>5
  <2>4. balance' \in [Accounts -> Nat]
    BY <1>4, <2>1, <2>3 DEF TablesOK
  <2>5. posted' \in [Accounts -> Nat]
    BY <1>4, <2>2, <2>3 DEF TablesOK
  <2>6. repaid' \in [Cards -> Nat]
    BY <1>4, <2>2, <2>3 DEF TablesOK
  <2> QED
    BY <1>3, <1>4, <2>4, <2>5, <2>6 DEF TablesOK
<1>7. \A a \in Accounts : lock[a] # s => balance'[a] = balance[a]
  <2>1. lock[req[s].acct] = s
    BY <1>1 DEF CreditInv, ReadSound, HoldsAccount, Writing, Ready, NeedsBoth
  <2> QED
    BY <1>3, <1>4, <2>1 DEF TablesOK
<1> QED
  BY <1>1, <1>6, <1>7, CommitKeeps

\* So do the steps that take the locks and read.
LEMMA BeginSound ==
    ASSUME CreditInv, CardInv', NEW s \in Sessions, NEW r \in Requests, Begin(s, r)
    PROVE  CreditInv'
<1>1. /\ UNCHANGED <<month, tableVars, lock, seen>> /\ pc' = [pc EXCEPT ![s] = "first"]
      /\ req' = [req EXCEPT ![s] = r]
  BY DEF Begin
<1>2. CardTypes
  BY DEF CreditInv, CardInv
<1>3. pc'[s] = "first" /\ \A t \in Sessions \ {s} : pc'[t] = pc[t] /\ req'[t] = req[t]
  BY <1>1, <1>2 DEF CardTypes
<1>4. ReadSound(s)'
  BY <1>1, <1>3 DEF CreditInv, ReadSound, HoldsAccount
<1>5. \A t \in Sessions \ {s} : ReadSound(t)'
  BY <1>1, <1>3, UntouchedKeeps DEF Untouched, tableVars
<1> QED
  BY <1>1, <1>4, <1>5 DEF CreditInv, TablesOK, tableVars

\* A lock is taken, and what the session reads of it is sound.
LEMMA LocksSound ==
    ASSUME CreditInv, CardInv', NEW s \in Sessions, NEW row \in Rows, NEW stage \in Stages,
           Locks(s, row, stage), UNCHANGED month, HoldsAccount(s)'
    PROVE  CreditInv'
<1>1. CardInv /\ CardTypes
  BY DEF CreditInv, CardInv
<1>2. seen'[s] = IF row \in Cards THEN purchase ELSE seen[s]
  BY <1>1, LocksFrame
<1>3. SoundBooks(seen'[s])
  BY <1>2 DEF CreditInv, ReadSound
<1>4. /\ pc' = [pc EXCEPT ![s] = stage] /\ UNCHANGED <<tableVars, req>>
      /\ \A x \in Rows, t \in Sessions : lock[x] = t => lock'[x] = t
  BY <1>1, TakeFrame DEF Locks
<1>5. \A t \in Sessions \ {s} : seen'[t] = seen[t] /\ pc'[t] = pc[t]
  BY <1>1 DEF Locks, Read, CardTypes
<1>6. \A t \in Sessions \ {s} : ReadSound(t)'
  BY <1>4, <1>5, UntouchedKeeps DEF Untouched, tableVars
<1>7. ReadSound(s)'
  BY <1>3 DEF ReadSound
<1> QED
  BY <1>4, <1>6, <1>7 DEF CreditInv, TablesOK, tableVars

LEMMA LockFirstSound ==
    ASSUME CreditInv, CardInv', NEW s \in Sessions, LockFirst(s)
    PROVE  CreditInv'
<1>1. CardInv /\ CardTypes /\ Serving(s)
  BY DEF CreditInv, CardInv
<1>2. req[s] \in Requests /\ pc[s] = "first"
  BY <1>1 DEF LockFirst, Serving
<1>3. PICK row \in Rows : row = FirstRow(req[s])
  BY <1>2, RequestRows DEF FirstRow
<1>4. PICK stage \in Stages : stage = IF NeedsBoth(req[s]) THEN "second" ELSE "ready"
  BY DEF Stages
<1>5. Locks(s, row, stage) /\ UNCHANGED month
  BY <1>3, <1>4 DEF LockFirst, Locks
<1>6. pc'[s] = stage /\ lock'[row] = s /\ req' = req
  BY <1>1, <1>5, LocksFrame DEF Locks
<1>7. HoldsAccount(s)'
  BY <1>3, <1>4, <1>6 DEF HoldsAccount, NeedsBoth, FirstRow
<1> QED
  BY <1>5, <1>7, LocksSound

LEMMA LockSecondSound ==
    ASSUME CreditInv, CardInv', NEW s \in Sessions, LockSecond(s)
    PROVE  CreditInv'
<1>1. CardInv /\ CardTypes /\ Serving(s) /\ ReadSound(s)
  BY DEF CreditInv, CardInv
<1>2. req[s] \in Requests /\ pc[s] = "second" /\ NeedsBoth(req[s])
  BY <1>1 DEF LockSecond, Serving
<1>3. PICK row \in Rows : row = SecondRow(req[s])
  BY <1>2, RequestRows DEF SecondRow, NeedsBoth
<1>4. Locks(s, row, "ready") /\ "ready" \in Stages /\ UNCHANGED month /\ MayPay(s)
  BY <1>3 DEF LockSecond, Locks, Stages
<1>5. /\ pc'[s] = "ready" /\ lock'[row] = s /\ req' = req /\ balance' = balance
      /\ \A x \in Rows : lock[x] = s => lock'[x] = s
  BY <1>1, <1>4, LocksFrame DEF Locks, tableVars
<1>6. lock'[req[s].acct] = s
  <2>1. CASE req[s].op = "payment"
    <3>1. lock[req[s].acct] = s /\ req[s].acct \in Rows
      BY <1>1, <1>2, <2>1, RequestRows DEF ReadSound, HoldsAccount
    <3> QED
      BY <1>5, <3>1
  <2>2. CASE req[s].op # "payment"
    BY <1>3, <1>5, <2>2 DEF SecondRow
  <2> QED
    BY <2>1, <2>2
<1>7. HoldsAccount(s)'
  BY <1>4, <1>5, <1>6 DEF HoldsAccount, MayPay
<1> QED
  BY <1>4, <1>7, LocksSound

\* A commit or rollback that leaves purchases and balances alone.
LEMMA QuietSound ==
    ASSUME CreditInv, CardInv', NEW s \in Sessions, Leave(s),
           UNCHANGED <<month, purchase, balance, repaid, posted>>,
           card' \in [Cards -> [limit : Nat, active : BOOLEAN]]
    PROVE  CreditInv'
<1>1. \A t \in Sessions : ReadSound(t)'
  BY LeaveKeeps
<1> QED
  BY <1>1 DEF CreditInv, TablesOK

\* So do edits of the card, previews and the turn of the month.
LEMMA EditsSound ==
    ASSUME CreditInv, CardInv', NEW s \in Sessions, SetLimit(s) \/ Delete(s)
    PROVE  CreditInv'
<1>1. req[s] \in Requests /\ card \in [Cards -> [limit : Nat, active : BOOLEAN]]
  BY DEF CreditInv, CardInv, Serving, SetLimit, Delete, Ready, TablesOK
<1>2. req[s].card \in Cards
  BY <1>1, RequestRows
<1>3. CASE SetLimit(s)
  <2>1. req[s].amount \in Nat
    BY <1>1, <1>3, CreditAssumption DEF SetLimit, Ready
  <2>2. card' \in [Cards -> [limit : Nat, active : BOOLEAN]]
    BY <1>1, <1>2, <1>3, <2>1 DEF SetLimit
  <2> QED
    BY <1>3, <2>2, QuietSound DEF SetLimit
<1>4. CASE Delete(s)
  <2>1. card' \in [Cards -> [limit : Nat, active : BOOLEAN]]
    BY <1>1, <1>2, <1>4 DEF Delete
  <2> QED
    BY <1>4, <2>1, QuietSound DEF Delete
<1> QED
  BY <1>3, <1>4

LEMMA CreditInitially == Init => CreditInv /\ Accounted
<1> SUFFICES ASSUME Init PROVE CreditInv /\ Accounted
  OBVIOUS
<1>1. CardInv /\ TablesOK
  BY CardInitially, CreditAssumption DEF Init, TablesOK
<1>2. purchase = NoPurchases /\ \A s \in Sessions : seen[s] = NoPurchases /\ pc[s] = "idle"
  BY DEF Init
<1>3. CreditInv
  BY <1>1, <1>2, NoPurchasesSound DEF CreditInv, ReadSound, HoldsAccount
<1>4. ASSUME NEW c \in Cards PROVE CardAddsUp(c)
  <2>1. Held(purchase, c) = {}
    BY <1>2 DEF Held, Slots, NoPurchases
  <2>2. Lows(purchase, c) = 0 /\ Highs(purchase, c) = 0
    <3>1. PICK f, g : /\ f = [x \in Held(purchase, c) |-> Low(At(purchase, x))]
                      /\ g = [x \in Held(purchase, c) |-> High(At(purchase, x))]
      OBVIOUS
    <3>2. SumFunctionOnSet(f, {}) = 0 /\ SumFunctionOnSet(g, {}) = 0
      BY SumEmpty
    <3> QED
      BY <2>1, <3>1, <3>2 DEF Lows, Highs
  <2>3. charged[c] = 0 /\ repaid[c] = 0
    BY DEF Init
  <2> QED
    BY <2>2, <2>3 DEF CardAddsUp
<1>5. \A a \in Accounts : balance[a] = Opening[a] - posted[a]
  BY CreditAssumption DEF Init
<1> QED
  BY <1>3, <1>4, <1>5 DEF Accounted

LEMMA CreditInductive == CreditInv /\ [Next]_vars => CreditInv'
<1> SUFFICES ASSUME CreditInv, [Next]_vars PROVE CreditInv'
  OBVIOUS
<1>0. CardInv'
  BY CardInductive DEF CreditInv
<1>1. CASE UNCHANGED vars \/ NextMonth
  <2>1. UNCHANGED <<card, purchase, balance, repaid, posted, lock, pc, req, seen>>
    BY <1>1 DEF vars, tableVars, sessionVars, NextMonth
  <2>2. month' \in 0 .. Horizon
    BY <1>1, CreditAssumption DEF CreditInv, TablesOK, vars, NextMonth
  <2>3. TablesOK'
    BY <2>1, <2>2 DEF CreditInv, TablesOK
  <2>4. \A s \in Sessions : ReadSound(s)'
    BY <2>1 DEF CreditInv, ReadSound, HoldsAccount, MayPay
  <2>5. SoundBooks(purchase')
    BY <2>1 DEF CreditInv
  <2> QED
    BY <1>0, <2>3, <2>4, <2>5 DEF CreditInv
<1>2. ASSUME NEW s \in Sessions, SessionStep(s) PROVE CreditInv'
  <2>1. CASE Replay(s) \/ Preview(s) \/ Refuse(s) \/ Fail(s) \/ Deadlock(s)
    <3>1. Leave(s) /\ UNCHANGED <<month, tableVars>>
      BY <2>1 DEF Replay, Preview, Refuse, Fail, Deadlock
    <3>2. card' \in [Cards -> [limit : Nat, active : BOOLEAN]]
      BY <3>1 DEF CreditInv, TablesOK, tableVars
    <3> QED
      BY <1>0, <3>1, <3>2, QuietSound DEF tableVars
  <2> QED
    BY <1>0, <1>2, <2>1, BeginSound, LockFirstSound, LockSecondSound, ChargeSound, PaySound,
       EditsSound DEF SessionStep, Serve
<1> QED
  BY <1>1, <1>2 DEF Next

-----------------------------------------------------------------------------
(* The debt adds up *)

\* What the session has read of its card is owed on the card.
LEMMA CommitSums ==
    ASSUME CreditInv, NEW s \in Sessions, Writing(s), Write(s)
    PROVE  LET c == req[s].card
               old == seen[s]
               new == Written(s)
           IN  /\ Lows(old, c) = Lows(purchase, c) /\ Highs(old, c) = Highs(purchase, c)
               /\ Lows(new, c) = Lows(purchase', c) /\ Highs(new, c) = Highs(purchase', c)
               /\ \A d \in Cards \ {c} :
                    Lows(purchase, d) = Lows(purchase', d) /\ Highs(purchase, d) = Highs(purchase', d)
               /\ \A d \in Cards : DividesEvenly(d)' => DividesEvenly(d)
               /\ DividesEvenly(c) => \A p \in Purchases :
                    InCard(old, p, c) => Len(old[p].rows) <= EvenlyDivided
<1> DEFINE c == req[s].card
           old == seen[s]
           new == Written(s)
<1>1. /\ SoundBooks(old) /\ SoundBooks(purchase) /\ SoundBooks(new) /\ SoundBooks(purchase')
      /\ Agree(old, purchase, c) /\ Agree(new, purchase', c)
      /\ \A d \in Cards \ {c} : Agree(purchase, purchase', d)
  BY WritingFacts, WrittenSound, CommitFacts DEF CreditInv
<1>2. \A p \in Purchases : purchase[p] # Nothing =>
        /\ purchase'[p] # Nothing /\ purchase'[p].card = purchase[p].card
        /\ Len(purchase'[p].rows) = Len(purchase[p].rows)
  BY CommitFacts
<1> HIDE DEF new, old, c
<1>3. \A d \in Cards : DividesEvenly(d)' => DividesEvenly(d)
  BY <1>2 DEF DividesEvenly, OfCard
<1>4. ASSUME DividesEvenly(c), NEW p \in Purchases, InCard(old, p, c)
      PROVE  Len(old[p].rows) <= EvenlyDivided
  <2>1. old[p] = purchase[p] /\ p \in OfCard(purchase, c)
    BY <1>1, <1>4 DEF Agree, InCard, OfCard
  <2> QED
    BY <1>4, <2>1 DEF DividesEvenly
<1>5. /\ Lows(old, c) = Lows(purchase, c) /\ Highs(old, c) = Highs(purchase, c)
      /\ Lows(new, c) = Lows(purchase', c) /\ Highs(new, c) = Highs(purchase', c)
  BY <1>1, SumsAgree
<1>6. \A d \in Cards \ {c} :
        Lows(purchase, d) = Lows(purchase', d) /\ Highs(purchase, d) = Highs(purchase', d)
  BY <1>1, SumsAgree
<1> QED
  BY <1>3, <1>4, <1>5, <1>6 DEF old, new, c

\* A purchase raises what is charged and both sums by its amount.
LEMMA ChargeAddsUp ==
    ASSUME CreditInv, CreditInv', Accounted, NEW s \in Sessions, Charge(s)
    PROVE  Accounted'
<1> DEFINE r == req[s]
           old == seen[s]
           new == Written(s)
<1>1. Writing(s) /\ Write(s) /\ r.op = "purchase"
  BY DEF Charge, Writing, Ready, EventOps
<1>0. PICK c \in Cards : c = r.card
  BY <1>1, WritingFacts
<1>2. /\ c \in Cards /\ DOMAIN old = Purchases /\ SoundBooks(old) /\ month \in Nat
      /\ r.purchase \in Purchases /\ r.amount \in Nat /\ r.total \in Nat \ {0}
      /\ ~InCard(old, r.purchase, c)
      /\ new = [old EXCEPT ![r.purchase] = Built(c, r.amount, r.total, month)]
  BY <1>0, <1>1, WritingFacts
<1>3. SoundBooks(new)
  BY <1>1, WrittenSound
<1>4. /\ Lows(old, c) \in Int /\ Highs(old, c) \in Int
      /\ Lows(new, c) = Lows(old, c) + r.amount /\ Highs(new, c) = Highs(old, c) + r.amount
  <2>0. PICK ps : ps = old
    OBVIOUS
  <2>1. PICK p \in Purchases, n \in Nat, k \in Nat \ {0}, m \in Nat :
          p = r.purchase /\ n = r.amount /\ k = r.total /\ m = month
    BY <1>2
  <2>2. new[p] = Built(c, n, k, m) /\ \A q \in Purchases \ {p} : new[q] = ps[q]
    BY <1>2, <2>0, <2>1
  <2>5. PICK qs : qs = new
    OBVIOUS
  <2> HIDE DEF new, old, r
  <2>3. SoundBooks(ps) /\ DOMAIN ps = Purchases /\ ~InCard(ps, p, c)
        /\ qs[p] = Built(c, n, k, m) /\ SoundBooks(qs)
        /\ \A q \in Purchases \ {p} : qs[q] = ps[q]
    BY <1>2, <1>3, <2>0, <2>1, <2>2, <2>5
  <2>4. /\ Lows(ps, c) \in Int /\ Highs(ps, c) \in Int
        /\ Lows(qs, c) = Lows(ps, c) + n /\ Highs(qs, c) = Highs(ps, c) + n
    BY <2>3, PurchaseGoesUp
  <2> QED
    BY <2>0, <2>1, <2>4, <2>5
<1>5. /\ charged' = [charged EXCEPT ![c] = @ + r.amount] /\ charged \in [Cards -> Nat]
      /\ UNCHANGED <<balance, repaid, posted>> /\ repaid \in [Cards -> Nat]
  BY <1>0 DEF Charge, CreditInv, CardInv, CardTypes, TablesOK
<1>6. /\ Lows(old, c) = Lows(purchase, c) /\ Highs(old, c) = Highs(purchase, c)
      /\ Lows(new, c) = Lows(purchase', c) /\ Highs(new, c) = Highs(purchase', c)
      /\ \A d \in Cards \ {c} :
           Lows(purchase, d) = Lows(purchase', d) /\ Highs(purchase, d) = Highs(purchase', d)
      /\ \A d \in Cards : DividesEvenly(d)' => DividesEvenly(d)
  BY <1>0, <1>1, CommitSums
<1> HIDE DEF new, old, r
<1>7. CardAddsUp(c)'
  <2> SUFFICES ASSUME DividesEvenly(c)'
               PROVE  /\ Highs(purchase', c) <= charged'[c] - repaid'[c]
                      /\ charged'[c] - repaid'[c] <= Lows(purchase', c)
    BY DEF CardAddsUp
  <2>1. /\ Highs(purchase, c) <= charged[c] - repaid[c]
        /\ charged[c] - repaid[c] <= Lows(purchase, c)
    BY <1>2, <1>6 DEF Accounted, CardAddsUp
  <2>2. PICK low \in Int, high \in Int, a \in Int, b \in Int :
          low = Lows(old, c) /\ high = Highs(old, c) /\ a = charged[c] /\ b = repaid[c]
    BY <1>2, <1>4, <1>5
  <2>3. charged'[c] = a + r.amount /\ repaid'[c] = b
    BY <1>2, <1>5, <2>2
  <2>4. Lows(purchase', c) = low + r.amount /\ Highs(purchase', c) = high + r.amount
    BY <1>4, <1>6, <2>2
  <2>5. high <= a - b /\ a - b <= low
    BY <1>6, <2>1, <2>2
  <2> QED
    BY <1>2, <2>2, <2>3, <2>4, <2>5
<1>8. ASSUME NEW d \in Cards \ {c} PROVE CardAddsUp(d)'
  <2>1. charged'[d] = charged[d] /\ repaid'[d] = repaid[d]
    BY <1>5
  <2> QED
    BY <1>6, <2>1 DEF Accounted, CardAddsUp
<1> QED
  BY <1>5, <1>7, <1>8 DEF Accounted

\* Both kinds of payment bring down what the card owes by what is applied.
LEMMA PayGoesDown ==
    ASSUME CreditInv, NEW s \in Sessions, Writing(s), Write(s),
           req[s].op \in {"payment", "early"}, DividesEvenly(req[s].card)
    PROVE  LET c == req[s].card
               old == seen[s]
               new == Written(s)
           IN  /\ Lows(old, c) \in Int /\ Highs(old, c) \in Int
               /\ Lows(new, c) \in Int /\ Highs(new, c) \in Int
               /\ Lows(new, c) >= Lows(old, c) - Applied(s)
               /\ Highs(new, c) <= Highs(old, c) - Applied(s)
<1> DEFINE r == req[s]
<1>1. PICK c, ps, qs, n : c = r.card /\ ps = seen[s] /\ qs = Written(s) /\ n = Applied(s)
  OBVIOUS
<1>2. /\ c \in Cards /\ DOMAIN ps = Purchases /\ SoundBooks(ps) /\ month \in Nat
      /\ SoundBooks(qs) /\ n \in Nat
  BY <1>1, WritingFacts, WrittenSound
<1>3. CASE r.op = "payment"
  <2>1. Exhausts(ps, c, month, n) /\ qs = PaidDown(ps, c, month, n)
    BY <1>1, <1>3, WritingFacts
  <2>2. PICK m \in Int : m = month
    BY <1>2
  <2>3. Exhausts(ps, c, m, n) /\ qs = PaidDown(ps, c, m, n)
    BY <2>1, <2>2
  <2>4. /\ Lows(ps, c) \in Int /\ Highs(ps, c) \in Int
        /\ Lows(qs, c) \in Int /\ Highs(qs, c) \in Int
        /\ Lows(qs, c) >= Lows(ps, c) - n /\ Highs(qs, c) <= Highs(ps, c) - n
    BY <1>2, <2>3, PaymentGoesDown
  <2> QED
    BY <1>1, <2>4
<1>4. CASE r.op = "early"
  <2>1. PICK p \in Purchases : p = r.purchase
    BY <1>4, WritingFacts
  <2>2. /\ InCard(ps, p, c) /\ n <= Remaining(ps[p]) /\ Unpaid(ps[p]) # {}
        /\ qs = [ps EXCEPT ![p] = Redistributed(@, n)]
    BY <1>1, <1>4, <2>1, WritingFacts
  <2>3. Len(ps[p].rows) <= EvenlyDivided
    BY <1>1, <2>2, CommitSums
  <2>4. /\ Lows(ps, c) \in Int /\ Highs(ps, c) \in Int
        /\ Lows(qs, c) \in Int /\ Highs(qs, c) \in Int
        /\ Lows(qs, c) >= Lows(ps, c) - n /\ Highs(qs, c) <= Highs(ps, c) - n
    <3>1. n \in Int
      BY <1>2
    <3> QED
      BY <1>2, <2>2, <2>3, <3>1, EarlyGoesDown
  <2> QED
    BY <1>1, <2>4
<1> QED
  BY <1>3, <1>4

\* A payment raises what is repaid as it lowers the sums.
LEMMA PayAddsUp ==
    ASSUME CreditInv, CreditInv', Accounted, NEW s \in Sessions, Pay(s)
    PROVE  Accounted'
<1> DEFINE r == req[s]
           old == seen[s]
           new == Written(s)
           n == Applied(s)
<1>1. Writing(s) /\ Write(s) /\ r.op \in {"payment", "early"}
  BY DEF Pay, Writing, Ready, EventOps
<1>0. PICK c \in Cards : c = r.card
  BY <1>1, WritingFacts
<1>2. /\ r.acct \in Accounts /\ n \in Nat /\ Source(s) \in Nat
      /\ balance[r.acct] >= Source(s)
  BY <1>1, WritingFacts
<1>3. /\ balance' = [balance EXCEPT ![r.acct] = @ - Source(s)]
      /\ posted' = [posted EXCEPT ![r.acct] = @ + Source(s)]
      /\ repaid' = [repaid EXCEPT ![c] = @ + n]
      /\ charged' = charged
  BY <1>0 DEF Pay
<1>4. /\ charged \in [Cards -> Nat] /\ repaid \in [Cards -> Nat]
      /\ balance \in [Accounts -> Nat] /\ posted \in [Accounts -> Nat]
  BY DEF CreditInv, CardInv, CardTypes, TablesOK
<1>5. /\ Lows(old, c) = Lows(purchase, c) /\ Highs(old, c) = Highs(purchase, c)
      /\ Lows(new, c) = Lows(purchase', c) /\ Highs(new, c) = Highs(purchase', c)
      /\ \A d \in Cards \ {c} :
           Lows(purchase, d) = Lows(purchase', d) /\ Highs(purchase, d) = Highs(purchase', d)
      /\ \A d \in Cards : DividesEvenly(d)' => DividesEvenly(d)
  BY <1>0, <1>1, CommitSums
<1>6. DividesEvenly(c) =>
        /\ Lows(old, c) \in Int /\ Highs(old, c) \in Int
        /\ Lows(new, c) \in Int /\ Highs(new, c) \in Int
        /\ Lows(new, c) >= Lows(old, c) - n /\ Highs(new, c) <= Highs(old, c) - n
  BY <1>0, <1>1, PayGoesDown
<1>7. PICK amount \in Nat : amount = Source(s)
  BY <1>2
<1> HIDE DEF new, old, r, n
<1>8. CardAddsUp(c)'
  <2> SUFFICES ASSUME DividesEvenly(c)'
               PROVE  /\ Highs(purchase', c) <= charged'[c] - repaid'[c]
                      /\ charged'[c] - repaid'[c] <= Lows(purchase', c)
    BY DEF CardAddsUp
  <2>1. DividesEvenly(c)
    BY <1>2, <1>5
  <2>2. /\ Highs(purchase, c) <= charged[c] - repaid[c]
        /\ charged[c] - repaid[c] <= Lows(purchase, c)
    BY <1>2, <2>1 DEF Accounted, CardAddsUp
  <2>8. PICK low \in Int, high \in Int, low_ \in Int, high_ \in Int :
          /\ low = Lows(old, c) /\ high = Highs(old, c)
          /\ low_ = Lows(new, c) /\ high_ = Highs(new, c)
    BY <1>6, <2>1
  <2>9. PICK a \in Int, b \in Int : a = charged[c] /\ b = repaid[c]
    BY <1>4
  <2>3. /\ low = Lows(old, c) /\ high = Highs(old, c) /\ a = charged[c] /\ b = repaid[c]
        /\ low_ = Lows(new, c) /\ high_ = Highs(new, c)
    BY <2>8, <2>9
  <2>4. charged'[c] = a /\ repaid'[c] = b + n
    BY <1>2, <1>3, <1>4, <2>3
  <2>5. Lows(purchase', c) = low_ /\ Highs(purchase', c) = high_
    BY <1>5, <2>3
  <2>6. high <= a - b /\ a - b <= low
    BY <1>5, <2>2, <2>3
  <2>7. low_ >= low - n /\ high_ <= high - n
    BY <1>6, <2>1, <2>3
  <2> QED
    BY <1>2, <2>3, <2>4, <2>5, <2>6, <2>7
<1>9. ASSUME NEW d \in Cards \ {c} PROVE CardAddsUp(d)'
  <2>1. charged'[d] = charged[d] /\ repaid'[d] = repaid[d]
    BY <1>3, <1>4
  <2> QED
    BY <1>5, <2>1 DEF Accounted, CardAddsUp
<1>10. ASSUME NEW a \in Accounts PROVE balance'[a] = Opening[a] - posted'[a]
  <2>1. /\ balance[a] = Opening[a] - posted[a]
        /\ balance[a] \in Nat /\ posted[a] \in Nat /\ Opening[a] \in Nat
    BY <1>4, CreditAssumption DEF Accounted
  <2>2. CASE a = r.acct
    <3>1. balance'[a] = balance[a] - amount /\ posted'[a] = posted[a] + amount
      BY <1>3, <1>4, <1>7, <2>2
    <3> QED
      BY <2>1, <3>1
  <2>3. CASE a # r.acct
    BY <1>3, <1>4, <2>1, <2>3
  <2> QED
    BY <2>2, <2>3
<1> QED
  BY <1>8, <1>9, <1>10 DEF Accounted

\* A step that posts nothing and writes no purchase.
LEMMA QuietAddsUp ==
    ASSUME Accounted, UNCHANGED <<purchase, charged, repaid, balance, posted>>
    PROVE  Accounted'
  BY DEF Accounted, CardAddsUp, DividesEvenly

\* The books add up after every step.
LEMMA AccountedInductive ==
    CreditInv /\ CreditInv' /\ Accounted /\ [Next]_vars => Accounted'
<1> SUFFICES ASSUME CreditInv, CreditInv', Accounted, [Next]_vars PROVE Accounted'
  OBVIOUS
<1>1. CASE UNCHANGED vars \/ NextMonth
  BY <1>1, QuietAddsUp DEF vars, tableVars, NextMonth
<1>2. ASSUME NEW s \in Sessions, SessionStep(s) PROVE Accounted'
  <2>1. CASE Charge(s)
    BY <2>1, ChargeAddsUp
  <2>2. CASE Pay(s)
    BY <2>2, PayAddsUp
  <2>3. CASE ~Charge(s) /\ ~Pay(s)
    <3>1. UNCHANGED <<purchase, charged, repaid, balance, posted>>
      BY <1>2, <2>3 DEF SessionStep, Serve, Begin, LockFirst, LockSecond, Replay, Preview,
                       SetLimit, Delete, Refuse, Fail, Deadlock, tableVars
    <3> QED
      BY <3>1, QuietAddsUp
  <2> QED
    BY <2>1, <2>2, <2>3
<1> QED
  BY <1>1, <1>2 DEF Next

\* The debt is the principal that rows owe and their interest.
LEMMA DebtIsSum ==
    ASSUME NEW ps, SoundBooks(ps), NEW c
    PROVE  LET closed == {x \in Slots(ps) : ps[x[1]].card = c /\ At(ps, x).status = "paid"}
           IN  /\ Lows(ps, c) \in Int /\ Highs(ps, c) \in Int
               /\ Interest(ps, Pending(ps, c)) \in Int
               /\ Debt(ps, c) = Lows(ps, c) + Interest(ps, Pending(ps, c))
               /\ Interest(ps, closed) = Lows(ps, c) - Highs(ps, c)
<1> DEFINE S == Held(ps, c)
           P == Pending(ps, c)
           C == {x \in Slots(ps) : ps[x[1]].card = c /\ At(ps, x).status = "paid"}
<1>1. IsFiniteSet(S) /\ P \in SUBSET S /\ IsFiniteSet(P)
  BY SlotsFinite
<1>2. C \in SUBSET S /\ S \ C = P /\ S \ P = C
      /\ \A x \in S : (x \in C <=> At(ps, x).status = "paid")
  BY DEF Held, Pending
<1>3. IsFiniteSet(C)
  BY <1>1, <1>2, FS_Subset
<1>4. PICK low, high, own, left, due, paid :
        /\ low = [x \in S |-> Low(At(ps, x))]
        /\ high = [x \in S |-> High(At(ps, x))]
        /\ own = [x \in S |-> IF x \in C THEN At(ps, x).interest ELSE 0]
        /\ left = [x \in P |-> Left(At(ps, x))]
        /\ due = [x \in P |-> At(ps, x).interest]
        /\ paid = [x \in C |-> At(ps, x).interest]
  OBVIOUS
<1>5. \A x \in S : LET row == At(ps, x)
                   IN  /\ row.interest \in Int /\ row.principal - row.paid \in Int
                       /\ Left(row) = row.principal - row.paid + row.interest
  BY HeldFacts, LeftType
<1> HIDE DEF S, P, C
<1>6. ASSUME NEW x \in S
      PROVE  low[x] \in Int /\ high[x] \in Int /\ own[x] \in Int /\ low[x] = high[x] + own[x]
  <2>1. CASE x \in C
    <3>1. low[x] = 0 /\ high[x] = -At(ps, x).interest /\ own[x] = At(ps, x).interest
      BY <1>2, <1>4, <2>1 DEF Low, High
    <3> QED
      BY <1>5, <3>1
  <2>2. CASE x \notin C
    <3>1. /\ low[x] = At(ps, x).principal - At(ps, x).paid
          /\ high[x] = At(ps, x).principal - At(ps, x).paid /\ own[x] = 0
      BY <1>2, <1>4, <2>2 DEF Low, High
    <3> QED
      BY <1>5, <3>1
  <2> QED
    BY <2>1, <2>2
<1>7. ASSUME NEW x \in P
      PROVE  low[x] \in Int /\ due[x] \in Int /\ left[x] = low[x] + due[x]
  <2>1. x \in S /\ x \notin C
    BY <1>1, <1>2
  <2>2. low[x] = At(ps, x).principal - At(ps, x).paid
    BY <1>2, <1>4, <2>1 DEF Low
  <2>3. due[x] = At(ps, x).interest /\ left[x] = Left(At(ps, x))
    BY <1>4
  <2> QED
    BY <1>5, <2>1, <2>2, <2>3
<1>8. SumFunctionOnSet(low, S) = SumFunctionOnSet(high, S) + SumFunctionOnSet(own, S)
  BY <1>1, <1>6, SumAdd
<1>9. SumFunctionOnSet(left, P) = SumFunctionOnSet(low, P) + SumFunctionOnSet(due, P)
  BY <1>1, <1>7, SumAdd
<1>10. SumFunctionOnSet(low, S) = SumFunctionOnSet(low, P)
  <2>1. \A x \in S \ P : low[x] = 0
    BY <1>2, <1>4 DEF Low
  <2>2. \A x \in S : low[x] \in Int
    BY <1>6
  <2> QED
    BY <1>1, <2>1, <2>2, SumRestrict
<1>11. SumFunctionOnSet(own, S) = SumFunctionOnSet(paid, C)
  <2>1. \A x \in S \ C : own[x] = 0
    BY <1>4
  <2>2. \A x \in S : own[x] \in Int
    BY <1>6
  <2>3. SumFunctionOnSet(own, S) = SumFunctionOnSet(own, C)
    BY <1>1, <1>2, <2>1, <2>2, SumRestrict
  <2>4. \A x \in C : own[x] = paid[x]
    BY <1>2, <1>4
  <2> QED
    BY <1>3, <2>3, <2>4, SumCongruence
<1>12. /\ SumFunctionOnSet(low, S) \in Int /\ SumFunctionOnSet(high, S) \in Int
       /\ SumFunctionOnSet(own, S) \in Int /\ SumFunctionOnSet(due, P) \in Int
  BY <1>1, <1>6, <1>7, SumType
<1>13. /\ Lows(ps, c) = SumFunctionOnSet(low, S) /\ Highs(ps, c) = SumFunctionOnSet(high, S)
       /\ Debt(ps, c) = SumFunctionOnSet(left, P)
       /\ Interest(ps, P) = SumFunctionOnSet(due, P) /\ Interest(ps, C) = SumFunctionOnSet(paid, C)
  <2>1. Lows(ps, c) = SumFunctionOnSet(low, S) /\ Highs(ps, c) = SumFunctionOnSet(high, S)
    BY <1>4 DEF Lows, Highs, S
  <2>2. Debt(ps, c) = SumFunctionOnSet(left, P)
    BY <1>4 DEF Debt, TotalOf, SumFunction, P
  <2>3. Interest(ps, P) = SumFunctionOnSet(due, P) /\ Interest(ps, C) = SumFunctionOnSet(paid, C)
    BY <1>4 DEF Interest, TotalOf, SumFunction
  <2> QED
    BY <2>1, <2>2, <2>3
<1>14. /\ Lows(ps, c) \in Int /\ Highs(ps, c) \in Int /\ Interest(ps, P) \in Int
       /\ Debt(ps, c) = Lows(ps, c) + Interest(ps, P)
       /\ Interest(ps, C) = Lows(ps, c) - Highs(ps, c)
  BY <1>8, <1>9, <1>10, <1>11, <1>12, <1>13
<1> QED
  BY <1>14 DEF P, C

\* The two sums bound the debt of the card as the property says.
LEMMA AccountedAddsUp == CreditInv /\ Accounted => DebtAddsUp
<1> SUFFICES ASSUME CreditInv, Accounted PROVE DebtAddsUp
  OBVIOUS
<1>1. ASSUME NEW c \in Cards, DividesEvenly(c)
      PROVE  LET closed == Interest(purchase, ClosedSlots(c))
                 due == charged[c] + Interest(purchase, Pending(purchase, c)) + closed - repaid[c]
             IN  Debt(purchase, c) \in due - closed .. due
  <2>1. /\ Lows(purchase, c) \in Int /\ Highs(purchase, c) \in Int
        /\ Interest(purchase, Pending(purchase, c)) \in Int
        /\ Debt(purchase, c) = Lows(purchase, c) + Interest(purchase, Pending(purchase, c))
        /\ Interest(purchase, ClosedSlots(c)) = Lows(purchase, c) - Highs(purchase, c)
    BY DebtIsSum DEF CreditInv, ClosedSlots
  <2>2. PICK low \in Int, high \in Int, own \in Int, a \in Int, b \in Int :
          /\ low = Lows(purchase, c) /\ high = Highs(purchase, c)
          /\ own = Interest(purchase, Pending(purchase, c))
          /\ a = charged[c] /\ b = repaid[c]
    BY <2>1 DEF CreditInv, CardInv, CardTypes, TablesOK
  <2>3. high <= a - b /\ a - b <= low
    BY <1>1, <2>2 DEF Accounted, CardAddsUp
  <2>4. Debt(purchase, c) = low + own /\ Interest(purchase, ClosedSlots(c)) = low - high
    BY <2>1, <2>2
  <2> QED
    BY <2>2, <2>3, <2>4
<1> QED
  BY <1>1 DEF DebtAddsUp, Accounted

-----------------------------------------------------------------------------
(* Later installments *)

\* What a commit does to a purchase that was there before.
LEMMA CommitProtects ==
    ASSUME CreditInv, NEW s \in Sessions, Writing(s), Write(s),
           NEW p \in Purchases, purchase[p] # Nothing
    PROVE  LET r == req[s]
               rows == purchase[p].rows
           IN  /\ DOMAIN purchase'[p].rows = DOMAIN rows
               /\ r.op = "purchase" => purchase'[p] = purchase[p]
               /\ r.op = "early" /\ p # r.purchase => purchase'[p] = purchase[p]
               /\ r.op = "payment" /\ Len(rows) > 1 =>
                    \A i \in DOMAIN rows :
                      rows[i].month > month => purchase'[p].rows[i] = rows[i]
<1> DEFINE r == req[s]
           c == r.card
           rows == purchase[p].rows
           written == OfCard(Written(s), c)
<1>1. purchase'[p] = IF p \in written THEN Written(s)[p] ELSE purchase[p]
  BY DEF Write
<1>2. DOMAIN purchase'[p].rows = DOMAIN rows
  BY CommitFacts
<1>3. /\ Agree(seen[s], purchase, c) /\ SoundBooks(seen[s]) /\ month \in Nat
      /\ DOMAIN seen[s] = Purchases /\ c \in Cards
  BY WritingFacts
<1>4. p \in written => InCard(purchase, p, c) /\ seen[s][p] = purchase[p] /\ InCard(seen[s], p, c)
  <2>1. p \in written => purchase[p].card = c
    BY WrittenOfCard DEF CreditInv, Writing
  <2> QED
    BY <1>3, <2>1 DEF Agree, InCard
<1>5. ASSUME r.op = "purchase" PROVE purchase'[p] = purchase[p]
  <2>1. /\ purchase[r.purchase] = Nothing
        /\ Written(s) = [seen[s] EXCEPT ![r.purchase] = Built(c, r.amount, r.total, month)]
    BY <1>5, WritingFacts
  <2>2. Written(s)[p] = seen[s][p]
    BY <1>3, <2>1
  <2> QED
    BY <1>1, <1>4, <2>2
<1>6. ASSUME r.op = "early", p # r.purchase PROVE purchase'[p] = purchase[p]
  <2>1. Written(s) = [seen[s] EXCEPT ![r.purchase] = Redistributed(@, Applied(s))]
    BY <1>6, WritingFacts
  <2>2. Written(s)[p] = seen[s][p]
    BY <1>3, <1>6, <2>1
  <2> QED
    BY <1>1, <1>4, <2>2
<1>7. ASSUME r.op = "payment", Len(rows) > 1, NEW i \in DOMAIN rows, rows[i].month > month
      PROVE  purchase'[p].rows[i] = rows[i]
  <2>1. CASE p \notin written
    BY <1>1, <2>1
  <2>2. CASE p \in written
    <3>1. PICK n \in Nat, m \in Int : n = Applied(s) /\ m = month
      BY <1>3, <1>7, WritingFacts
    <3>2. Written(s) = PaidDown(seen[s], c, m, n)
      BY <1>7, <3>1, WritingFacts
    <3>3. seen[s][p] = purchase[p] /\ InCard(seen[s], p, c)
      BY <1>4, <2>2
    <3>4. PaidDown(seen[s], c, m, n)[p].rows[i]
            = Paid(seen[s][p].rows[i], Share(seen[s], c, m, n, <<p, i>>))
      BY <1>3, <3>3, PaidDownRows
    <3>5. Share(seen[s], c, m, n, <<p, i>>) = 0
      <4> DEFINE x == <<p, i>>
      <4>1. At(seen[s], x).month > m /\ ~Single(seen[s], x)
        <5>1. x[1] = p /\ x[2] = i
          OBVIOUS
        <5>2. At(seen[s], x) = rows[i] /\ (Single(seen[s], x) <=> Len(rows) = 1)
          BY <3>3, <5>1 DEF At, Single
        <5>3. Len(rows) # 1
          <6>1. PICK k \in Nat : k = Len(rows)
            BY SoundRows DEF CreditInv, SoundBooks
          <6>2. k > 1
            BY <1>7, <6>1
          <6>3. k # 1
            BY <6>2
          <6> HIDE DEF rows
          <6> QED
            BY <6>1, <6>3
        <5> QED
          BY <1>7, <3>1, <5>2, <5>3
      <4> HIDE DEF x
      <4>2. Share(seen[s], c, m, n, x) = 0
        BY <1>3, <4>1, ShareFacts
      <4> QED
        BY <4>2 DEF x
    <3>6. Paid(seen[s][p].rows[i], 0) = rows[i]
      BY <3>3 DEF Paid
    <3> QED
      BY <1>1, <2>2, <3>2, <3>4, <3>5, <3>6
  <2> QED
    BY <2>1, <2>2
<1> QED
  BY <1>2, <1>5, <1>6, <1>7

\* No commit but an early payment changes later installments of the purchase.
LEMMA StepProtects ==
    ASSUME CreditInv, NEW s \in Sessions, Charge(s) \/ Pay(s),
           NEW p \in Purchases, purchase[p] # Nothing
    PROVE  LET rows == purchase[p].rows
               later == {i \in DOMAIN rows : rows[i].month > month}
           IN  /\ DOMAIN purchase'[p].rows = DOMAIN rows
               /\ Len(rows) > 1 =>
                    \A i \in later : purchase'[p].rows[i] # rows[i] =>
                      \E t \in Sessions :
                        Ready(t, "early") /\ req[t].purchase = p /\ pc'[t] = "idle"
<1>1. Writing(s) /\ Write(s) /\ Leave(s) /\ pc[s] = "ready"
  BY DEF Charge, Pay, Writing, Ready, EventOps
<1>2. pc'[s] = "idle"
  BY <1>1 DEF Leave, CreditInv, CardInv, CardTypes
<1>3. req[s].op \in {"purchase", "payment", "early"}
  BY <1>1 DEF Writing, EventOps
<1>4. CASE req[s].op = "early" /\ p = req[s].purchase
  BY <1>1, <1>2, <1>4, CommitProtects DEF Ready
<1>5. CASE ~(req[s].op = "early" /\ p = req[s].purchase)
  BY <1>1, <1>3, <1>5, CommitProtects
<1> QED
  BY <1>4, <1>5

(***************************************************************************)
(* The rows that are there are always sound and the amounts have their     *)
(* types, in any number of concurrent sessions: no payment overdraws an    *)
(* account and no installment is paid beyond its principal.                *)
(***************************************************************************)
THEOREM CreditInvariant == Spec => [](CreditInv /\ Accounted)
<1> QED
  BY CreditInitially, CreditInductive, AccountedInductive, PTL DEF Spec

(***************************************************************************)
(* The tables, the locks, the requests and what the sessions have read     *)
(* always have their types.                                                *)
(***************************************************************************)
THEOREM CreditTypes == Spec => []CreditTypeOK
<1>1. CreditInv => CreditTypeOK
  BY DEF CreditInv, CardInv, CardTypes, TablesOK, CreditTypeOK, SoundBooks, SoundPurchase,
         SoundRow, RowsFit, Stages
<1> QED
  BY <1>1, CreditInvariant, PTL

(***************************************************************************)
(* The debt of a card is always what was charged with its interest, less   *)
(* what was repaid and at most the interest of closed installments: the    *)
(* sums of the principals that are owed, with and without that interest,   *)
(* bound it on both sides, and every payment and early payment that        *)
(* commits lowers them together.                                           *)
(***************************************************************************)
THEOREM DebtAlwaysAddsUp == Spec => []DebtAddsUp
<1> QED
  BY CreditInvariant, AccountedAddsUp, PTL

(***************************************************************************)
(* Payments leave the installments of later months alone, and nothing      *)
(* changes the number of installments: what a payment pays is due or has a *)
(* single installment, and the rows it writes are of a card it holds.      *)
(***************************************************************************)
THEOREM FutureStaysProtected == Spec => FutureIsProtected
<1> DEFINE Protected ==
             \A p \in Purchases : purchase[p] # Nothing =>
               LET rows == purchase[p].rows
                   later == {i \in DOMAIN rows : rows[i].month > month}
               IN  /\ DOMAIN purchase'[p].rows = DOMAIN rows
                   /\ Len(rows) > 1 =>
                        \A i \in later : purchase'[p].rows[i] # rows[i] =>
                          \E s \in Sessions :
                            Ready(s, "early") /\ req[s].purchase = p /\ pc'[s] = "idle"
<1>1. CreditInv /\ [Next]_vars => [Protected]_vars
  <2> SUFFICES ASSUME CreditInv, Next PROVE Protected
    OBVIOUS
  <2>1. ASSUME UNCHANGED purchase PROVE Protected
    BY <2>1
  <2>2. ASSUME NEW s \in Sessions, SessionStep(s), ~Charge(s), ~Pay(s) PROVE UNCHANGED purchase
    BY <2>2 DEF SessionStep, Serve, Begin, LockFirst, LockSecond, Replay, Preview, SetLimit,
                Delete, Refuse, Fail, Deadlock, tableVars
  <2>3. NextMonth => UNCHANGED purchase
    BY DEF NextMonth, tableVars
  <2>4. ASSUME NEW s \in Sessions, Charge(s) \/ Pay(s) PROVE Protected
    BY <2>4, StepProtects
  <2> HIDE DEF Protected
  <2> QED
    BY <2>1, <2>2, <2>3, <2>4 DEF Next
<1> QED
  BY <1>1, CreditInvariant, PTL DEF FutureIsProtected, Spec

=============================================================================
