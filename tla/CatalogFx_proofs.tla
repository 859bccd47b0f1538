---------------------------- MODULE CatalogFx_proofs ----------------------------
(***************************************************************************)
(* Proofs about Catalog, for any users, categories, events, sessions and   *)
(* requests, and about FxQuotes, for any accounts, bills, units, prices    *)
(* and amounts.                                                            *)
(***************************************************************************)
EXTENDS CatalogProperties, FxProperties, FiniteSums, TLAPS

Reclassifying == {"event", "category", "audit", "commit"}

(***************************************************************************)
(* What a session is busy with: the request that its step belongs to.      *)
(***************************************************************************)
Busy ==
    \A s \in Sessions : pc[s] # "idle" =>
        /\ req[s] \in Requests
        /\ pc[s] = "insert" => req[s].op \in {"bootstrap", "create", "record"}
        /\ pc[s] = "write" => req[s].op \in EditOps
        /\ pc[s] \in Reclassifying => req[s].op = "reclassify"

(***************************************************************************)
(* An edit read its row without a lock, but its owner and its type never   *)
(* change and it is never deleted.                                         *)
(***************************************************************************)
Editing ==
    \A s \in Sessions : pc[s] = "write" =>
        LET row == category[req[s].category] IN
        /\ seen[s] \in Category
        /\ row # Nothing
        /\ row.owner = req[s].user /\ row.type = seen[s].type

(***************************************************************************)
(* From the moment it locks its event, a reclassification holds it, and    *)
(* what it has read of it is what it still is.                             *)
(***************************************************************************)
HoldsEvent ==
    \A s \in Sessions : pc[s] \in {"category", "audit", "commit"} =>
        LET e == req[s].event IN
        /\ lock[e] = s
        /\ event[e] # Nothing
        /\ event[e].owner = req[s].user /\ event[e].category = seen[s]

(***************************************************************************)
(* And from the moment it locks its category, this one stays usable.       *)
(***************************************************************************)
HoldsCategory ==
    \A s \in Sessions : pc[s] \in {"audit", "commit"} =>
        /\ lock[req[s].category] = s
        /\ Usable(req[s], category[req[s].category])

\* Nobody owns the global categories, so nobody edits them.
CatalogInv ==
    CatalogTypeOK /\ Busy /\ Editing /\ HoldsEvent /\ HoldsCategory
                  /\ CategoryNamesDistinct /\ AuditChain

-----------------------------------------------------------------------------
(* Requests *)

\* A request that belongs to a step has its rows in the tables.
LEMMA RequestRows ==
    ASSUME NEW r \in Requests
    PROVE  /\ r.user \in Users /\ r.user # Global
           /\ r.op \in {"create", "rename"} => r.name \in Names
           /\ r.op = "create" => r.type \in Types
           /\ r.op \in EditOps => r.category \in Categories
           /\ r.op \in {"record", "reclassify"} =>
                r.category \in Categories /\ r.event \in Events
           /\ r.op = "reclassify" => r.key \in Keys
           /\ r # Nothing
  BY CatalogAssumption DEF EditOps

\* Events, categories and keys are different rows.
LEMMA RowKinds ==
    /\ \A c \in Categories : c \in Rows /\ c \notin Events /\ c \notin Keys
    /\ \A e \in Events : e \in Rows /\ e \notin Keys
    /\ \A k \in Keys : k \in Rows
    /\ Nothing \notin Category /\ Nothing \notin Event
  BY CatalogAssumption

-----------------------------------------------------------------------------
(* One step of a session *)

\* The end of a transaction idles the session, and frees what it held only.
LEMMA LeaveFrame ==
    ASSUME CatalogTypeOK, NEW s \in Sessions, Leave(s)
    PROVE  /\ LockTypeOK'
           /\ pc' = [pc EXCEPT ![s] = "idle"] /\ pc'[s] = "idle"
           /\ req' \in [Sessions -> Requests \cup {Nothing}]
           /\ seen' \in [Sessions -> Categories \cup Category \cup {Nothing}]
           /\ shared' \in [Sessions -> SUBSET Categories]
           /\ \A t \in Sessions \ {s} :
                pc'[t] = pc[t] /\ req'[t] = req[t] /\ seen'[t] = seen[t]
           /\ \A row \in Rows, t \in Sessions \ {s} : lock[row] = t => lock'[row] = t
  BY DEF CatalogTypeOK, Leave, ReleaseAll, LockTypeOK

\* What a session takes was free, or its own.
LEMMA TakeFrame ==
    ASSUME LockTypeOK, NEW s \in Sessions, NEW r \in Rows, Available(s, r), Take(s, r)
    PROVE  /\ LockTypeOK' /\ lock'[r] = s
           /\ \A row \in Rows, t \in Sessions : lock[row] = t => lock'[row] = t
  BY NobodyAssumption DEF LockTypeOK, Available, Take

\* An edit changes the name of a row, or whether it is archived.
LEMMA EditedRow ==
    ASSUME NEW s \in Sessions, NEW r \in Requests, r.op \in EditOps, NEW row \in Category
    PROVE  /\ Edited(s, r, row) \in Category
           /\ Edited(s, r, row).owner = row.owner /\ Edited(s, r, row).type = row.type
           /\ Edited(s, r, row).name # row.name =>
                r.op = "rename" /\ r.name # seen[s].name /\ Edited(s, r, row).name = r.name
<1>1. CASE r.op = "rename"
  BY <1>1, RequestRows DEF Edited, Category
<1>2. CASE r.op = "archive"
  BY <1>2 DEF Edited, Category
<1>3. CASE r.op = "restore"
  BY <1>3 DEF Edited, Category
<1> QED
  BY <1>1, <1>2, <1>3 DEF EditOps

-----------------------------------------------------------------------------
(* Type correctness *)

LEMMA CatalogTypeInit == CatalogInit => CatalogTypeOK
  BY CatalogAssumption
  DEF CatalogInit, CatalogTypeOK, LockInit, LockTypeOK, Entry

\* A request arrives in an idle session.
LEMMA TypeArrive ==
    ASSUME CatalogTypeOK, NEW s \in Sessions, NEW r \in Requests, Arrive(s, r)
    PROVE  CatalogTypeOK'
<1>1. pc' \in [Sessions -> {"idle", "insert", "write", "event", "category", "audit", "commit"}]
  BY DEF CatalogTypeOK, Arrive
<1>2. seen' \in [Sessions -> Categories \cup Category \cup {Nothing}]
  BY RequestRows DEF CatalogTypeOK, Arrive
<1> QED
  BY <1>1, <1>2 DEF Arrive, CatalogTypeOK, catalogTables, LockTypeOK

\* One session's step keeps every type.
LEMMA CatalogTypeStep ==
    ASSUME CatalogTypeOK, Busy, Editing, HoldsEvent, NEW s \in Sessions, CatalogStep(s)
    PROVE  CatalogTypeOK'
<1>1. ASSUME NEW r \in Requests, Arrive(s, r)
      PROVE  CatalogTypeOK'
  BY <1>1, TypeArrive
<1>2. ASSUME pc[s] # "idle"
      PROVE  req[s] \in Requests
  BY <1>2 DEF Busy
<1>3. CASE Bootstrap(s)
  BY <1>2, <1>3, LeaveFrame, RequestRows DEF Bootstrap, CatalogTypeOK
<1>4. CASE Create(s)
  <2>1. category' \in [Categories -> Category \cup {Nothing}]
    BY <1>2, <1>4, RequestRows DEF Create, CatalogTypeOK, Category
  <2> QED
    BY <1>4, <2>1, LeaveFrame DEF Create, CatalogTypeOK
<1>5. CASE Record(s)
  <2>1. event' \in [Events -> Event \cup {Nothing}]
    BY <1>2, <1>5, RequestRows DEF Record, CatalogTypeOK, Event
  <2> QED
    BY <1>5, <2>1, LeaveFrame DEF Record, CatalogTypeOK
<1>6. CASE Write(s)
  <2>1. category[req[s].category] \in Category /\ req[s].op \in EditOps
    BY <1>2, <1>6, RequestRows DEF Write, Editing, Busy, CatalogTypeOK
  <2>2. category' \in [Categories -> Category \cup {Nothing}]
    BY <1>2, <1>6, <2>1, EditedRow DEF Write, CatalogTypeOK
  <2>3. Leave(s) /\ UNCHANGED <<profiles, event, audit, recorded>>
    BY <1>6 DEF Write
  <2> QED
    BY <2>2, <2>3, LeaveFrame DEF CatalogTypeOK
<1>7. CASE LockEvent(s)
  <2>1. req[s] \in Requests /\ req[s].event \in Events /\ req[s].event \in Rows
    BY <1>7, RequestRows, RowKinds DEF LockEvent, Busy, Reclassifying
  <2>2. LockTypeOK'
    BY <1>7, <2>1, TakeFrame DEF LockEvent, CatalogTypeOK
  <2>3. event[req[s].event].category \in Categories
    BY <1>7, <2>1 DEF LockEvent, Found, CatalogTypeOK, Event
  <2> QED
    BY <1>7, <2>2, <2>3 DEF LockEvent, CatalogTypeOK, catalogTables
<1>8. CASE LockCategory(s)
  <2>1. req[s].category \in Rows
    BY <1>8, RequestRows, RowKinds DEF LockCategory, Busy, Reclassifying
  <2>2. LockTypeOK'
    BY <1>8, <2>1, TakeFrame DEF LockCategory, CatalogTypeOK
  <2> QED
    BY <1>8, <2>2 DEF LockCategory, CatalogTypeOK, catalogTables
<1>9. CASE InsertAudit(s)
  <2>1. req[s] \in Requests /\ req[s].op = "reclassify"
    BY <1>9 DEF InsertAudit, Busy, Reclassifying
  <2>2. req[s].key \in Rows /\ req[s].event \in Events
    BY <2>1, RequestRows, RowKinds
  <2>3. LockTypeOK'
    BY <1>9, <2>2, TakeFrame DEF InsertAudit, CatalogTypeOK
  <2>4. seen[s] \in Categories
    BY <1>9, <2>2 DEF InsertAudit, HoldsEvent, CatalogTypeOK, Event
  <2> QED
    BY <1>9, <2>3, <2>4 DEF InsertAudit, CatalogTypeOK, catalogTables
<1>10. CASE Commit(s)
  <2>1. req[s] \in Requests /\ req[s].op = "reclassify"
    BY <1>10 DEF Commit, Busy, Reclassifying
  <2>2. /\ req[s].key \in Keys /\ req[s].event \in Events /\ req[s].category \in Categories
        /\ event[req[s].event] \in Event /\ seen[s] \in Categories
    BY <1>10, <2>1, RequestRows DEF Commit, HoldsEvent, CatalogTypeOK, Event
  <2>3. event' \in [Events -> Event \cup {Nothing}]
    BY <1>10, <2>2 DEF Commit, CatalogTypeOK, Event
  <2>4. [previous |-> seen[s], new |-> req[s].category] \in Entry
    BY <2>2 DEF Entry
  <2>5. audit' \in [Events -> Seq(Entry)]
    BY <1>10, <2>2, <2>4 DEF Commit, CatalogTypeOK
  <2>6. recorded' \in [Keys -> Requests \cup {Nothing}]
    BY <1>10, <2>1 DEF Commit, CatalogTypeOK
  <2> QED
    BY <1>10, <2>3, <2>5, <2>6, LeaveFrame DEF Commit, CatalogTypeOK
<1>11. CASE KeyRetried(s) \/ Refuse(s) \/ Fail(s) \/ Deadlock(s)
  BY <1>11, LeaveFrame DEF KeyRetried, Refuse, Fail, Deadlock, CatalogTypeOK, catalogTables
<1> QED
  BY <1>1, <1>3, <1>4, <1>5, <1>6, <1>7, <1>8, <1>9, <1>10, <1>11 DEF CatalogStep, Serve

-----------------------------------------------------------------------------
(* What a step leaves to the other sessions *)

\* The other sessions stay where they are and keep what they have locked.
LEMMA OthersStay ==
    ASSUME CatalogTypeOK, Busy, NEW s \in Sessions, CatalogStep(s), NEW t \in Sessions \ {s}
    PROVE  /\ pc'[t] = pc[t] /\ req'[t] = req[t] /\ seen'[t] = seen[t]
           /\ \A row \in Rows : lock[row] = t => lock'[row] = t
<1>1. ASSUME NEW r \in Requests, Arrive(s, r)
      PROVE  /\ pc'[t] = pc[t] /\ req'[t] = req[t] /\ seen'[t] = seen[t]
             /\ lock' = lock
  BY <1>1 DEF Arrive, CatalogTypeOK
<1>2. CASE Leave(s)
  BY <1>2, LeaveFrame
<1>3. CASE LockEvent(s)
  <2>1. req[s].event \in Rows
    BY <1>3, RequestRows, RowKinds DEF LockEvent, Busy, Reclassifying
  <2> QED
    BY <1>3, <2>1, TakeFrame DEF LockEvent, CatalogTypeOK
<1>4. CASE LockCategory(s)
  <2>1. req[s].category \in Rows
    BY <1>4, RequestRows, RowKinds DEF LockCategory, Busy, Reclassifying
  <2> QED
    BY <1>4, <2>1, TakeFrame DEF LockCategory, CatalogTypeOK
<1>5. CASE InsertAudit(s)
  <2>1. req[s].key \in Rows
    BY <1>5, RequestRows, RowKinds DEF InsertAudit, Busy, Reclassifying
  <2> QED
    BY <1>5, <2>1, TakeFrame DEF InsertAudit, CatalogTypeOK
<1> QED
  BY <1>1, <1>2, <1>3, <1>4, <1>5
  DEF CatalogStep, Serve, Bootstrap, Create, Record, Write, KeyRetried, Commit, Refuse,
      Fail, Deadlock

\* A category stays, with its owner and its type; one that another session
\* holds stays as it is.
LEMMA CategoriesStay ==
    ASSUME CatalogTypeOK, Busy, Editing, NEW s \in Sessions, CatalogStep(s),
           NEW c \in Categories, category[c] # Nothing
    PROVE  /\ category'[c] # Nothing
           /\ category'[c].owner = category[c].owner /\ category'[c].type = category[c].type
           /\ \A t \in Sessions \ {s} : lock[c] = t => category'[c] = category[c]
           /\ pc[s] # "write" => category'[c] = category[c]
<1>1. CASE Write(s)
  <2>1. /\ req[s] \in Requests /\ req[s].op \in EditOps /\ req[s].category \in Categories
        /\ category[req[s].category] \in Category
    BY <1>1, RequestRows DEF Write, Editing, Busy, CatalogTypeOK
  <2>2. category'[c] = category[c] \/ /\ c = req[s].category
                                      /\ category'[c] = Edited(s, req[s], category[c])
    BY <1>1, <2>1 DEF Write, CatalogTypeOK
  <2>3. \A t \in Sessions \ {s} : lock[req[s].category] # t
    BY <1>1, NobodyAssumption DEF Write, Available
  <2> QED
    BY <1>1, <2>1, <2>2, <2>3, EditedRow, RowKinds DEF Write
<1>2. CASE Create(s)
  BY <1>2 DEF Create, CatalogTypeOK
<1>3. CASE category' = category
  BY <1>3
<1> QED
  BY <1>1, <1>2, <1>3
  DEF CatalogStep, Serve, Arrive, Bootstrap, Record, LockEvent, KeyRetried, LockCategory,
      InsertAudit, Commit, Refuse, Fail, Deadlock, catalogTables

\* A movement stays with its owner; one that another session holds stays as it is.
LEMMA EventsStay ==
    ASSUME CatalogTypeOK, Busy, HoldsEvent, NEW s \in Sessions, CatalogStep(s),
           NEW e \in Events, event[e] # Nothing
    PROVE  /\ event'[e] # Nothing /\ event'[e].owner = event[e].owner
           /\ \A t \in Sessions \ {s} : lock[e] = t => event'[e] = event[e]
           /\ pc[s] # "commit" => event'[e] = event[e]
<1>1. CASE Commit(s)
  <2>1. req[s].event \in Events /\ lock[req[s].event] = s
    BY <1>1, RequestRows DEF Commit, Busy, HoldsEvent, Reclassifying
  <2>2. event[e] \in Event
    BY DEF CatalogTypeOK
  <2>3. /\ e # req[s].event => event'[e] = event[e]
        /\ event'[e] = event[e] \/ event'[e] = [event[e] EXCEPT !.category = req[s].category]
    BY <1>1, <2>1 DEF Commit, CatalogTypeOK
  <2>4. [event[e] EXCEPT !.category = req[s].category].owner = event[e].owner
    BY <2>2 DEF Event
  <2>5. event'[e] # Nothing
    BY <1>1, <2>1, <2>2, <2>3, RequestRows, RowKinds DEF Commit, Busy, Reclassifying, Event
  <2> QED
    BY <1>1, <2>1, <2>3, <2>4, <2>5 DEF Commit
<1>2. CASE Record(s)
  BY <1>2 DEF Record, CatalogTypeOK
<1>3. CASE event' = event
  BY <1>3
<1> QED
  BY <1>1, <1>2, <1>3
  DEF CatalogStep, Serve, Arrive, Bootstrap, Create, Write, LockEvent, KeyRetried,
      LockCategory, InsertAudit, Refuse, Fail, Deadlock, catalogTables

-----------------------------------------------------------------------------
(* What sessions rely on *)

\* After its own step a session is idle, or further on in its request.
LEMMA OwnStep ==
    ASSUME CatalogTypeOK, Busy, NEW s \in Sessions, CatalogStep(s), pc'[s] # "idle"
    PROVE  \/ \E r \in Requests : Arrive(s, r) /\ pc'[s] \in {"insert", "write", "event"}
           \/ LockEvent(s) /\ pc'[s] = "category" /\ req'[s] = req[s]
           \/ LockCategory(s) /\ pc'[s] = "audit" /\ req'[s] = req[s]
           \/ InsertAudit(s) /\ pc'[s] = "commit" /\ req'[s] = req[s]
<1>1. ~Leave(s)
  BY LeaveFrame
<1>2. ASSUME NEW r \in Requests, Arrive(s, r)
      PROVE  pc'[s] \in {"insert", "write", "event"}
  BY <1>2 DEF Arrive, CatalogTypeOK
<1>3. CASE LockEvent(s)
  BY <1>3 DEF LockEvent, CatalogTypeOK
<1>4. CASE LockCategory(s)
  BY <1>4 DEF LockCategory, CatalogTypeOK
<1>5. CASE InsertAudit(s)
  BY <1>5 DEF InsertAudit, CatalogTypeOK
<1>6. ~(Bootstrap(s) \/ Create(s) \/ Record(s) \/ Write(s) \/ KeyRetried(s) \/ Commit(s)
          \/ Refuse(s) \/ Fail(s) \/ Deadlock(s))
  BY <1>1 DEF Bootstrap, Create, Record, Write, KeyRetried, Commit, Refuse, Fail, Deadlock
<1> QED
  BY <1>2, <1>3, <1>4, <1>5, <1>6 DEF CatalogStep, Serve

\* Steps take sessions through the stages of one request.
LEMMA BusyStep ==
    ASSUME CatalogTypeOK, Busy, NEW s \in Sessions, CatalogStep(s)
    PROVE  Busy'
<1> SUFFICES ASSUME NEW t \in Sessions, pc'[t] # "idle"
             PROVE  /\ req'[t] \in Requests
                    /\ pc'[t] = "insert" => req'[t].op \in {"bootstrap", "create", "record"}
                    /\ pc'[t] = "write" => req'[t].op \in EditOps
                    /\ pc'[t] \in Reclassifying => req'[t].op = "reclassify"
  BY DEF Busy
<1>1. CASE t # s
  BY <1>1, OthersStay DEF Busy
<1>2. ASSUME t = s, NEW r \in Requests, Arrive(s, r)
      PROVE  /\ req'[t] = r
             /\ pc'[t] = "insert" => r.op \in {"bootstrap", "create", "record"}
             /\ pc'[t] = "write" => r.op \in EditOps
             /\ pc'[t] \in Reclassifying => r.op = "reclassify"
  <2>1. r.op \in EditOps \cup {"bootstrap", "create", "record", "reclassify"}
    BY CatalogAssumption
  <2> QED
    BY <1>2, <2>1 DEF Arrive, CatalogTypeOK, EditOps, Reclassifying
<1>3. CASE t = s /\ (LockEvent(s) \/ LockCategory(s) \/ InsertAudit(s))
  BY <1>3, OwnStep DEF Busy, LockEvent, LockCategory, InsertAudit, Reclassifying, Arrive
<1> QED
  BY <1>1, <1>2, <1>3, OwnStep

\* An edit still knows the owner and the type of its row.
LEMMA EditingStep ==
    ASSUME CatalogTypeOK, Busy, Editing, NEW s \in Sessions, CatalogStep(s)
    PROVE  Editing'
<1> SUFFICES ASSUME NEW t \in Sessions, pc'[t] = "write"
             PROVE  LET row == category'[req'[t].category] IN
                    /\ seen'[t] \in Category
                    /\ row # Nothing
                    /\ row.owner = req'[t].user /\ row.type = seen'[t].type
  BY DEF Editing
<1>1. CASE t # s
  <2>1. pc[t] = "write" /\ req'[t] = req[t] /\ seen'[t] = seen[t]
    BY <1>1, OthersStay
  <2>2. req[t].category \in Categories
    BY <2>1, RequestRows DEF Busy
  <2> QED
    BY <2>1, <2>2, CategoriesStay DEF Editing
<1>2. ASSUME t = s, NEW r \in Requests, Arrive(s, r)
      PROVE  LET row == category'[req'[t].category] IN
             /\ seen'[t] \in Category
             /\ row # Nothing
             /\ row.owner = req'[t].user /\ row.type = seen'[t].type
  <2>1. r.op \in EditOps /\ req'[s] = r /\ seen'[s] = category[r.category]
    BY <1>2, CatalogAssumption DEF Arrive, CatalogTypeOK, EditOps
  <2>2. Own(r, r.category)
    BY <1>2, <2>1 DEF Arrive, EditOps
  <2> QED
    BY <1>2, <2>1, <2>2, RequestRows DEF Own, Arrive, catalogTables, CatalogTypeOK
<1> QED
  BY <1>1, <1>2, OwnStep

\* A reclassification holds its event from the lock to the commit.
LEMMA HoldsEventStep ==
    ASSUME CatalogTypeOK, Busy, HoldsEvent, NEW s \in Sessions, CatalogStep(s)
    PROVE  HoldsEvent'
<1> SUFFICES ASSUME NEW t \in Sessions, pc'[t] \in {"category", "audit", "commit"}
             PROVE  LET e == req'[t].event IN
                    /\ lock'[e] = t
                    /\ event'[e] # Nothing
                    /\ event'[e].owner = req'[t].user /\ event'[e].category = seen'[t]
  BY DEF HoldsEvent
<1>1. CASE t # s
  <2>1. pc[t] \in {"category", "audit", "commit"} /\ req'[t] = req[t] /\ seen'[t] = seen[t]
    BY <1>1, OthersStay
  <2>2. req[t].event \in Events /\ req[t].event \in Rows
    BY <2>1, RequestRows, RowKinds DEF Busy, Reclassifying
  <2> QED
    BY <1>1, <2>1, <2>2, EventsStay, OthersStay DEF HoldsEvent
<1>2. CASE t = s /\ LockEvent(s)
  <2>1. req[s].event \in Events /\ req[s].event \in Rows
    BY <1>2, RequestRows, RowKinds DEF LockEvent, Busy, Reclassifying
  <2>2. lock'[req[s].event] = s
    BY <1>2, <2>1, TakeFrame DEF LockEvent, CatalogTypeOK
  <2> QED
    BY <1>2, <2>1, <2>2 DEF LockEvent, Found, CatalogTypeOK, catalogTables
<1>3. CASE t = s /\ (LockCategory(s) \/ InsertAudit(s))
  <2>1. /\ pc[s] \in {"category", "audit"} /\ req'[s] = req[s] /\ seen'[s] = seen[s]
        /\ event' = event
    BY <1>3 DEF LockCategory, InsertAudit, catalogTables
  <2>2. /\ req[s].event \in Rows /\ req[s].category \in Rows /\ req[s].key \in Rows
        /\ lock[req[s].event] = s
    BY <2>1, RequestRows, RowKinds DEF Busy, Reclassifying, HoldsEvent
  <2>3. lock'[req[s].event] = s
    BY <1>3, <2>2, TakeFrame DEF LockCategory, InsertAudit, CatalogTypeOK
  <2> QED
    BY <1>3, <2>1, <2>3 DEF HoldsEvent
<1> QED
  BY <1>1, <1>2, <1>3, OwnStep

\* What a usable category is does not depend on anything else.
LEMMA HoldsCategoryStep ==
    ASSUME CatalogTypeOK, Busy, Editing, HoldsCategory, NEW s \in Sessions, CatalogStep(s)
    PROVE  HoldsCategory'
<1> SUFFICES ASSUME NEW t \in Sessions, pc'[t] \in {"audit", "commit"}
             PROVE  /\ lock'[req'[t].category] = t
                    /\ Usable(req'[t], category'[req'[t].category])
  BY DEF HoldsCategory, Usable
<1>1. CASE t # s
  <2>1. pc[t] \in {"audit", "commit"} /\ req'[t] = req[t]
    BY <1>1, OthersStay
  <2>2. req[t].category \in Categories /\ req[t].category \in Rows
    BY <2>1, RequestRows, RowKinds DEF Busy, Reclassifying
  <2>3. lock[req[t].category] = t /\ Usable(req[t], category[req[t].category])
    BY <2>1 DEF HoldsCategory
  <2>4. category'[req[t].category] = category[req[t].category]
    BY <1>1, <2>2, <2>3, CategoriesStay DEF Usable
  <2> QED
    BY <1>1, <2>1, <2>2, <2>3, <2>4, OthersStay
<1>2. CASE t = s /\ LockCategory(s)
  <2>1. req[s].category \in Rows
    BY <1>2, RequestRows, RowKinds DEF LockCategory, Busy, Reclassifying
  <2>2. lock'[req[s].category] = s
    BY <1>2, <2>1, TakeFrame DEF LockCategory, CatalogTypeOK
  <2> QED
    BY <1>2, <2>1, <2>2 DEF LockCategory, CatalogTypeOK, catalogTables
<1>3. CASE t = s /\ InsertAudit(s)
  <2>1. /\ req[s].key \in Rows /\ req[s].category \in Rows
        /\ lock[req[s].category] = s /\ Usable(req[s], category[req[s].category])
    BY <1>3, RequestRows, RowKinds DEF InsertAudit, Busy, Reclassifying, HoldsCategory
  <2>2. lock'[req[s].category] = s
    BY <1>3, <2>1, TakeFrame DEF InsertAudit, CatalogTypeOK
  <2> QED
    BY <1>3, <2>1, <2>2 DEF InsertAudit, catalogTables
<1> QED
  BY <1>1, <1>2, <1>3, OwnStep

-----------------------------------------------------------------------------
(* Names *)

\* A name that a step gives to a category is free for the user it belongs to.
LEMMA NewNamesAreFree ==
    ASSUME CatalogTypeOK, Busy, Editing, NEW s \in Sessions, CatalogStep(s),
           NEW c \in Categories, category'[c] # category[c],
           category[c] = Nothing \/ category'[c].name # category[c].name
    PROVE  /\ \A d \in Categories \ {c} : category'[d] = category[d]
           /\ category'[c].owner # Global
           /\ ~Taken(category'[c].owner, category'[c].type, category'[c].name)
<1>1. CASE Create(s)
  <2>1. req[s] \in Requests
    BY <1>1 DEF Create, Busy
  <2> QED
    BY <1>1, <2>1, RequestRows DEF Create, CatalogTypeOK
<1>2. CASE Write(s)
  <2>1. /\ req[s] \in Requests /\ req[s].op \in EditOps /\ c = req[s].category
        /\ category[c] \in Category /\ category[c] # Nothing
        /\ category[c].owner = req[s].user /\ category[c].type = seen[s].type
    BY <1>2, RequestRows DEF Write, Editing, Busy, CatalogTypeOK
  <2>2. /\ \A d \in Categories \ {c} : category'[d] = category[d]
        /\ category'[c] = Edited(s, req[s], category[c])
    BY <1>2, <2>1 DEF Write, CatalogTypeOK
  <2>3. /\ category'[c].owner = req[s].user /\ category'[c].type = seen[s].type
        /\ req[s].op = "rename" /\ req[s].name # seen[s].name
        /\ category'[c].name = req[s].name
    BY <2>1, <2>2, EditedRow
  <2> QED
    BY <1>2, <2>1, <2>2, <2>3, RequestRows DEF Write, MayRename
<1>3. CASE category' = category
  BY <1>3
<1> QED
  BY <1>1, <1>2, <1>3
  DEF CatalogStep, Serve, Arrive, Bootstrap, Record, LockEvent, KeyRetried, LockCategory,
      InsertAudit, Commit, Refuse, Fail, Deadlock, catalogTables

LEMMA NamesStep ==
    ASSUME CatalogTypeOK, Busy, Editing, CategoryNamesDistinct, NEW s \in Sessions, CatalogStep(s)
    PROVE  CategoryNamesDistinct'
<1> SUFFICES ASSUME NEW u \in Users, NEW type \in Types,
                    NEW c \in Choice(u, type)', NEW d \in Choice(u, type)',
                    category'[c].name = category'[d].name, c # d
             PROVE  FALSE
  BY DEF CategoryNamesDistinct
<1> DEFINE Fresh(x) == category[x] = Nothing \/ category'[x].name # category[x].name
<1>1. /\ c \in Categories /\ d \in Categories
      /\ category'[c] # Nothing /\ category'[d] # Nothing
      /\ category'[c].owner \in {u, Global} /\ category'[d].owner \in {u, Global}
      /\ category'[c].type = type /\ category'[d].type = type
  BY DEF Choice
<1>2. ASSUME NEW x \in {c, d}, NEW y \in {c, d}, x # y, Fresh(x)
      PROVE  FALSE
  <2>1. category'[x] # category[x]
    BY <1>1, <1>2
  <2>2. /\ category'[y] = category[y] /\ category'[x].owner = u
        /\ ~Taken(u, type, category'[x].name)
    BY <1>1, <1>2, <2>1, NewNamesAreFree
  <2> QED
    BY <1>1, <1>2, <2>2 DEF Taken
<1>3. /\ category[c] # Nothing /\ category'[c].name = category[c].name
      /\ category[d] # Nothing /\ category'[d].name = category[d].name
  BY <1>2
<1>4. c \in Choice(u, type) /\ d \in Choice(u, type)
  BY <1>1, <1>3, CategoriesStay DEF Choice
<1> QED
  BY <1>3, <1>4 DEF CategoryNamesDistinct

-----------------------------------------------------------------------------
(* The history of an event *)

\* A commit adds to the history of its event, which it alone may change.
LEMMA AuditStep ==
    ASSUME CatalogTypeOK, Busy, HoldsEvent, AuditChain, NEW s \in Sessions, CatalogStep(s)
    PROVE  AuditChain'
<1>1. CASE Commit(s)
  <2> DEFINE r == req[s]
             step == [previous |-> seen[s], new |-> r.category]
  <2>1. /\ r.event \in Events /\ r.category \in Categories
        /\ event[r.event] # Nothing /\ event[r.event].category = seen[s]
    BY <1>1, RequestRows DEF Commit, Busy, HoldsEvent, Reclassifying
  <2>2. /\ audit' = [audit EXCEPT ![r.event] = Append(@, step)]
        /\ event' = [event EXCEPT ![r.event].category = r.category]
    BY <1>1 DEF Commit
  <2>3. ASSUME NEW e \in Events, e # r.event
        PROVE  audit'[e] = audit[e] /\ event'[e] = event[e]
    BY <2>2, <2>3 DEF CatalogTypeOK
  <2>4. /\ audit[r.event] \in Seq(Entry) /\ audit'[r.event] = Append(audit[r.event], step)
        /\ event'[r.event].category = r.category
    BY <2>1, <2>2 DEF CatalogTypeOK, Event
  <2>5. event'[r.event] # Nothing
    BY <1>1, <2>1, EventsStay
  <2>6. ASSUME NEW i \in 1 .. Len(audit'[r.event]) - 1
        PROVE  audit'[r.event][i].new = audit'[r.event][i + 1].previous
    <3>1. CASE i = Len(audit[r.event])
      <4>1. audit[r.event][i].new = seen[s]
        BY <2>1, <2>4, <3>1 DEF AuditChain
      <4>2. audit'[r.event][i] = audit[r.event][i] /\ audit'[r.event][i + 1] = step
        BY <2>4, <3>1
      <4> QED
        BY <4>1, <4>2
    <3>2. CASE i # Len(audit[r.event])
      <4>1. i \in 1 .. Len(audit[r.event]) - 1
        BY <2>4, <3>2
      <4>2. /\ audit'[r.event][i] = audit[r.event][i]
            /\ audit'[r.event][i + 1] = audit[r.event][i + 1]
        BY <2>4, <4>1
      <4> QED
        BY <2>1, <4>1, <4>2 DEF AuditChain
    <3> QED
      BY <3>1, <3>2
  <2>7. audit'[r.event][Len(audit'[r.event])] = step
    BY <2>4
  <2>8. ASSUME NEW e \in Events
        PROVE  /\ \A i \in 1 .. Len(audit'[e]) - 1 :
                     audit'[e][i].new = audit'[e][i + 1].previous
               /\ Len(audit'[e]) > 0 =>
                     /\ event'[e] # Nothing
                     /\ event'[e].category = audit'[e][Len(audit'[e])].new
    <3>1. CASE e = r.event
      <4>1. event'[e].category = audit'[e][Len(audit'[e])].new
        BY <2>4, <2>7, <3>1
      <4>2. \A i \in 1 .. Len(audit'[e]) - 1 : audit'[e][i].new = audit'[e][i + 1].previous
        BY <2>6, <3>1
      <4> HIDE DEF r, step
      <4> QED
        BY <2>5, <3>1, <4>1, <4>2
    <3>2. CASE e # r.event
      BY <2>3, <3>2 DEF AuditChain
    <3> QED
      BY <3>1, <3>2
  <2> QED
    BY <2>8 DEF AuditChain
<1>2. CASE ~Commit(s)
  <2>1. audit' = audit
    BY <1>2
    DEF CatalogStep, Serve, Arrive, Bootstrap, Create, Record, Write, LockEvent, KeyRetried,
        LockCategory, InsertAudit, Refuse, Fail, Deadlock, catalogTables
  <2>2. ASSUME NEW e \in Events, event[e] # Nothing
        PROVE  event'[e] # Nothing /\ event'[e].category = event[e].category
    <3>1. CASE Record(s)
      BY <2>2, <3>1 DEF Record, CatalogTypeOK
    <3>2. CASE event' = event
      BY <2>2, <3>2
    <3> QED
      BY <1>2, <3>1, <3>2
      DEF CatalogStep, Serve, Arrive, Bootstrap, Create, Write, LockEvent, KeyRetried,
          LockCategory, InsertAudit, Refuse, Fail, Deadlock, catalogTables
  <2> QED
    BY <2>1, <2>2 DEF AuditChain
<1> QED
  BY <1>1, <1>2

-----------------------------------------------------------------------------
(* Theorems *)

LEMMA CatalogInvInit == CatalogInit => CatalogInv
<1> SUFFICES ASSUME CatalogInit
             PROVE  CatalogInv
  OBVIOUS
<1>1. Busy /\ Editing /\ HoldsEvent /\ HoldsCategory
  BY DEF CatalogInit, Busy, Editing, HoldsEvent, HoldsCategory
<1>2. CategoryNamesDistinct
  BY CatalogAssumption DEF CatalogInit, CategoryNamesDistinct, Choice
<1>3. AuditChain
  BY DEF CatalogInit, AuditChain
<1> QED
  BY <1>1, <1>2, <1>3, CatalogTypeInit DEF CatalogInv

LEMMA CatalogInvStep == CatalogInv /\ [CatalogNext]_catalogVars => CatalogInv'
<1> SUFFICES ASSUME CatalogInv, [CatalogNext]_catalogVars
             PROVE  CatalogInv'
  OBVIOUS
<1>1. ASSUME NEW s \in Sessions, CatalogStep(s)
      PROVE  CatalogInv'
  BY <1>1, CatalogTypeStep, BusyStep, EditingStep, HoldsEventStep, HoldsCategoryStep,
     NamesStep, AuditStep DEF CatalogInv
<1>2. CASE UNCHANGED catalogVars
  BY <1>2 DEF catalogVars, catalogTables, catalogSessions, CatalogInv, CatalogTypeOK,
     LockTypeOK, Busy, Editing, HoldsEvent, HoldsCategory, Usable, CategoryNamesDistinct,
     Choice, AuditChain
<1> QED
  BY <1>1, <1>2 DEF CatalogNext

LEMMA CatalogInvAlways == CatalogSpec => []CatalogInv
  BY CatalogInvInit, CatalogInvStep, PTL DEF CatalogSpec

(***************************************************************************)
(* Profiles, categories, movements, audit rows and sessions keep their     *)
(* types under every interleaving of the requests.                         *)
(***************************************************************************)
THEOREM CatalogTypeCorrect == CatalogSpec => []CatalogTypeOK
<1>1. CatalogInv => CatalogTypeOK
  BY DEF CatalogInv
<1> QED
  BY <1>1, CatalogInvAlways, PTL

(***************************************************************************)
(* The audit rows of an event are an unbroken history of its category,     *)
(* for any number of sessions: the lock of the event suffices.             *)
(***************************************************************************)
THEOREM AuditStaysChained == CatalogSpec => []AuditChain
<1>1. CatalogInv => AuditChain
  BY DEF CatalogInv
<1> QED
  BY <1>1, CatalogInvAlways, PTL

(***************************************************************************)
(* A user never has two categories of a type with one name to choose from: *)
(* the unique index and the immutable type and owner suffice, although an  *)
(* edit works on a row it has read without a lock.                         *)
(***************************************************************************)
THEOREM NamesStayDistinct == CatalogSpec => []CategoryNamesDistinct
<1>1. CatalogInv => CategoryNamesDistinct
  BY DEF CatalogInv
<1> QED
  BY <1>1, CatalogInvAlways, PTL

(***************************************************************************)
(* A reclassification commits into a category that is open, usable by the  *)
(* owner of the movement and of its type, at that very moment.             *)
(***************************************************************************)
THEOREM AlwaysReclassifiedIntoOpen == CatalogSpec => ReclassifiedIntoOpen
<1> DEFINE Into ==
      \A e \in Events :
        audit'[e] # audit[e] =>
          LET row == category'[event'[e].category] IN
          /\ row.active
          /\ row.owner \in {event[e].owner, Global}
          /\ row.type = TypeOf[e]
<1>1. ASSUME CatalogInv, [CatalogNext]_catalogVars
      PROVE  [Into]_catalogVars
  <2> SUFFICES ASSUME NEW e \in Events, audit'[e] # audit[e]
               PROVE  LET row == category'[event'[e].category] IN
                      /\ row.active
                      /\ row.owner \in {event[e].owner, Global}
                      /\ row.type = TypeOf[e]
    OBVIOUS
  <2>1. PICK s \in Sessions : Commit(s)
    BY <1>1
    DEF CatalogNext, CatalogStep, Serve, Arrive, Bootstrap, Create, Record, Write, LockEvent,
        KeyRetried, LockCategory, InsertAudit, Refuse, Fail, Deadlock, catalogTables,
        catalogVars
  <2>2. /\ req[s].event \in Events /\ event[req[s].event].owner = req[s].user
        /\ Usable(req[s], category[req[s].category])
        /\ event[req[s].event] \in Event
    BY <1>1, <2>1, RequestRows
    DEF CatalogInv, CatalogTypeOK, Commit, Busy, HoldsEvent, HoldsCategory, Reclassifying
  <2>3. e = req[s].event
    BY <1>1, <2>1, <2>2 DEF CatalogInv, CatalogTypeOK, Commit
  <2>4. event'[e].category = req[s].category /\ category' = category
    BY <1>1, <2>1, <2>2, <2>3 DEF CatalogInv, CatalogTypeOK, Commit, Event
  <2> QED
    BY <2>2, <2>3, <2>4 DEF Usable
<1> QED
  BY <1>1, CatalogInvAlways, PTL DEF CatalogSpec, ReclassifiedIntoOpen

-----------------------------------------------------------------------------
(* Products and quotients *)

LEMMA Cancel ==
    ASSUME NEW a \in Int, NEW b \in Int, NEW c \in Nat \ {0}
    PROVE  /\ a * c <= b * c => a <= b
           /\ a * c < b * c => a < b
<1>1. a > b => a * c > b * c
  OBVIOUS
<1>2. a >= b => a * c >= b * c
  OBVIOUS
<1>3. a * c \in Int /\ b * c \in Int
  OBVIOUS
<1> QED
  BY <1>1, <1>2, <1>3

LEMMA Division ==
    ASSUME NEW n \in Nat, NEW d \in Nat \ {0}
    PROVE  /\ n \div d \in Nat
           /\ (n \div d) * d <= n
           /\ n < (n \div d) * d + d
           /\ n % d = n - (n \div d) * d
<1>1. d \in Int /\ d > 0 /\ n \in Int
  OBVIOUS
<1>2. n \div d \in Int
  BY <1>1
<1>3. (n \div d) * d <= n
  BY <1>1
<1>4. n < (n \div d) * d + d
  BY <1>1
<1>5. n % d = n - (n \div d) * d
  BY <1>1
<1>6. n \div d >= 0
  <2>1. PICK q \in Int : q = n \div d
    BY <1>2
  <2>2. (0 - 1) * d < q * d
    BY <1>4, <2>1
  <2>3. 0 - 1 < q
    BY <2>1, <2>2, Cancel
  <2> QED
    BY <2>1, <2>3
<1> QED
  BY <1>2, <1>3, <1>4, <1>5, <1>6

\* A rounded quotient is at most half a unit off.
LEMMA HalfUpIs ==
    ASSUME NEW n \in Nat, NEW d \in Nat \ {0}
    PROVE  /\ HalfUp(n, d) \in Nat
           /\ 2 * (HalfUp(n, d) * d) <= 2 * n + d
           /\ 2 * n < 2 * (HalfUp(n, d) * d) + d
<1>1. PICK m \in Nat, e \in Nat \ {0} : m = 2 * n + d /\ e = 2 * d
  OBVIOUS
<1>2. PICK q \in Nat : q = m \div e
  BY <1>1, Division
<1>3. q * e <= m /\ m < q * e + e
  BY <1>1, <1>2, Division
<1>4. q * e = 2 * (q * d)
  BY <1>1
<1>5. HalfUp(n, d) = q
  BY <1>1, <1>2 DEF HalfUp
<1>6. q * d \in Nat
  BY <1>2
<1> QED
  BY <1>1, <1>3, <1>4, <1>5, <1>6

LEMMA HalfEvenIs ==
    ASSUME NEW n \in Nat, NEW d \in Nat \ {0}
    PROVE  /\ HalfEven(n, d) \in Int
           /\ 2 * (HalfEven(n, d) * d) <= 2 * n + d
           /\ 2 * n <= 2 * (HalfEven(n, d) * d) + d
<1>1. PICK h \in Nat : h = HalfUp(n, d)
  BY HalfUpIs
<1>2. 2 * (h * d) <= 2 * n + d /\ 2 * n < 2 * (h * d) + d
  BY <1>1, HalfUpIs
<1>3. CASE ~((2 * n) % (2 * d) = d /\ h % 2 = 1)
  <2>1. HalfEven(n, d) = h
    BY <1>1, <1>3 DEF HalfEven
  <2>2. PICK hd \in Nat : hd = h * d
    OBVIOUS
  <2>3. 2 * hd <= 2 * n + d /\ 2 * n <= 2 * hd + d
    BY <1>2, <2>2
  <2> QED
    BY <2>1, <2>2, <2>3
<1>4. CASE (2 * n) % (2 * d) = d /\ h % 2 = 1
  <2>1. HalfEven(n, d) = h - 1
    BY <1>1, <1>4 DEF HalfEven
  <2>2. PICK m \in Nat, e \in Nat \ {0} : m = 2 * n /\ e = 2 * d
    OBVIOUS
  <2>3. PICK j \in Nat : j = m \div e
    BY <2>2, Division
  <2>4. m = j * e + d
    <3>1. m % e = m - j * e
      BY <2>2, <2>3, Division
    <3>2. m % e = d
      BY <1>4, <2>2
    <3>3. PICK je \in Nat : je = j * e
      BY <2>2, <2>3
    <3> QED
      BY <3>1, <3>2, <3>3
  <2>5. j * e = 2 * (j * d)
    BY <2>2, <2>3
  <2>6. PICK jd \in Nat, hd \in Nat : jd = j * d /\ hd = h * d
    OBVIOUS
  <2>7. 2 * n = 2 * jd + d
    BY <2>2, <2>4, <2>5, <2>6
  <2>8. hd <= jd + d /\ jd < hd
    BY <1>2, <2>6, <2>7
  <2>9. jd + d = (j + 1) * d
    BY <2>6
  <2>10. h <= j + 1 /\ j < h
    <3>1. h * d <= (j + 1) * d /\ j * d < h * d
      BY <2>6, <2>8, <2>9
    <3>2. j + 1 \in Int /\ j \in Int /\ h \in Int
      OBVIOUS
    <3> QED
      BY <3>1, <3>2, Cancel
  <2>11. h - 1 = j
    BY <2>10
  <2> QED
    BY <2>1, <2>6, <2>7, <2>11
<1> QED
  BY <1>3, <1>4

\* A whole number stays what it is.
LEMMA HalfUpWhole ==
    ASSUME NEW k \in Nat, NEW d \in Nat \ {0}
    PROVE  HalfUp(k * d, d) = k
<1>1. PICK n \in Nat : n = k * d
  OBVIOUS
<1>2. PICK h \in Nat : h = HalfUp(n, d)
  BY HalfUpIs
<1>3. 2 * (h * d) <= 2 * n + d /\ 2 * n < 2 * (h * d) + d
  BY <1>2, HalfUpIs
<1>4. PICK hd \in Nat : hd = h * d
  BY <1>2
<1>5. hd < n + d /\ n < hd + d
  BY <1>3, <1>4
<1>6. n + d = (k + 1) * d /\ hd + d = (h + 1) * d
  BY <1>1, <1>4
<1>7. h < k + 1 /\ k < h + 1
  <2>1. h * d < (k + 1) * d /\ k * d < (h + 1) * d
    BY <1>1, <1>4, <1>5, <1>6
  <2>2. k + 1 \in Int /\ h + 1 \in Int /\ h \in Int /\ k \in Int
    BY <1>2
  <2> QED
    BY <2>1, <2>2, Cancel
<1> QED
  BY <1>1, <1>2, <1>7


-----------------------------------------------------------------------------
(* Rates and prices *)

LEMMA Apart ==
    ASSUME NEW x \in Int, NEW y \in Int
    PROVE  /\ Distance(x, y) \in Nat
           /\ \A z \in Int : 2 * Distance(x, y) <= z <=> 2 * x <= 2 * y + z /\ 2 * y <= 2 * x + z
  BY DEF Distance

LEMMA EitherApart ==
    ASSUME NEW a \in Nat, NEW b \in Nat, NEW c \in Nat, NEW d \in Nat,
           2 * Distance(a, b) <= c \/ 2 * Distance(b, a) <= d
    PROVE  2 * a <= 2 * b + c + d /\ 2 * b <= 2 * a + c + d
  BY DEF Distance

LEMMA CurrencyUnit ==
    ASSUME NEW x \in Accounts \cup Bills
    PROVE  CurrencyOf[x] \in Currencies /\ Unit[CurrencyOf[x]] \in Nat \ {0}
<1>1. CurrencyOf[x] \in Currencies
  BY DEF Currencies
<1> QED
  BY <1>1, FxAssumption

\* What a rate makes of an amount, in whole units, is at most half of one off.
LEMMA RoundedToUnit ==
    ASSUME NEW n \in Nat, NEW d \in Nat \ {0}, NEW u \in Nat \ {0}
    PROVE  /\ HalfUp(n, d * u) * u \in Nat
           /\ 2 * Distance(HalfUp(n, d * u) * u * d, n) <= d * u
<1>1. PICK e \in Nat \ {0} : e = d * u
  OBVIOUS
<1>2. PICK h \in Nat : h = HalfUp(n, e)
  BY HalfUpIs
<1>3. 2 * (h * e) <= 2 * n + e /\ 2 * n < 2 * (h * e) + e
  BY <1>2, HalfUpIs
<1>4. PICK hu \in Nat : hu = h * u
  OBVIOUS
<1>5. hu * d = h * e
  BY <1>1, <1>4
<1>6. PICK x \in Nat : x = h * e
  OBVIOUS
<1>7. 2 * Distance(x, n) <= e
  BY <1>3, <1>6, Apart
<1> QED
  BY <1>1, <1>2, <1>4, <1>5, <1>6, <1>7

LEMMA OverClose ==
    ASSUME NEW x \in Nat, NEW k \in Nat \ {0}, NEW d \in Nat \ {0}, NEW c \in Currencies
    PROVE  /\ Over(x, Fraction(k, d), c) \in Nat
           /\ 2 * Distance(Over(x, Fraction(k, d), c) * k, x * d) <= k * Unit[c]
<1>1. Unit[c] \in Nat \ {0}
  BY FxAssumption
<1>2. PICK n \in Nat : n = x * d
  OBVIOUS
<1>3. Over(x, Fraction(k, d), c) = HalfUp(n, k * Unit[c]) * Unit[c]
  BY <1>2 DEF Over, Fraction
<1> QED
  BY <1>1, <1>2, <1>3, RoundedToUnit

LEMMA TimesClose ==
    ASSUME NEW x \in Nat, NEW k \in Nat, NEW d \in Nat \ {0}, NEW c \in Currencies
    PROVE  /\ Times(x, Fraction(k, d), c) \in Nat
           /\ 2 * Distance(Times(x, Fraction(k, d), c) * d, x * k) <= d * Unit[c]
<1>1. Unit[c] \in Nat \ {0}
  BY FxAssumption
<1>2. PICK n \in Nat : n = x * k
  OBVIOUS
<1>3. Times(x, Fraction(k, d), c) = HalfUp(n, d * Unit[c]) * Unit[c]
  BY <1>2 DEF Times, Fraction
<1> QED
  BY <1>1, <1>2, <1>3, RoundedToUnit

(***************************************************************************)
(* A row's rate is k in Scale: the price itself, or its inverse, to half   *)
(* of the last decimal.                                                    *)
(***************************************************************************)
RateOf(from, price, k) ==
    /\ k \in Nat \ {0}
    /\ IF from = Base THEN k = price * Scale ELSE 2 * Distance(k * price, Scale) <= price

\* A source and an amount that one rounding, to a unit of either, leads between.
Agree(s, x, k, from, to) ==
    \/ 2 * Distance(s * k, x * Scale) <= k * Unit[from]
    \/ 2 * Distance(x * Scale, s * k) <= Scale * Unit[to]

Priced(s, x, price, from, to) ==
    IF from = Base
    THEN 2 * Distance(s * price, x) <= Unit[from] * price + Unit[to]
    ELSE 2 * Distance(s, x * price)
           <= 2 * Unit[from] + Unit[to] * price + (s * price) \div Scale

LEMMA AgreeAtBase ==
    ASSUME NEW s \in Nat, NEW x \in Nat, NEW price \in Nat \ {0}, NEW S \in Nat \ {0},
           NEW U \in Nat \ {0}, NEW V \in Nat \ {0},
           \/ 2 * Distance(s * (price * S), x * S) <= (price * S) * U
           \/ 2 * Distance(x * S, s * (price * S)) <= S * V
    PROVE  2 * Distance(s * price, x) <= U * price + V
<1>1. PICK sp \in Nat, w \in Nat : sp = s * price /\ w = U * price
  OBVIOUS
<1>2. s * (price * S) = sp * S /\ (price * S) * U = w * S /\ S * V = V * S
  BY <1>1
<1>3. PICK a \in Nat, b \in Nat, c \in Nat, d \in Nat : a = sp * S /\ b = x * S /\ c = w * S /\ d = V * S
  OBVIOUS
<1>4. 2 * a <= 2 * b + c + d /\ 2 * b <= 2 * a + c + d
  <2>1. 2 * Distance(a, b) <= c \/ 2 * Distance(b, a) <= d
    BY <1>2, <1>3
  <2> QED
    BY <2>1, EitherApart
<1>5. /\ 2 * a = (2 * sp) * S /\ 2 * b + c + d = (2 * x + w + V) * S
      /\ 2 * b = (2 * x) * S /\ 2 * a + c + d = (2 * sp + w + V) * S
  BY <1>3
<1>6. 2 * sp <= 2 * x + w + V
  BY <1>4, <1>5, Cancel
<1>7. 2 * x <= 2 * sp + w + V
  BY <1>4, <1>5, Cancel
<1> QED
  BY <1>1, <1>6, <1>7, Apart

LEMMA AgreeAtInverse ==
    ASSUME NEW s \in Nat, NEW x \in Nat, NEW p \in Nat \ {0}, NEW S \in Nat \ {0},
           NEW U \in Nat \ {0}, NEW V \in Nat \ {0}, NEW k \in Nat \ {0},
           p <= S, 2 * Distance(k * p, S) <= p,
           \/ 2 * Distance(s * k, x * S) <= k * U
           \/ 2 * Distance(x * S, s * k) <= S * V
    PROVE  2 * Distance(s, x * p) <= 2 * U + V * p + (s * p) \div S
<1>1. PICK sk \in Nat, kp \in Nat, sp \in Nat, xp \in Nat, w \in Nat :
        sk = s * k /\ kp = k * p /\ sp = s * p /\ xp = x * p /\ w = V * p
  OBVIOUS
<1>2. PICK skp \in Nat, sS \in Nat, xS \in Nat, xpS \in Nat, wS \in Nat, kU \in Nat, kpU \in Nat :
        /\ skp = s * kp /\ sS = s * S /\ xS = x * S /\ xpS = xp * S /\ wS = w * S
        /\ kU = k * U /\ kpU = kp * U
  OBVIOUS
<1>3. PICK q \in Nat, qS \in Nat, SU \in Nat : q = sp \div S /\ qS = q * S /\ SU = S * U
  <2>1. PICK q \in Nat : q = sp \div S
    BY Division
  <2> QED
    BY <2>1
<1>4. sp < qS + S
  BY <1>3, Division
<1>5. 2 * skp <= 2 * sS + sp /\ 2 * sS <= 2 * skp + sp
  <2>1. 2 * kp <= 2 * S + p /\ 2 * S <= 2 * kp + p
    BY <1>1, Apart
  <2>2. s * (2 * kp) <= s * (2 * S + p) /\ s * (2 * S) <= s * (2 * kp + p)
    BY <2>1
  <2> QED
    BY <1>1, <1>2, <2>2
<1>6. 2 * kpU <= 3 * SU
  <2>1. 2 * kp <= 3 * S
    BY <1>1, Apart
  <2>2. (2 * kp) * U <= (3 * S) * U
    BY <2>1
  <2> QED
    BY <1>2, <1>3, <2>2
<1>7. /\ 2 * skp <= 2 * xpS + kpU + wS
      /\ 2 * xpS <= 2 * skp + kpU + wS
  <2>1. PICK SV \in Nat : SV = S * V
    OBVIOUS
  <2>2. SV * p = wS /\ xS * p = xpS /\ sk * p = skp /\ kU * p = kpU
    BY <1>1, <1>2, <2>1
  <2>3. 2 * Distance(sk, xS) <= kU \/ 2 * Distance(xS, sk) <= SV
    BY <1>1, <1>2, <2>1
  <2>4. 2 * sk <= 2 * xS + kU + SV /\ 2 * xS <= 2 * sk + kU + SV
    BY <2>3, EitherApart
  <2>5. (2 * sk) * p <= (2 * xS + kU + SV) * p /\ (2 * xS) * p <= (2 * sk + kU + SV) * p
    BY <2>4
  <2> QED
    BY <2>2, <2>5
<1>8. 4 * sS < 4 * xpS + 3 * SU + 2 * wS + 2 * qS + 2 * S
  BY <1>4, <1>5, <1>6, <1>7
<1>9. 4 * xpS < 4 * sS + 3 * SU + 2 * wS + 2 * qS + 2 * S
  BY <1>4, <1>5, <1>6, <1>7
<1>10. /\ 4 * sS = (4 * s) * S /\ 4 * xpS = (4 * xp) * S
       /\ 4 * xpS + 3 * SU + 2 * wS + 2 * qS + 2 * S = (4 * xp + 3 * U + 2 * w + 2 * q + 2) * S
       /\ 4 * sS + 3 * SU + 2 * wS + 2 * qS + 2 * S = (4 * s + 3 * U + 2 * w + 2 * q + 2) * S
  BY <1>2, <1>3
<1>11. 4 * s < 4 * xp + 3 * U + 2 * w + 2 * q + 2
  BY <1>8, <1>10, Cancel
<1>12. 4 * xp < 4 * s + 3 * U + 2 * w + 2 * q + 2
  BY <1>9, <1>10, Cancel
<1>13. PICK z \in Nat : z = 2 * U + w + q
  OBVIOUS
<1>14. 2 * s <= 2 * xp + z /\ 2 * xp <= 2 * s + z
  BY <1>11, <1>12, <1>13
<1> QED
  BY <1>1, <1>3, <1>13, <1>14, Apart

LEMMA AgreedPrice ==
    ASSUME NEW s \in Nat, NEW x \in Nat, NEW price \in Markets, NEW k,
           NEW from \in Currencies, NEW to \in Currencies,
           RateOf(from, price, k), Agree(s, x, k, from, to)
    PROVE  Priced(s, x, price, from, to)
<1>1. /\ price \in Nat \ {0} /\ Scale \in Nat \ {0} /\ price <= Scale
      /\ Unit[from] \in Nat \ {0} /\ Unit[to] \in Nat \ {0} /\ k \in Nat \ {0}
  BY FxAssumption DEF RateOf
<1>2. CASE from = Base
  BY <1>1, <1>2, AgreeAtBase DEF RateOf, Agree, Priced
<1>3. CASE from # Base
  BY <1>1, <1>3, AgreeAtInverse DEF RateOf, Agree, Priced
<1> QED
  BY <1>2, <1>3

-----------------------------------------------------------------------------
(* Slices *)

\* What a sum of roundings is off is at most what all of them are off.
LEMMA SumsClose ==
    ASSUME NEW S, IsFiniteSet(S), NEW f, NEW g, NEW a \in Int, NEW b \in Int, NEW e \in Nat,
           \A x \in S : f[x] \in Int /\ g[x] \in Int /\ Distance(a * f[x], b * g[x]) <= e
    PROVE  Distance(a * SumFunctionOnSet(f, S), b * SumFunctionOnSet(g, S)) <= e * Cardinality(S)
<1> DEFINE F(T) == SumFunctionOnSet(f, T)
           G(T) == SumFunctionOnSet(g, T)
           Good == {T \in SUBSET S : Distance(a * F(T), b * G(T)) <= e * Cardinality(T)}
<1>1. ASSUME NEW T \in SUBSET S, \A U \in SUBSET T : U # T => U \in Good
      PROVE  T \in Good
  <2>1. CASE T = {}
    <3>1. F(T) = 0 /\ G(T) = 0 /\ Cardinality(T) = 0
      BY <2>1, SumEmpty, FS_EmptySet
    <3>2. Distance(a * F(T), b * G(T)) = 0
      BY <3>1 DEF Distance
    <3> QED
      BY <3>1, <3>2
  <2>2. CASE T # {}
    <3>1. PICK c \in T : TRUE
      BY <2>2
    <3> DEFINE R == T \ {c}
    <3>2. IsFiniteSet(T) /\ IsFiniteSet(R)
      BY FS_Subset
    <3>3. F(T) = f[c] + F(R) /\ F(R) \in Int
      BY <3>2, SumRemove, SumType
    <3>4. G(T) = g[c] + G(R) /\ G(R) \in Int
      BY <3>2, SumRemove, SumType
    <3>5. Cardinality(T) = Cardinality(R) + 1 /\ Cardinality(R) \in Nat
      BY <3>2, FS_RemoveElement, FS_CardinalityType
    <3>6. Distance(a * F(R), b * G(R)) <= e * Cardinality(R)
      BY <1>1, <3>1
    <3>7. f[c] \in Int /\ g[c] \in Int /\ Distance(a * f[c], b * g[c]) <= e
      BY <3>1
    <3> HIDE DEF F, G, R
    <3>8. PICK fr \in Int, gr \in Int, fc \in Int, gc \in Int, n \in Nat :
            fr = F(R) /\ gr = G(R) /\ fc = f[c] /\ gc = g[c] /\ n = Cardinality(R)
      BY <3>3, <3>4, <3>5, <3>7
    <3>9. PICK x \in Int, y \in Int, z \in Int, w \in Int, m \in Nat :
            x = a * fr /\ y = b * gr /\ z = a * fc /\ w = b * gc /\ m = e * n
      OBVIOUS
    <3>10. F(T) = fc + fr /\ G(T) = gc + gr /\ Cardinality(T) = n + 1
      BY <3>3, <3>4, <3>5, <3>8
    <3>11. a * F(T) = z + x /\ b * G(T) = w + y /\ e * Cardinality(T) = m + e
      BY <3>9, <3>10
    <3>12. Distance(x, y) <= m /\ Distance(z, w) <= e
      BY <3>6, <3>7, <3>8, <3>9
    <3>13. Distance(z + x, w + y) <= m + e
      BY <3>12 DEF Distance
    <3> QED
      BY <3>11, <3>13
  <2> QED
    BY <2>1, <2>2
<1>2. Good \in SUBSET SUBSET S
      /\ (S \in Good => Distance(a * F(S), b * G(S)) <= e * Cardinality(S))
  OBVIOUS
<1> HIDE DEF Good
<1> QED
  BY <1>1, <1>2, SubsetInduction

\* The periods of a bill are numbered from 1.
LEMMA Numbers ==
    ASSUME NEW L \in Nat
    PROVE  IsFiniteSet(1 .. L) /\ \A n \in 1 .. L : 1 .. n - 1 \in SUBSET (1 .. L)
  BY FS_Interval

\* The last of the slices P takes what the others, rounded, leave of the debit.
RestToLast(L, slices, part, sources, source, x, P, last) ==
    /\ slices \in [1 .. L -> Nat] /\ part \in [1 .. L -> Nat]
    /\ SumFunctionOnSet(slices, 1 .. L) = x
    /\ P \in SUBSET (1 .. L) /\ last \in P /\ \A m \in P : m <= last
    /\ \A n \in (1 .. L) \ P : slices[n] = 0 /\ part[n] = 0
    /\ \A n \in 1 .. L : Distance(x * part[n], source * slices[n]) <= x
    /\ sources = [n \in 1 .. L |->
                    IF n = last THEN source - SumFunctionOnSet(part, 1 .. last - 1)
                    ELSE part[n]]

LEMMA LastTakesRest ==
    ASSUME NEW L \in Nat, NEW source \in Nat, NEW x \in Nat, NEW slices, NEW part,
           NEW sources, NEW P, NEW last,
           RestToLast(L, slices, part, sources, source, x, P, last)
    PROVE  /\ sources \in [1 .. L -> Int]
           /\ SumFunctionOnSet(sources, 1 .. L) = source
           /\ \A n \in P :
                Distance(sources[n] * x, source * slices[n]) <= x * Cardinality(P)
<1> DEFINE before == 1 .. last - 1
           others == P \ {last}
<1>1. last \in P /\ P \in SUBSET (1 .. L) /\ last \in 1 .. L /\ \A m \in P : m <= last
  BY DEF RestToLast
<1>2. /\ IsFiniteSet(1 .. L) /\ IsFiniteSet(before) /\ IsFiniteSet(P) /\ IsFiniteSet(others)
      /\ before \in SUBSET (1 .. L) /\ last \in 1 .. L
  BY <1>1, Numbers, FS_Subset
<1>3. others \in SUBSET before /\ others \in SUBSET (1 .. L) /\ last \notin before
  BY <1>1
<1>4. \A n \in 1 .. L : slices[n] \in Int /\ part[n] \in Int /\ slices[n] \in Nat /\ part[n] \in Nat
  BY DEF RestToLast
<1>5. \A n \in before \ others : slices[n] = 0 /\ part[n] = 0
  <2> SUFFICES ASSUME NEW n \in before \ others PROVE slices[n] = 0 /\ part[n] = 0
    OBVIOUS
  <2>1. n \in (1 .. L) \ P
    BY <1>2, <1>3
  <2> QED
    BY <2>1 DEF RestToLast
<1>6. Cardinality(P) \in Nat /\ Cardinality(others) \in Nat /\ Cardinality(P) = Cardinality(others) + 1
  BY <1>1, <1>2, FS_CardinalityType, FS_RemoveElement
<1>7. \A n \in before : slices[n] \in Int /\ part[n] \in Int
  BY <1>2, <1>4
<1>8. \A n \in others : slices[n] \in Int /\ part[n] \in Int
  BY <1>3, <1>4
<1>9. \A n \in others : Distance(x * part[n], source * slices[n]) <= x
  BY <1>3 DEF RestToLast
<1>10. \A n \in P : slices[n] \in Int
  BY <1>1, <1>4
<1>11. \A n \in (1 .. L) \ P : slices[n] = 0 /\ part[n] = 0
  BY DEF RestToLast
<1>12. \A n \in (1 .. L) \ (before \cup {last}) : n \notin P
  BY <1>1, <1>2
<1> DEFINE all == 1 .. L
<1>13. IsFiniteSet(all) /\ IsFiniteSet(P) /\ P \in SUBSET all /\ last \in P
  BY <1>1, <1>2
<1>14. \A n \in all : slices[n] \in Int
  BY <1>4
<1>15. \A n \in all \ P : slices[n] = 0
  BY <1>11
<1>16. \A n \in others : /\ part[n] \in Int /\ slices[n] \in Int
                         /\ Distance(x * part[n], source * slices[n]) <= x
  BY <1>8, <1>9
<1>17. IsFiniteSet(others) /\ x \in Int /\ source \in Int
  BY <1>2
<1> HIDE DEF before, others, all
<1>18. PICK p \in Int : p = SumFunctionOnSet(part, before)
  BY <1>2, <1>7, SumType
<1>19. PICK q \in Int : q = SumFunctionOnSet(slices, others)
  BY <1>2, <1>8, SumType
<1>20. p = SumFunctionOnSet(part, others)
  BY <1>2, <1>3, <1>5, <1>7, <1>18, SumRestrict
<1>21. x = slices[last] + q
  <2>1. x = SumFunctionOnSet(slices, 1 .. L)
    BY DEF RestToLast
  <2>2. SumFunctionOnSet(slices, 1 .. L) = SumFunctionOnSet(slices, P)
    <3>1. SumFunctionOnSet(slices, all) = SumFunctionOnSet(slices, P)
      BY <1>13, <1>14, <1>15, SumRestrict
    <3> QED
      BY <3>1 DEF all
  <2>3. SumFunctionOnSet(slices, P) = slices[last] + SumFunctionOnSet(slices, P \ {last})
    BY <1>13, <1>10, SumRemove
  <2> QED
    BY <1>19, <2>1, <2>2, <2>3 DEF others
<1>22. \A n \in 1 .. L : sources[n] = IF n = last THEN source - p ELSE part[n]
  BY <1>18 DEF before, RestToLast
<1>23. \A n \in 1 .. L : sources[n] \in Int
  BY <1>4, <1>22
<1>24. sources \in [1 .. L -> Int]
  BY <1>23 DEF RestToLast
<1>25. SumFunctionOnSet(sources, 1 .. L) = source
  <2> DEFINE up == before \cup {last}
  <2>1. up \in SUBSET (1 .. L) /\ IsFiniteSet(up) /\ up \ {last} = before /\ last \in up
    <3>1. up \in SUBSET (1 .. L)
      BY <1>2
    <3>2. up \ {last} = before /\ last \in up
      BY <1>3
    <3>3. IsFiniteSet(1 .. L)
      BY <1>2
    <3> HIDE DEF up
    <3>4. IsFiniteSet(up)
      BY <3>1, <3>3, FS_Subset
    <3> QED
      BY <3>1, <3>2, <3>4
  <2>2. \A n \in (1 .. L) \ up : sources[n] = 0
    <3> SUFFICES ASSUME NEW n \in (1 .. L) \ up PROVE sources[n] = 0
      OBVIOUS
    <3>1. n \notin P /\ n # last /\ n \in 1 .. L
      BY <1>12
    <3>2. part[n] = 0
      BY <1>11, <3>1
    <3> QED
      BY <1>22, <3>1, <3>2
  <2>3. \A n \in up : sources[n] \in Int
    BY <1>23, <2>1
  <2>4. \A n \in before : sources[n] = part[n]
    BY <1>2, <1>3, <1>22
  <2> HIDE DEF up
  <2>5. SumFunctionOnSet(sources, 1 .. L) = SumFunctionOnSet(sources, up)
    BY <1>2, <1>23, <2>1, <2>2, SumRestrict
  <2>6. SumFunctionOnSet(sources, up) = sources[last] + SumFunctionOnSet(sources, before)
    <3>1. IsFiniteSet(up) /\ last \in up /\ up \ {last} = before
      BY <2>1
    <3>2. SumFunctionOnSet(sources, up) = sources[last] + SumFunctionOnSet(sources, up \ {last})
      BY <2>3, <3>1, SumRemove
    <3> QED
      BY <3>1, <3>2
  <2>7. SumFunctionOnSet(sources, before) = p
    BY <1>2, <1>18, <2>4, SumCongruence
  <2>8. sources[last] = source - p
    BY <1>2, <1>22
  <2> QED
    BY <2>5, <2>6, <2>7, <2>8
<1>26. ASSUME NEW n \in P
       PROVE  Distance(sources[n] * x, source * slices[n]) <= x * Cardinality(P)
  <2>1. PICK c \in Nat, d \in Nat : c = Cardinality(others) /\ d = Cardinality(P) /\ d = c + 1
    BY <1>6
  <2>2. PICK xc \in Nat : xc = x * c
    OBVIOUS
  <2>3. x * d = xc + x
    BY <2>1, <2>2
  <2>4. PICK s \in Nat, ss \in Nat : s = slices[n] /\ ss = source * s
    <3>1. n \in 1 .. L
      BY <1>1
    <3>2. PICK s \in Nat : s = slices[n]
      BY <1>4, <3>1
    <3> QED
      BY <3>2
  <2>5. CASE n # last
    <3>1. PICK y \in Nat : y = part[n] /\ y = sources[n]
      BY <1>1, <1>4, <1>22, <2>5
    <3>2. PICK xy \in Nat : xy = x * y /\ xy = y * x
      OBVIOUS
    <3>3. Distance(x * part[n], source * slices[n]) <= x
      BY <1>1 DEF RestToLast
    <3>4. Distance(xy, ss) <= x
      BY <2>4, <3>1, <3>2, <3>3
    <3>5. Distance(xy, ss) <= xc + x
      BY <3>4 DEF Distance
    <3> QED
      BY <2>1, <2>3, <2>4, <3>1, <3>2, <3>5
  <2>6. CASE n = last
    <3>1. Distance(x * SumFunctionOnSet(part, others), source * SumFunctionOnSet(slices, others))
            <= x * Cardinality(others)
      BY <1>16, <1>17, SumsClose
    <3>2. PICK xp \in Int, sq \in Int, sx \in Int : xp = x * p /\ sq = source * q /\ sx = source * x
      OBVIOUS
    <3>3. Distance(xp, sq) <= xc
      BY <1>19, <1>20, <2>1, <2>2, <3>1, <3>2
    <3>4. x = s + q
      BY <1>21, <2>4, <2>6
    <3>5. sx = ss + sq
      BY <2>4, <3>2, <3>4
    <3>6. sources[n] = source - p
      BY <1>1, <1>22, <2>6
    <3>7. (source - p) * x = sx - xp
      BY <3>2
    <3>8. Distance(sx - xp, ss) <= xc + x
      BY <3>3, <3>5 DEF Distance
    <3> QED
      BY <2>1, <2>3, <2>4, <3>6, <3>7, <3>8
  <2> QED
    BY <2>5, <2>6
<1> QED
  BY <1>24, <1>25, <1>26

(***************************************************************************)
(* Whatever the slices, their sources add up to the debit: the last one    *)
(* takes what the roundings of the others leave, which is within a cent    *)
(* for each of them.                                                       *)
(***************************************************************************)
LEMMA SourcesAddUp ==
    ASSUME NEW L \in Nat, NEW slices \in [1 .. L -> Nat], NEW source \in Nat,
           NEW x \in Nat \ {0}, SumFunction(slices) = x
    PROVE  /\ SourceSlices(source, slices) \in [1 .. L -> Int]
           /\ SumFunction(SourceSlices(source, slices)) = source
           /\ \A n \in Paying(slices) :
                Distance(SourceSlices(source, slices)[n] * x, source * slices[n])
                  <= x * Cardinality(Paying(slices))
<1> DEFINE part == [n \in 1 .. L |-> HalfUp(source * slices[n], x)]
           P == Paying(slices)
           last == CHOOSE n \in P : \A m \in P : m <= n
           sources == SourceSlices(source, slices)
           before == 1 .. last - 1
<1>1. DOMAIN slices = 1 .. L /\ SumFunctionOnSet(slices, 1 .. L) = x
  BY DEF SumFunction
<1>2. P = {n \in 1 .. L : slices[n] > 0} /\ P \in SUBSET (1 .. L)
  BY <1>1 DEF Paying
<1>3. IsFiniteSet(P) /\ IsFiniteSet(1 .. L)
  BY <1>2, Numbers, FS_Subset
<1>4. \A n \in (1 .. L) \ P : slices[n] = 0
  BY <1>2
<1>5. P # {}
  <2> SUFFICES ASSUME P = {} PROVE FALSE
    OBVIOUS
  <2> DEFINE all == 1 .. L
  <2>1. IsFiniteSet(all) /\ {} \in SUBSET all /\ \A n \in all : slices[n] \in Int
    BY <1>3
  <2>2. \A n \in all \ {} : slices[n] = 0
    BY <1>4
  <2>3. SumFunctionOnSet(slices, all) = x
    BY <1>1
  <2> HIDE DEF all
  <2>4. SumFunctionOnSet(slices, all) = SumFunctionOnSet(slices, {})
    BY <2>1, <2>2, SumRestrict
  <2> QED
    BY <2>3, <2>4, SumEmpty
<1>6. last \in P /\ \A m \in P : m <= last
  <2> DEFINE rank == [n \in P |-> n]
  <2>1. \A n \in P : rank[n] \in Int
    BY <1>2
  <2>2. \E e \in P : \A m \in P : rank[m] <= rank[e]
    <3> HIDE DEF rank, P
    <3> QED
      BY <1>3, <1>5, <2>1, LastExists
  <2>3. \E e \in P : \A m \in P : m <= e
    BY <2>2
  <2> QED
    BY <2>3
<1>7. ASSUME NEW n \in 1 .. L
      PROVE  /\ HalfUp(source * slices[n], x) \in Nat
             /\ Distance(x * HalfUp(source * slices[n], x), source * slices[n]) <= x
             /\ slices[n] = 0 => HalfUp(source * slices[n], x) = 0
  <2>1. PICK s \in Nat, y \in Nat : s = slices[n] /\ y = source * s
    OBVIOUS
  <2>2. PICK h \in Nat : h = HalfUp(y, x)
    BY HalfUpIs
  <2>3. 2 * (h * x) <= 2 * y + x /\ 2 * y < 2 * (h * x) + x
    BY <2>2, HalfUpIs
  <2>4. PICK hx \in Nat : hx = h * x /\ hx = x * h
    OBVIOUS
  <2>5. Distance(hx, y) <= x
    BY <2>3, <2>4 DEF Distance
  <2>6. ASSUME y = 0 PROVE h = 0
    <3>1. HalfUp(0 * x, x) = 0
      BY HalfUpWhole
    <3> QED
      BY <2>2, <2>6, <3>1
  <2>7. s = 0 => y = 0
    BY <2>1
  <2> QED
    BY <2>1, <2>2, <2>4, <2>5, <2>6, <2>7
<1>8. /\ part \in [1 .. L -> Nat]
      /\ \A n \in 1 .. L : Distance(x * part[n], source * slices[n]) <= x
  BY <1>7
<1>9. \A n \in (1 .. L) \ P : slices[n] = 0 /\ part[n] = 0
  BY <1>4, <1>7
<1>10. last \in 1 .. L /\ before \in SUBSET (1 .. L) /\ IsFiniteSet(before)
  BY <1>2, <1>6, Numbers, FS_Subset
<1>11. SumFunction([m \in before |-> part[m]]) = SumFunctionOnSet(part, before)
  <2> DEFINE f == [m \in before |-> part[m]]
  <2>1. \A m \in before : f[m] = part[m]
    OBVIOUS
  <2>2. SumFunction(f) = SumFunctionOnSet(f, before)
    BY DEF SumFunction
  <2>3. IsFiniteSet(before)
    BY <1>10
  <2> HIDE DEF f, before, part
  <2>4. SumFunctionOnSet(f, before) = SumFunctionOnSet(part, before)
    BY <2>1, <2>3, SumCongruence
  <2> QED
    BY <2>2, <2>4 DEF f
<1>12. sources = [part EXCEPT ![last] = source - SumFunction([m \in before |-> part[m]])]
  <2> DEFINE own == [n \in DOMAIN slices |-> HalfUp(source * slices[n], SumFunction(slices))]
  <2>1. own = part
    BY <1>1
  <2>2. sources = [own EXCEPT ![last] = source - SumFunction([m \in before |-> own[m]])]
    BY DEF SourceSlices
  <2> HIDE DEF own, part, last, sources
  <2> QED
    BY <2>1, <2>2
<1>13. sources = [n \in 1 .. L |->
                    IF n = last THEN source - SumFunctionOnSet(part, before) ELSE part[n]]
  <2>1. DOMAIN part = 1 .. L
    OBVIOUS
  <2> HIDE DEF part, last, sources
  <2> QED
    BY <1>10, <1>11, <1>12, <2>1
<1> HIDE DEF part, last, sources, P
<1>14. RestToLast(L, slices, part, sources, source, x, P, last)
  BY <1>1, <1>2, <1>6, <1>8, <1>9, <1>13 DEF RestToLast
<1>15. /\ sources \in [1 .. L -> Int]
       /\ SumFunctionOnSet(sources, 1 .. L) = source
       /\ \A n \in P : Distance(sources[n] * x, source * slices[n]) <= x * Cardinality(P)
  BY <1>14, LastTakesRest
<1>16. SumFunction(sources) = source
  BY <1>15 DEF SumFunction
<1> QED
  BY <1>15, <1>16 DEF sources, P

\* What is left of the periods of a bill.
Rooms(b) == \A n \in DOMAIN Owed[b] : Left(b, n) \in Nat

LEMMA Periods ==
    ASSUME NEW b \in Bills
    PROVE  /\ Len(Owed[b]) \in Nat /\ DOMAIN Owed[b] = 1 .. Len(Owed[b])
           /\ \A n \in DOMAIN Owed[b] : Owed[b][n] \in Nat
<1>1. Owed[b] \in Seq(Nat \ {0})
  BY FxAssumption
<1> QED
  BY <1>1

LEMMA OnlyToAddsUp ==
    ASSUME NEW b \in Bills, NEW n \in DOMAIN Owed[b], NEW x \in Nat
    PROVE  /\ OnlyTo(b, n, x) \in [DOMAIN Owed[b] -> Nat]
           /\ SumFunction(OnlyTo(b, n, x)) = x
           /\ \A m \in DOMAIN Owed[b] : OnlyTo(b, n, x)[m] = IF m = n THEN x ELSE 0
<1> DEFINE D == DOMAIN Owed[b]
           f == OnlyTo(b, n, x)
<1>1. IsFiniteSet(D) /\ {n} \in SUBSET D
  <2>1. D = 1 .. Len(Owed[b]) /\ Len(Owed[b]) \in Nat
    BY Periods
  <2>2. IsFiniteSet(1 .. Len(Owed[b]))
    BY <2>1, Numbers
  <2> QED
    BY <2>1, <2>2
<1>2. f \in [D -> Nat] /\ \A m \in D : f[m] = IF m = n THEN x ELSE 0
  BY DEF OnlyTo
<1>3. SumFunction(f) = SumFunctionOnSet(f, D)
  BY <1>2 DEF SumFunction
<1>4. \A m \in D : f[m] \in Int
  BY <1>2
<1>5. \A m \in D \ {n} : f[m] = 0
  BY <1>2
<1>6. f[n] = x /\ IsFiniteSet({n}) /\ \A m \in {n} : f[m] \in Int
  BY <1>2, <1>1, FS_Subset
<1> HIDE DEF f, D
<1>7. SumFunctionOnSet(f, D) = SumFunctionOnSet(f, {n})
  BY <1>1, <1>4, <1>5, SumRestrict
<1>8. SumFunctionOnSet(f, {n}) = f[n] + SumFunctionOnSet(f, {n} \ {n})
  BY <1>6, SumRemove
<1>9. SumFunctionOnSet(f, {n} \ {n}) = 0
  BY SumEmpty
<1> QED
  BY <1>2, <1>3, <1>6, <1>7, <1>8, <1>9 DEF f, D

\* The oldest first, an amount that the open periods have room for.
LEMMA AppliedAddsUp ==
    ASSUME NEW b \in Bills, Rooms(b), NEW x \in Nat,
           x <= SumFunction([n \in DOMAIN Owed[b] |-> Left(b, n)])
    PROVE  /\ AppliedSlices(b, x) \in [DOMAIN Owed[b] -> Nat]
           /\ SumFunction(AppliedSlices(b, x)) = x
           /\ \A n \in DOMAIN Owed[b] : AppliedSlices(b, x)[n] <= Left(b, n)
<1> DEFINE D == DOMAIN Owed[b]
           room == [n \in D |-> Left(b, n)]
           rank == [n \in D |-> n]
           slice == AppliedSlices(b, x)
           Earlier(n) == SumFunction([m \in 1 .. n - 1 |-> Left(b, m)])
<1>1. IsFiniteSet(D) /\ D = 1 .. Len(Owed[b]) /\ Len(Owed[b]) \in Nat
  <2>1. D = 1 .. Len(Owed[b]) /\ Len(Owed[b]) \in Nat
    BY Periods
  <2>2. IsFiniteSet(1 .. Len(Owed[b]))
    BY <2>1, Numbers
  <2> QED
    BY <2>1, <2>2
<1>2. \A n \in D : rank[n] \in Int /\ room[n] \in Nat
  BY <1>1 DEF Rooms
<1>3. \A m, n \in D : rank[m] = rank[n] => m = n
  OBVIOUS
<1>4. SumFunction(room) = SumFunctionOnSet(room, D)
  BY DEF SumFunction
<1>5. ASSUME NEW n \in D
      PROVE  Earlier(n) = SumFunctionOnSet(room, {m \in D : rank[m] < rank[n]})
  <2> DEFINE B == {m \in D : rank[m] < rank[n]}
             f == [m \in 1 .. n - 1 |-> Left(b, m)]
  <2>1. IsFiniteSet(B)
    BY <1>1, FS_Subset
  <2>2. \A m \in D : rank[m] = m
    OBVIOUS
  <2>3. B = 1 .. n - 1 /\ IsFiniteSet(B)
    BY <1>1, <2>1, <2>2
  <2>4. \A m \in B : f[m] = room[m]
    BY <2>3
  <2>5. SumFunction(f) = SumFunctionOnSet(f, B)
    BY <2>3 DEF SumFunction
  <2> HIDE DEF B, f, room
  <2>6. SumFunctionOnSet(f, B) = SumFunctionOnSet(room, B)
    BY <2>3, <2>4, SumCongruence
  <2> QED
    BY <2>5, <2>6 DEF B, f
<1>6. ASSUME NEW n \in D
      PROVE  /\ Earlier(n) \in Nat
             /\ LeftFor(n, D, rank, room, x) = x - Earlier(n)
  <2> DEFINE B == {m \in D : rank[m] < rank[n]}
  <2>1. IsFiniteSet(B) /\ \A m \in B : room[m] \in Nat
    BY <1>1, <1>2, FS_Subset
  <2> HIDE DEF B, room
  <2>2. SumFunctionOnSet(room, B) \in Nat
    BY <2>1, SumBounds
  <2> QED
    BY <1>5, <2>2 DEF B, LeftFor
<1>7. ASSUME NEW n \in D
      PROVE  /\ slice[n] = IF LeftFor(n, D, rank, room, x) <= 0 THEN 0
                           ELSE Least(LeftFor(n, D, rank, room, x), room[n])
             /\ slice[n] \in Nat /\ slice[n] <= Left(b, n)
  <2>1. slice[n] = LET left == IF x > Earlier(n) THEN x - Earlier(n) ELSE 0
                   IN  IF left < Left(b, n) THEN left ELSE Left(b, n)
    BY DEF AppliedSlices
  <2>2. room[n] = Left(b, n) /\ room[n] \in Nat
    BY <1>2
  <2> HIDE DEF slice, room, rank, Earlier
  <2>3. PICK e \in Nat, r \in Nat : e = Earlier(n) /\ r = room[n] /\ r = Left(b, n)
    BY <1>6, <2>2
  <2> QED
    BY <1>6, <2>1, <2>3 DEF Least
<1>8. slice \in [D -> Nat]
  <2>1. slice = [n \in D |-> slice[n]]
    BY DEF AppliedSlices
  <2> QED
    BY <1>7, <2>1
<1>9. SumFunction(slice) = SumFunctionOnSet(slice, D)
  BY <1>8 DEF SumFunction
<1>10. \A n \in D : slice[n] = IF LeftFor(n, D, rank, room, x) <= 0 THEN 0
                               ELSE Least(LeftFor(n, D, rank, room, x), room[n])
  BY <1>7
<1>11. IsFiniteSet(D)
  BY <1>1
<1> HIDE DEF D, slice, room, rank
<1>12. SumFunctionOnSet(slice, D) = Least(x, SumFunctionOnSet(room, D))
  BY <1>11, <1>2, <1>3, <1>10, FillingAddsUp
<1>13. x <= SumFunctionOnSet(room, D)
  BY <1>4 DEF room, D
<1>14. SumFunctionOnSet(slice, D) = x
  BY <1>12, <1>13 DEF Least
<1> QED
  BY <1>7, <1>8, <1>9, <1>14 DEF D, slice

-----------------------------------------------------------------------------
(* The invariant *)

Rate == [num : Nat, den : Nat \ {0}]

OfferRow ==
    [kind : {"snapshot", "quote", "preview"}, from : Currencies, to : Currencies, rate : Rate,
     source : Nat, target : Nat, price : Markets, made : Nat, expires : Nat]

MoveRow ==
    [from : Accounts, to : Accounts \cup Bills, price : Markets, made : Nat, at : Nat,
     source : Nat, applied : Nat, slices : Seq(Nat), sources : Seq(Int)]

FxTypeOK ==
    /\ now \in Nat /\ market \in Markets
    /\ offers \in Seq(OfferRow)
    /\ balance \in [Accounts -> Nat]
    /\ paid = [b \in Bills |-> paid[b]]
    /\ \A b \in Bills : paid[b] \in [DOMAIN Owed[b] -> Nat]
    /\ moves \in Seq(MoveRow)

(***************************************************************************)
(* Whatever asked for it and however it was rounded on its way, the rate   *)
(* of a row is the price of its moment, and it is good for no longer than  *)
(* Validity.                                                               *)
(***************************************************************************)
OfferSound(o, t) ==
    /\ RateOf(o.from, o.price, Stored(o.rate).num)
    /\ o.made <= t /\ o.expires <= o.made + Validity

FxInv ==
    /\ FxTypeOK
    /\ \A i \in DOMAIN offers : OfferSound(offers[i], now)
    /\ DebitsFollowThePrice
    /\ SplitsAddUp

LEMMA RangeAppend ==
    ASSUME NEW S, NEW s \in Seq(S), NEW e \in S
    PROVE  /\ Append(s, e) \in Seq(S)
           /\ \A x \in Range(Append(s, e)) : x \in Range(s) \/ x = e
           /\ \A i \in DOMAIN Append(s, e) :
                IF i \in DOMAIN s THEN Append(s, e)[i] = s[i] ELSE Append(s, e)[i] = e
<1>1. /\ Append(s, e) \in Seq(S) /\ Len(s) \in Nat
      /\ DOMAIN s = 1 .. Len(s) /\ DOMAIN Append(s, e) = 1 .. Len(s) + 1
  OBVIOUS
<1>2. ASSUME NEW i \in DOMAIN Append(s, e)
      PROVE  IF i \in DOMAIN s THEN Append(s, e)[i] = s[i] ELSE Append(s, e)[i] = e
  BY <1>1
<1>3. ASSUME NEW x \in Range(Append(s, e)) PROVE x \in Range(s) \/ x = e
  <2>1. PICK i \in DOMAIN Append(s, e) : x = Append(s, e)[i]
    BY DEF Range
  <2> QED
    BY <1>2, <2>1 DEF Range
<1> QED
  BY <1>1, <1>2, <1>3

\* The rates that are asked for, on the row that keeps them.
LEMMA StoredPrice ==
    ASSUME NEW price \in Markets
    PROVE  /\ Stored(Fraction(price, 1)).num = price * Scale
           /\ price * Scale \in Nat \ {0}
<1>1. price \in Nat \ {0} /\ Scale \in Nat \ {0}
  BY FxAssumption
<1>2. PICK k \in Nat \ {0} : k = price * Scale
  BY <1>1
<1>3. HalfUp(k * 1, 1) = k
  BY HalfUpWhole
<1>4. k * 1 = k
  OBVIOUS
<1> QED
  BY <1>2, <1>3, <1>4 DEF Stored, Fraction

LEMMA InverseClose ==
    ASSUME NEW price \in Markets, NEW k \in Int,
           2 * (k * price) <= 2 * Scale + price, 2 * Scale <= 2 * (k * price) + price
    PROVE  k \in Nat \ {0} /\ 2 * Distance(k * price, Scale) <= price
<1>1. price \in Nat \ {0} /\ Scale \in Nat \ {0} /\ price <= Scale
  BY FxAssumption
<1>2. PICK y \in Int : y = k * price
  BY <1>1
<1>3. 2 * Distance(y, Scale) <= price
  BY <1>1, <1>2, Apart
<1>4. 0 * price < k * price
  BY <1>1, <1>2
<1>5. 0 < k
  BY <1>1, <1>4, Cancel
<1> QED
  BY <1>2, <1>3, <1>5

LEMMA RatesAreSound ==
    ASSUME NEW from \in Currencies, market \in Markets
    PROVE  /\ ProviderRate(from) \in Rate /\ ExactRate(from) \in Rate
           /\ RateOf(from, market, Stored(ProviderRate(from)).num)
           /\ RateOf(from, market, Stored(ExactRate(from)).num)
<1>1. market \in Nat \ {0} /\ Scale \in Nat \ {0}
  BY FxAssumption
<1>2. CASE from = Base
  <2>1. ProviderRate(from) = Fraction(market, 1) /\ ExactRate(from) = Fraction(market, 1)
    BY <1>2 DEF ProviderRate, ExactRate
  <2>2. Fraction(market, 1) \in Rate
    BY <1>1 DEF Fraction, Rate
  <2>3. RateOf(from, market, Stored(Fraction(market, 1)).num)
    BY <1>2, StoredPrice DEF RateOf
  <2> QED
    BY <2>1, <2>2, <2>3
<1>3. CASE from # Base
  <2>1. PICK h \in Int : h = HalfEven(Scale, market)
    BY <1>1, HalfEvenIs
  <2>2. 2 * (h * market) <= 2 * Scale + market /\ 2 * Scale <= 2 * (h * market) + market
    BY <1>1, <2>1, HalfEvenIs
  <2>3. h \in Nat \ {0} /\ 2 * Distance(h * market, Scale) <= market
    BY <2>2, InverseClose
  <2>4. ProviderRate(from) = Fraction(h, Scale)
    BY <1>3, <2>1 DEF ProviderRate
  <2>5. Stored(Fraction(h, Scale)).num = h
    BY <1>1, <2>3, HalfUpWhole DEF Stored, Fraction
  <2>6. PICK g \in Nat : g = HalfUp(Scale, market)
    BY <1>1, HalfUpIs
  <2>7. 2 * (g * market) <= 2 * Scale + market /\ 2 * Scale < 2 * (g * market) + market
    BY <1>1, <2>6, HalfUpIs
  <2>8. g \in Nat \ {0} /\ 2 * Distance(g * market, Scale) <= market
    <3>1. PICK y \in Nat : y = g * market
      BY <1>1
    <3>2. 2 * Scale <= 2 * y + market
      BY <1>1, <2>7, <3>1
    <3> QED
      BY <2>7, <3>1, <3>2, InverseClose
  <2>9. ExactRate(from) = Fraction(1, market)
    BY <1>3 DEF ExactRate
  <2>10. Stored(Fraction(1, market)).num = g
    BY <1>1, <2>6 DEF Stored, Fraction
  <2>11. Fraction(h, Scale) \in Rate /\ Fraction(1, market) \in Rate
    BY <1>1, <2>3 DEF Fraction, Rate
  <2> QED
    BY <1>3, <2>3, <2>4, <2>5, <2>8, <2>9, <2>10, <2>11 DEF RateOf
<1> QED
  BY <1>2, <1>3

\* What resolve_settlement accepts.
LEMMA SettledSound ==
    ASSUME FxInv, NEW i \in DOMAIN offers, NEW a \in Accounts, NEW b \in Bills,
           NEW x \in Amounts, Fits(offers[i], Stored(offers[i].rate), a, b, x)
    PROVE  LET o == offers[i]
               s == Settled(o, Stored(o.rate), a, x)
           IN  /\ s = Settlement(s.source, s.applied)
               /\ s.source \in Nat /\ s.applied \in Nat \ {0}
               /\ o.price \in Markets /\ o.made \in Nat /\ now - o.made < Validity
               /\ Priced(s.source, s.applied, o.price, CurrencyOf[a], CurrencyOf[b])
<1> DEFINE o == offers[i]
           k == Stored(o.rate).num
           s == Settled(o, Stored(o.rate), a, x)
           from == CurrencyOf[a]
           to == CurrencyOf[b]
<1>1. o \in OfferRow /\ OfferSound(o, now) /\ now \in Nat
  BY DEF FxInv, FxTypeOK
<1>2. Validity \in Nat /\ Scale \in Nat \ {0} /\ x \in Nat \ {0}
  BY FxAssumption
<1>3. now < o.expires /\ o.from = from /\ o.to = to
  BY DEF Fits, SnapshotFits, QuoteFits
<1>4. o.price \in Markets /\ o.made \in Nat /\ now - o.made < Validity
  BY <1>1, <1>2, <1>3 DEF OfferRow, OfferSound
<1>5. Stored(o.rate) = Fraction(k, Scale)
  BY DEF Stored, Fraction
<1>6. k \in Nat \ {0} /\ RateOf(from, o.price, k)
  BY <1>1, <1>3 DEF OfferSound, RateOf
<1>7. from \in Currencies /\ to \in Currencies
  BY CurrencyUnit
<1> HIDE DEF k, from, to
<1>8. CASE o.kind = "snapshot"
  <2>1. s = Settlement(Over(x, Fraction(k, Scale), from), x)
    BY <1>5, <1>8 DEF Settled, from
  <2>2. PICK source \in Nat : source = Over(x, Fraction(k, Scale), from)
    BY <1>2, <1>6, <1>7, OverClose
  <2>3. 2 * Distance(source * k, x * Scale) <= k * Unit[from]
    BY <1>2, <1>6, <1>7, <2>2, OverClose
  <2>4. Agree(source, x, k, from, to)
    BY <2>3 DEF Agree
  <2>5. Priced(source, x, o.price, from, to)
    BY <1>2, <1>4, <1>6, <1>7, <2>4, AgreedPrice
  <2>6. s.source = source /\ s.applied = x
    BY <2>1, <2>2 DEF Settlement
  <2> QED
    BY <1>2, <1>4, <2>1, <2>2, <2>5, <2>6 DEF from, to
<1>9. CASE o.kind # "snapshot"
  <2>1. s = Settlement(o.source, o.target)
    BY <1>9 DEF Settled
  <2>2. QuoteFits(o, Fraction(k, Scale), a, b, x)
    BY <1>5, <1>9 DEF Fits, SnapshotFits
  <2>3. PICK source \in Nat, target \in Nat \ {0} : source = o.source /\ target = o.target
    BY <1>1, <2>2 DEF QuoteFits, OfferRow
  <2>4. \/ target = Times(source, Fraction(k, Scale), to)
        \/ source = Over(target, Fraction(k, Scale), from)
    BY <1>3, <2>2, <2>3 DEF QuoteFits, Consistent
  <2>5. Agree(source, target, k, from, to)
    <3>1. CASE target = Times(source, Fraction(k, Scale), to)
      <4>1. 2 * Distance(target * Scale, source * k) <= Scale * Unit[to]
        BY <1>2, <1>6, <1>7, <3>1, TimesClose
      <4> QED
        BY <4>1 DEF Agree
    <3>2. CASE source = Over(target, Fraction(k, Scale), from)
      <4>1. 2 * Distance(source * k, target * Scale) <= k * Unit[from]
        BY <1>2, <1>6, <1>7, <3>2, OverClose
      <4> QED
        BY <4>1 DEF Agree
    <3> QED
      BY <2>4, <3>1, <3>2
  <2>6. Priced(source, target, o.price, from, to)
    BY <1>4, <1>6, <1>7, <2>5, AgreedPrice
  <2>7. s.source = source /\ s.applied = target
    BY <2>1, <2>3 DEF Settlement
  <2> QED
    BY <1>4, <2>1, <2>3, <2>6, <2>7 DEF from, to
<1> QED
  BY <1>8, <1>9

-----------------------------------------------------------------------------
(* The steps *)

\* A row that is added is good from its moment on; the others do not change.
LEMMA AddOfferKeeps ==
    ASSUME FxInv, NEW o \in OfferRow, OfferSound(o, now), AddOffer(o)
    PROVE  FxInv'
<1>1. /\ offers' = Append(offers, o) /\ now' = now /\ market' = market /\ balance' = balance
      /\ paid' = paid /\ moves' = moves
  BY DEF AddOffer
<1>2. offers \in Seq(OfferRow)
  BY DEF FxInv, FxTypeOK
<1>3. FxTypeOK'
  BY <1>1, <1>2, RangeAppend DEF FxInv, FxTypeOK
<1>4. ASSUME NEW i \in DOMAIN offers' PROVE OfferSound(offers'[i], now')
  <2>1. OfferSound(offers'[i], now)
    BY <1>1, <1>2, RangeAppend DEF FxInv
  <2> QED
    BY <1>1, <2>1 DEF OfferSound
<1>5. DebitsFollowThePrice' /\ SplitsAddUp'
  BY <1>1 DEF FxInv, DebitsFollowThePrice, SplitsAddUp
<1> QED
  BY <1>3, <1>4, <1>5 DEF FxInv

LEMMA NewOffer ==
    ASSUME FxInv, NEW kind \in {"snapshot", "quote", "preview"}, NEW from \in Currencies,
           NEW to \in Currencies, NEW rate \in Rate, NEW source \in Nat, NEW target \in Nat,
           NEW life \in Nat, life <= Validity, RateOf(from, market, Stored(rate).num),
           AddOffer(Offer(kind, from, to, rate, source, target, life))
    PROVE  FxInv'
<1> DEFINE o == Offer(kind, from, to, rate, source, target, life)
<1>1. now \in Nat /\ market \in Markets
  BY DEF FxInv, FxTypeOK
<1>2. o \in OfferRow
  BY <1>1 DEF Offer, OfferRow
<1>3. /\ o.from = from /\ o.price = market /\ o.rate = rate
      /\ o.made = now /\ o.expires = now + life
  BY DEF Offer
<1>4. Validity \in Nat
  BY FxAssumption
<1> HIDE DEF o
<1>5. OfferSound(o, now)
  BY <1>1, <1>3, <1>4 DEF OfferSound
<1>6. AddOffer(o)
  BY DEF o
<1> QED
  BY <1>2, <1>5, <1>6, AddOfferKeeps

LEMMA Lives == 0 \in Nat /\ Validity \in Nat /\ PreviewValidity \in Nat /\ PreviewValidity <= Validity
               /\ Validity > 0 /\ Amounts \subseteq Nat \ {0}
  BY FxAssumption

LEMMA SnapshotKeeps ==
    ASSUME FxInv, NEW from \in Currencies, NEW to \in Currencies, Snapshot(from, to)
    PROVE  FxInv'
<1>1. market \in Markets
  BY DEF FxInv, FxTypeOK
<1>2. ProviderRate(from) \in Rate /\ RateOf(from, market, Stored(ProviderRate(from)).num)
  BY <1>1, RatesAreSound
<1>3. AddOffer(Offer("snapshot", from, to, ProviderRate(from), 0, 0, Validity))
  BY DEF Snapshot
<1> QED
  BY <1>2, <1>3, Lives, NewOffer

LEMMA QuoteKeeps ==
    ASSUME FxInv, NEW from \in Currencies, NEW to \in Currencies, NEW x \in Amounts,
           Quote(from, to, x)
    PROVE  FxInv'
<1>1. market \in Markets
  BY DEF FxInv, FxTypeOK
<1>2. PICK rate \in Rate : rate = ProviderRate(from) /\ RateOf(from, market, Stored(rate).num)
  BY <1>1, RatesAreSound
<1>3. rate.num \in Nat /\ rate.den \in Nat \ {0} /\ x \in Nat
  BY Lives DEF Rate
<1>4. x * rate.num \in Nat
  BY <1>3
<1>5. PICK target \in Nat : target = HalfUp(x * rate.num, rate.den)
  BY <1>3, <1>4, HalfUpIs
<1>6. AddOffer(Offer("quote", from, to, rate, x, target, Validity))
  BY <1>2, <1>5 DEF Quote
<1> QED
  BY <1>2, <1>3, <1>6, Lives, NewOffer

LEMMA ExactOver ==
    ASSUME NEW a \in Accounts, NEW b \in Bills, NEW x \in Nat, market \in Markets
    PROVE  LET s == Over(x, ExactRate(CurrencyOf[a]), CurrencyOf[a]) IN
           s \in Nat /\ Priced(s, x, market, CurrencyOf[a], CurrencyOf[b])
<1> DEFINE from == CurrencyOf[a]
           to == CurrencyOf[b]
           s == Over(x, ExactRate(from), from)
<1>1. /\ from \in Currencies /\ Unit[from] \in Nat \ {0} /\ Unit[to] \in Nat \ {0}
      /\ market \in Nat \ {0} /\ Scale \in Nat \ {0}
  BY CurrencyUnit, FxAssumption
<1> HIDE DEF from, to
<1>2. CASE from = Base
  <2>1. s = Over(x, Fraction(market, 1), from)
    BY <1>2 DEF ExactRate
  <2>2. PICK y \in Nat : y = s
    BY <1>1, <2>1, OverClose
  <2>3. 2 * Distance(y * market, x * 1) <= market * Unit[from]
    BY <1>1, <2>1, <2>2, OverClose
  <2>4. PICK ym \in Nat, mu \in Nat : ym = y * market /\ mu = market * Unit[from] /\ mu = Unit[from] * market
    BY <1>1
  <2>5. 2 * Distance(ym, x) <= mu
    BY <2>3, <2>4
  <2>6. 2 * Distance(ym, x) <= mu + Unit[to]
    BY <1>1, <2>5 DEF Distance
  <2>7. Priced(y, x, market, from, to)
    BY <1>2, <2>4, <2>6 DEF Priced
  <2> QED
    BY <2>2, <2>7 DEF from, to
<1>3. CASE from # Base
  <2>1. s = Over(x, Fraction(1, market), from)
    BY <1>3 DEF ExactRate
  <2>2. PICK y \in Nat : y = s
    BY <1>1, <2>1, OverClose
  <2>3. 2 * Distance(y * 1, x * market) <= 1 * Unit[from]
    BY <1>1, <2>1, <2>2, OverClose
  <2>4. PICK ym \in Nat, xm \in Nat, um \in Nat : ym = y * market /\ xm = x * market /\ um = Unit[to] * market
    BY <1>1
  <2>5. PICK q \in Nat : q = ym \div Scale
    BY <1>1, Division
  <2>6. 2 * Distance(y, xm) <= Unit[from]
    BY <1>1, <2>3, <2>4
  <2>7. 2 * Distance(y, xm) <= 2 * Unit[from] + um + q
    BY <1>1, <2>6 DEF Distance
  <2>8. Priced(y, x, market, from, to)
    BY <1>3, <2>4, <2>5, <2>7 DEF Priced
  <2> QED
    BY <2>2, <2>8 DEF from, to
<1> QED
  BY <1>2, <1>3

LEMMA PreviewKeeps ==
    ASSUME FxInv, NEW a \in Accounts, NEW b \in Bills, NEW n, NEW x \in Amounts,
           Preview(a, b, n, x)
    PROVE  FxInv'
<1>1. market \in Markets
  BY DEF FxInv, FxTypeOK
<1>2. CurrencyOf[a] \in Currencies /\ CurrencyOf[b] \in Currencies /\ x \in Nat
  BY CurrencyUnit, Lives
<1>3. PICK rate \in Rate : rate = ExactRate(CurrencyOf[a])
                           /\ RateOf(CurrencyOf[a], market, Stored(rate).num)
  BY <1>1, <1>2, RatesAreSound
<1>4. PICK source \in Nat : source = Over(x, rate, CurrencyOf[a])
  BY <1>1, <1>2, <1>3, ExactOver
<1>5. AddOffer(Offer("preview", CurrencyOf[a], CurrencyOf[b], rate, source, x, PreviewValidity))
  BY <1>3, <1>4 DEF Preview, Previewed
<1> QED
  BY <1>2, <1>3, <1>5, Lives, NewOffer

\* A movement that is priced and split fairly.
MoveSound(m) == m.at - m.made < Validity /\ FollowsPrice(m) /\ SharesFairly(m)

LEMMA AddMoveKeeps ==
    ASSUME FxInv, NEW m \in MoveRow, MoveSound(m), moves' = Append(moves, m),
           now' = now, market' = market, offers' = offers, balance' \in [Accounts -> Nat],
           paid' = [b \in Bills |-> paid'[b]],
           \A b \in Bills : /\ paid'[b] \in [DOMAIN Owed[b] -> Nat]
                            /\ \A n \in DOMAIN Owed[b] : paid'[b][n] <= Owed[b][n]
    PROVE  FxInv'
<1>1. moves \in Seq(MoveRow)
  BY DEF FxInv, FxTypeOK
<1>2. FxTypeOK'
  BY <1>1, RangeAppend DEF FxInv, FxTypeOK
<1>3. \A i \in DOMAIN offers' : OfferSound(offers'[i], now')
  BY DEF FxInv, OfferSound
<1>4. \A r \in Range(moves') : r \in Range(moves) \/ r = m
  BY <1>1, RangeAppend
<1>5. DebitsFollowThePrice'
  BY <1>4 DEF FxInv, DebitsFollowThePrice, MoveSound
<1>6. SplitsAddUp'
  BY <1>4 DEF FxInv, SplitsAddUp, MoveSound
<1> QED
  BY <1>2, <1>3, <1>5, <1>6 DEF FxInv

LEMMA DebitKeeps ==
    ASSUME FxInv, NEW a \in Accounts, NEW b \in Bills, NEW price \in Markets, NEW made \in Nat,
           NEW source \in Nat, NEW applied \in Nat \ {0}, now - made < Validity,
           Priced(source, applied, price, CurrencyOf[a], CurrencyOf[b]),
           NEW slices \in [DOMAIN Owed[b] -> Nat], SumFunction(slices) = applied,
           \A n \in DOMAIN Owed[b] : slices[n] <= Left(b, n),
           Debit(a, b, price, made, Settlement(source, applied), slices)
    PROVE  FxInv'
<1> DEFINE sources == SourceSlices(source, slices)
           m == Move(a, b, price, made, Settlement(source, applied), slices, sources)
<1>1. DOMAIN Owed[b] = 1 .. Len(Owed[b]) /\ Len(Owed[b]) \in Nat
      /\ \A n \in DOMAIN Owed[b] : Owed[b][n] \in Nat
  BY Periods
<1>2. /\ sources \in [1 .. Len(Owed[b]) -> Int] /\ SumFunction(sources) = source
      /\ \A n \in Paying(slices) :
           Distance(sources[n] * applied, source * slices[n]) <= applied * Cardinality(Paying(slices))
  BY <1>1, SourcesAddUp
<1>3. /\ source <= balance[a] /\ \A n \in Paying(slices) : sources[n] > 0
      /\ balance' = [balance EXCEPT ![a] = @ - source]
      /\ paid' = [paid EXCEPT ![b] = [n \in DOMAIN @ |-> @[n] + slices[n]]]
      /\ moves' = Append(moves, m)
      /\ now' = now /\ market' = market /\ offers' = offers
  BY DEF Debit, Settlement
<1>4. now \in Nat /\ balance \in [Accounts -> Nat]
  BY DEF FxInv, FxTypeOK
<1>5. /\ m.from = a /\ m.to = b /\ m.price = price /\ m.made = made /\ m.at = now
      /\ m.source = source /\ m.applied = applied /\ m.slices = slices /\ m.sources = sources
  BY DEF Move, Settlement
<1>6. m \in MoveRow
  <2>1. slices \in Seq(Nat) /\ sources \in Seq(Int)
    BY <1>1, <1>2
  <2> QED
    BY <1>4, <2>1 DEF Move, Settlement, MoveRow
<1> HIDE DEF m, sources
<1>7. MoveSound(m)
  <2>1. FollowsPrice(m)
    BY <1>5 DEF FollowsPrice, Priced
  <2>2. SharesFairly(m)
    BY <1>2, <1>3, <1>5 DEF SharesFairly
  <2> QED
    BY <1>5, <2>1, <2>2 DEF MoveSound
<1>8. balance' \in [Accounts -> Nat]
  BY <1>3, <1>4
<1>9. paid' = [c \in Bills |-> paid'[c]]
  BY <1>3 DEF FxInv, FxTypeOK
<1>10. ASSUME NEW c \in Bills
       PROVE  /\ paid'[c] \in [DOMAIN Owed[c] -> Nat]
              /\ \A n \in DOMAIN Owed[c] : paid'[c][n] <= Owed[c][n]
  <2>1. /\ paid[c] \in [DOMAIN Owed[c] -> Nat] /\ DOMAIN paid = Bills
        /\ \A n \in DOMAIN Owed[c] : paid[c][n] <= Owed[c][n]
    BY DEF FxInv, FxTypeOK, SplitsAddUp
  <2>2. CASE c # b
    BY <1>3, <2>1, <2>2
  <2>3. CASE c = b
    <3>1. paid'[b] = [n \in DOMAIN Owed[b] |-> paid[b][n] + slices[n]]
      BY <1>3, <2>1, <2>3
    <3>2. \A n \in DOMAIN Owed[b] : /\ paid[b][n] \in Nat /\ slices[n] \in Nat /\ Owed[b][n] \in Nat
                                    /\ slices[n] <= Owed[b][n] - paid[b][n]
      BY <1>1, <2>1, <2>3 DEF Left
    <3> QED
      BY <2>3, <3>1, <3>2
  <2> QED
    BY <2>2, <2>3
<1> QED
  BY <1>3, <1>6, <1>7, <1>8, <1>9, <1>10, AddMoveKeeps

LEMMA RoomsLeft == ASSUME FxInv, NEW b \in Bills PROVE Rooms(b)
<1>1. /\ paid[b] \in [DOMAIN Owed[b] -> Nat]
      /\ \A n \in DOMAIN Owed[b] : paid[b][n] <= Owed[b][n]
  BY DEF FxInv, FxTypeOK, SplitsAddUp
<1>2. \A n \in DOMAIN Owed[b] : Owed[b][n] \in Nat
  BY Periods
<1> QED
  BY <1>1, <1>2 DEF Rooms, Left

\* A slice of one period is no more than what is left of it.
LEMMA OnlyToFits ==
    ASSUME FxInv, NEW b \in Bills, NEW n \in DOMAIN Owed[b], NEW x \in Nat, x <= Left(b, n)
    PROVE  /\ OnlyTo(b, n, x) \in [DOMAIN Owed[b] -> Nat]
           /\ SumFunction(OnlyTo(b, n, x)) = x
           /\ \A m \in DOMAIN Owed[b] : OnlyTo(b, n, x)[m] <= Left(b, m)
<1>1. \A m \in DOMAIN Owed[b] : Left(b, m) \in Nat
  BY RoomsLeft DEF Rooms
<1>2. \A m \in DOMAIN Owed[b] : OnlyTo(b, n, x)[m] = IF m = n THEN x ELSE 0
  BY OnlyToAddsUp
<1>3. \A m \in DOMAIN Owed[b] : OnlyTo(b, n, x)[m] <= Left(b, m)
  BY <1>1, <1>2
<1> QED
  BY <1>3, OnlyToAddsUp

LEMMA PayPeriodKeeps ==
    ASSUME FxInv, NEW a \in Accounts, NEW b \in Bills, NEW n \in DOMAIN Owed[b],
           NEW x \in Amounts, NEW i \in DOMAIN offers, PayPeriod(a, b, n, x, i)
    PROVE  FxInv'
<1> DEFINE o == offers[i]
           s == Settled(o, Stored(o.rate), a, x)
<1>1. /\ s = Settlement(s.source, s.applied)
      /\ s.source \in Nat /\ s.applied \in Nat \ {0}
      /\ o.price \in Markets /\ o.made \in Nat /\ now - o.made < Validity
      /\ Priced(s.source, s.applied, o.price, CurrencyOf[a], CurrencyOf[b])
  BY SettledSound DEF PayPeriod
<1>2. s.applied <= Left(b, n) /\ Debit(a, b, o.price, o.made, s, OnlyTo(b, n, s.applied))
  BY DEF PayPeriod
<1> HIDE DEF s, o
<1>3. PICK source \in Nat, applied \in Nat \ {0} : source = s.source /\ applied = s.applied
  BY <1>1
<1>4. Debit(a, b, o.price, o.made, Settlement(source, applied), OnlyTo(b, n, applied))
  BY <1>1, <1>2, <1>3
<1>5. /\ OnlyTo(b, n, applied) \in [DOMAIN Owed[b] -> Nat]
      /\ SumFunction(OnlyTo(b, n, applied)) = applied
      /\ \A m \in DOMAIN Owed[b] : OnlyTo(b, n, applied)[m] <= Left(b, m)
  BY <1>2, <1>3, OnlyToFits
<1> QED
  BY <1>1, <1>3, <1>4, <1>5, DebitKeeps

LEMMA PayFifoKeeps ==
    ASSUME FxInv, NEW a \in Accounts, NEW b \in Bills, NEW x \in Amounts,
           NEW i \in DOMAIN offers, PayFifo(a, b, x, i)
    PROVE  FxInv'
<1> DEFINE o == offers[i]
           s == Settled(o, Stored(o.rate), a, x)
<1>1. /\ s = Settlement(s.source, s.applied)
      /\ s.source \in Nat /\ s.applied \in Nat \ {0}
      /\ o.price \in Markets /\ o.made \in Nat /\ now - o.made < Validity
      /\ Priced(s.source, s.applied, o.price, CurrencyOf[a], CurrencyOf[b])
  BY SettledSound DEF PayFifo
<1>2. /\ s.applied <= SumFunction([n \in DOMAIN Owed[b] |-> Left(b, n)])
      /\ Debit(a, b, o.price, o.made, s, AppliedSlices(b, s.applied))
  BY DEF PayFifo
<1> HIDE DEF s, o
<1>3. PICK source \in Nat, applied \in Nat \ {0} : source = s.source /\ applied = s.applied
  BY <1>1
<1>4. Debit(a, b, o.price, o.made, Settlement(source, applied), AppliedSlices(b, applied))
  BY <1>1, <1>2, <1>3
<1>5. /\ AppliedSlices(b, applied) \in [DOMAIN Owed[b] -> Nat]
      /\ SumFunction(AppliedSlices(b, applied)) = applied
      /\ \A m \in DOMAIN Owed[b] : AppliedSlices(b, applied)[m] <= Left(b, m)
  BY <1>2, <1>3, RoomsLeft, AppliedAddsUp
<1> QED
  BY <1>1, <1>3, <1>4, <1>5, DebitKeeps

LEMMA PayNowKeeps ==
    ASSUME FxInv, NEW a \in Accounts, NEW b \in Bills, NEW n \in DOMAIN Owed[b],
           NEW x \in Amounts, PayNow(a, b, n, x)
    PROVE  FxInv'
<1>1. market \in Markets /\ now \in Nat /\ x \in Nat \ {0} /\ Validity \in Nat \ {0}
  BY Lives DEF FxInv, FxTypeOK
<1>2. PICK source \in Nat : source = Over(x, ExactRate(CurrencyOf[a]), CurrencyOf[a])
                            /\ Priced(source, x, market, CurrencyOf[a], CurrencyOf[b])
  BY <1>1, ExactOver
<1>3. x <= Left(b, n) /\ Debit(a, b, market, now, Settlement(source, x), OnlyTo(b, n, x))
  BY <1>2 DEF PayNow
<1>4. now - now < Validity
  BY <1>1
<1>5. /\ OnlyTo(b, n, x) \in [DOMAIN Owed[b] -> Nat]
      /\ SumFunction(OnlyTo(b, n, x)) = x
      /\ \A m \in DOMAIN Owed[b] : OnlyTo(b, n, x)[m] <= Left(b, m)
  BY <1>1, <1>3, OnlyToFits
<1> QED
  BY <1>1, <1>2, <1>3, <1>4, <1>5, DebitKeeps

LEMMA OneSlice ==
    ASSUME NEW x \in Nat \ {0}
    PROVE  SumFunction(<<x>>) = x /\ Paying(<<x>>) = {1} /\ Cardinality(Paying(<<x>>)) = 1
<1> DEFINE f == <<x>>
<1>1. DOMAIN f = {1} /\ f[1] = x
  OBVIOUS
<1>2. IsFiniteSet({1}) /\ Cardinality({1}) = 1
  BY FS_Singleton
<1>3. Paying(f) = {1}
  BY <1>1 DEF Paying
<1>4. SumFunction(f) = SumFunctionOnSet(f, {1})
  BY <1>1 DEF SumFunction
<1>5. \A n \in {1} : f[n] \in Int
  BY <1>1
<1> HIDE DEF f
<1>6. SumFunctionOnSet(f, {1}) = f[1] + SumFunctionOnSet(f, {1} \ {1})
  BY <1>2, <1>5, SumRemove
<1>7. {1} \ {1} = {}
  OBVIOUS
<1>8. SumFunctionOnSet(f, {1} \ {1}) = 0
  BY <1>7, SumEmpty
<1> QED
  BY <1>1, <1>2, <1>3, <1>4, <1>6, <1>8 DEF f

LEMMA ExchangeKeeps ==
    ASSUME FxInv, NEW a \in Accounts, NEW c \in Accounts, NEW x \in Amounts,
           NEW i \in DOMAIN offers, Exchange(a, c, x, i)
    PROVE  FxInv'
<1> DEFINE o == offers[i]
           k == Stored(o.rate).num
           from == CurrencyOf[a]
           to == CurrencyOf[c]
           arrives == HalfUp(x * k, Scale)
           m == Move(a, c, o.price, o.made, Settlement(x, arrives), <<arrives>>, <<x>>)
<1>1. o \in OfferRow /\ OfferSound(o, now) /\ now \in Nat /\ balance \in [Accounts -> Nat]
  BY DEF FxInv, FxTypeOK
<1>2. Validity \in Nat /\ Scale \in Nat \ {0} /\ x \in Nat \ {0}
  BY FxAssumption
<1>3. Stored(o.rate).den = Scale
  BY DEF Stored, Fraction
<1>4. /\ from # to /\ now < o.expires /\ o.from = from /\ x <= balance[a]
      /\ arrives \in 1 .. MaxMoney
      /\ balance' = [balance EXCEPT ![a] = @ - x, ![c] = @ + arrives]
      /\ moves' = Append(moves, m)
      /\ now' = now /\ market' = market /\ offers' = offers /\ paid' = paid
  BY <1>3 DEF Exchange
<1>5. o.price \in Markets /\ o.made \in Nat /\ now - o.made < Validity
  BY <1>1, <1>2, <1>4 DEF OfferRow, OfferSound
<1>6. k \in Nat \ {0} /\ RateOf(from, o.price, k)
  BY <1>1, <1>4 DEF OfferSound, RateOf
<1>7. /\ from \in Currencies /\ to \in Currencies
      /\ Unit[from] \in Nat \ {0} /\ Unit[to] \in Nat \ {0}
  BY CurrencyUnit
<1>8. arrives \in Nat \ {0}
  <2>1. MaxMoney \in Nat
    BY FxAssumption
  <2> QED
    BY <1>4, <2>1
<1>9. /\ m.from = a /\ m.to = c /\ m.price = o.price /\ m.made = o.made /\ m.at = now
      /\ m.source = x /\ m.applied = arrives /\ m.slices = <<arrives>> /\ m.sources = <<x>>
  BY DEF Move, Settlement
<1> HIDE DEF k
<1>10. PICK z \in Nat \ {0} : z = arrives
  BY <1>8
<1>11. Priced(x, z, o.price, from, to)
  <2>1. PICK xk \in Nat : xk = x * k
    BY <1>2, <1>6
  <2>2. PICK zs \in Nat, sv \in Nat : zs = z * Scale /\ sv = Scale * Unit[to]
    <3>1. PICK v \in Nat : v = Unit[to]
      BY <1>7
    <3> QED
      BY <1>2, <3>1
  <2>3. 2 * zs <= 2 * xk + Scale /\ 2 * xk < 2 * zs + Scale
    BY <1>2, <1>10, <2>1, <2>2, HalfUpIs
  <2>4. Scale <= sv
    BY <1>2, <1>7, <2>2
  <2>5. 2 * Distance(zs, xk) <= sv
    BY <1>2, <2>3, <2>4 DEF Distance
  <2>6. Agree(x, z, k, from, to)
    BY <2>1, <2>2, <2>5 DEF Agree
  <2> HIDE DEF from, to
  <2> QED
    BY <1>2, <1>5, <1>6, <1>7, <2>6, AgreedPrice
<1>12. m \in MoveRow
  <2>1. <<z>> \in Seq(Nat) /\ <<x>> \in Seq(Int)
    BY <1>2
  <2> QED
    BY <1>1, <1>2, <1>5, <1>10, <2>1 DEF Move, Settlement, MoveRow
<1> HIDE DEF m
<1>13. MoveSound(m)
  <2>1. FollowsPrice(m)
    BY <1>9, <1>10, <1>11 DEF FollowsPrice, Priced
  <2>2. /\ SumFunction(<<z>>) = z /\ SumFunction(<<x>>) = x /\ Paying(<<z>>) = {1}
        /\ Cardinality(Paying(<<z>>)) = 1
    BY <1>2, OneSlice
  <2>3. m.slices = <<z>> /\ m.sources = <<x>> /\ m.applied = z /\ m.source = x
    BY <1>9, <1>10
  <2>4. m.slices[1] = z /\ m.sources[1] = x /\ x > 0
    BY <1>2, <2>3
  <2>5. Distance(x * z, x * z) <= z * 1
    <3>1. PICK y \in Nat : y = x * z
      BY <1>2
    <3>2. Distance(y, y) <= z
      BY DEF Distance
    <3> QED
      BY <3>1, <3>2
  <2>6. SharesFairly(m)
    BY <2>2, <2>3, <2>4, <2>5 DEF SharesFairly
  <2> QED
    BY <1>5, <1>9, <2>1, <2>6 DEF MoveSound
<1>14. balance' \in [Accounts -> Nat]
  <2>1. PICK y \in Nat : y = balance[a] /\ x <= y
    BY <1>1, <1>4
  <2>2. y - x \in Nat /\ a # c
    BY <1>2, <1>4, <2>1
  <2> QED
    BY <1>1, <1>4, <1>8, <2>1, <2>2
<1>15. /\ paid' = [b \in Bills |-> paid'[b]]
       /\ \A b \in Bills : /\ paid'[b] \in [DOMAIN Owed[b] -> Nat]
                           /\ \A n \in DOMAIN Owed[b] : paid'[b][n] <= Owed[b][n]
  BY <1>4 DEF FxInv, FxTypeOK, SplitsAddUp
<1> QED
  BY <1>4, <1>12, <1>13, <1>14, <1>15, AddMoveKeeps

LEMMA TickKeeps == ASSUME FxInv, Tick PROVE FxInv'
<1>1. now' = now + 1 /\ market' \in Markets /\ UNCHANGED <<offers, balance, paid, moves>>
  BY DEF Tick
<1>2. FxTypeOK'
  BY <1>1 DEF FxInv, FxTypeOK
<1>3. ASSUME NEW i \in DOMAIN offers PROVE OfferSound(offers'[i], now')
  <2>1. OfferSound(offers[i], now) /\ offers[i] \in OfferRow /\ now \in Nat
    BY DEF FxInv, FxTypeOK
  <2>2. offers[i].made \in Nat
    BY <2>1 DEF OfferRow
  <2> QED
    BY <1>1, <2>1, <2>2 DEF OfferSound
<1>4. DebitsFollowThePrice' /\ SplitsAddUp'
  BY <1>1 DEF FxInv, DebitsFollowThePrice, SplitsAddUp
<1> QED
  BY <1>1, <1>2, <1>3, <1>4 DEF FxInv

LEMMA FxStutter == ASSUME FxInv, UNCHANGED fxVars PROVE FxInv'
  BY DEF FxInv, FxTypeOK, OfferSound, DebitsFollowThePrice, SplitsAddUp, fxVars

LEMMA FxStarts == ASSUME FxInit PROVE FxInv
<1>1. FxTypeOK
  <2>1. \A b \in Bills : paid[b] \in [DOMAIN Owed[b] -> Nat]
    BY DEF FxInit
  <2> QED
    BY <2>1, FxAssumption DEF FxInit, FxTypeOK
<1>2. offers = <<>> /\ moves = <<>>
  BY DEF FxInit
<1>3. Range(moves) = {} /\ DOMAIN offers = {}
  BY <1>2 DEF Range
<1>4. \A b \in Bills : \A n \in DOMAIN Owed[b] : paid[b][n] <= Owed[b][n]
  BY Periods DEF FxInit
<1> QED
  BY <1>1, <1>3, <1>4 DEF FxInv, DebitsFollowThePrice, SplitsAddUp

(***************************************************************************)
(* Every step keeps the rates of the rows, the prices of the movements and *)
(* their slices.                                                           *)
(***************************************************************************)
THEOREM FxInvariant == FxSpec => []FxInv
<1>1. ASSUME FxInv, [FxNext]_fxVars PROVE FxInv'
  <2>1. CASE \E from, to \in Currencies :
               Snapshot(from, to) \/ \E x \in Amounts : Quote(from, to, x)
    BY <1>1, <2>1, SnapshotKeeps, QuoteKeeps
  <2>2. CASE \E a \in Accounts, b \in Bills, x \in Amounts, i \in DOMAIN offers : PayFifo(a, b, x, i)
    BY <1>1, <2>2, PayFifoKeeps
  <2>3. CASE \E a \in Accounts, b \in Bills, x \in Amounts : \E n \in DOMAIN Owed[b] :
               Preview(a, b, n, x) \/ PayNow(a, b, n, x)
    BY <1>1, <2>3, PreviewKeeps, PayNowKeeps
  <2>4. CASE \E a \in Accounts, b \in Bills, x \in Amounts : \E n \in DOMAIN Owed[b] :
               \E i \in DOMAIN offers : PayPeriod(a, b, n, x, i)
    BY <1>1, <2>4, PayPeriodKeeps
  <2>5. CASE \E a, c \in Accounts, x \in Amounts, i \in DOMAIN offers : Exchange(a, c, x, i)
    BY <1>1, <2>5, ExchangeKeeps
  <2>6. CASE Tick
    BY <1>1, <2>6, TickKeeps
  <2>7. CASE UNCHANGED fxVars
    BY <1>1, <2>7, FxStutter
  <2> QED
    BY <1>1, <2>1, <2>2, <2>3, <2>4, <2>5, <2>6, <2>7 DEF FxNext
<1> QED
  BY <1>1, FxStarts, PTL DEF FxSpec

(***************************************************************************)
(* Money changes currency at a price of at most Validity ago, to half a    *)
(* unit of each currency and the error of a stored rate, for any prices    *)
(* the column can keep, any units and any amounts.                         *)
(***************************************************************************)
THEOREM PricesAreFollowed == FxSpec => []DebitsFollowThePrice
<1>1. FxInv => DebitsFollowThePrice
  BY DEF FxInv
<1> QED
  BY <1>1, FxInvariant, PTL

(***************************************************************************)
(* The slices of a payment add up to what it debits and to what it         *)
(* applies, each within a cent per slice of its share, and no period is    *)
(* paid more than it owes.                                                 *)
(***************************************************************************)
THEOREM SlicesAddUp == FxSpec => []SplitsAddUp
<1>1. FxInv => SplitsAddUp
  BY DEF FxInv
<1> QED
  BY <1>1, FxInvariant, PTL

=============================================================================
