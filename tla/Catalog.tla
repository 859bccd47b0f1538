-------------------------------- MODULE Catalog --------------------------------
(***************************************************************************)
(* What users name and sort their movements by: their profiles             *)
(* (app/users), their categories beside the global ones (app/categories),  *)
(* the category each income and expense is recorded under (app/cash) and   *)
(* the reclassifications that change it later and leave an audit row each  *)
(* (app/ledger/service.py).                                                *)
(*                                                                         *)
(* A reclassification locks its event, then the category it moves it to,   *)
(* FOR UPDATE both; the foreign key of the audit row shares the category   *)
(* it leaves, and its key an entry of a unique index.  It is answered once *)
(* these are inserted, and committed when the session is torn down, after  *)
(* the answer: a session may be lost in between.  The other requests read, *)
(* check, and write in one statement that commits.                         *)
(***************************************************************************)
EXTENDS Integers, Sequences, FiniteSets, RowLocks

CONSTANTS
    Users,
    Names,          \* normalized names
    Global,         \* the owner of the categories everybody may use
    Categories,     \* ids of categories, created or not
    Provided,       \* the global ones, which a migration has created
    Events,         \* ids of ledger events, recorded or not
    TypeOf,         \* income, expense, or a type that has no category to change
    Keys,           \* the idempotency keys of reclassifications
    Requests,       \* what clients may send, each any number of times
    Nothing         \* no row, no request

Types == {"income", "expense"}

\* A row of categories.
Category ==
    [owner : Users \cup {Global}, type : Types, name : Names, active : BOOLEAN]

\* A row of financial_events, and one of financial_event_reclassifications.
Event == [owner : Users, category : Categories]
Entry == [previous : Categories, new : Categories]

EditOps == {"rename", "archive", "restore"}

ASSUME CatalogAssumption ==
    /\ Global \notin Users
    /\ Provided \in [Categories -> Category \cup {Nothing}]
    /\ \A c \in Categories : Provided[c] # Nothing => Provided[c].owner = Global
    /\ \A c, d \in Categories :
         Provided[c] # Nothing /\ Provided[d] # Nothing /\ c # d =>
           <<Provided[c].type, Provided[c].name>> # <<Provided[d].type, Provided[d].name>>
    /\ TypeOf \in [Events -> Types \cup {"other"}]
    /\ Categories \cup Events \cup Keys \subseteq Rows
    /\ Categories \cap (Events \cup Keys) = {} /\ Events \cap Keys = {}
    /\ Nothing \notin Requests \cup Category \cup Event \cup Categories
    /\ \A r \in Requests :
         /\ r.op \in EditOps \cup {"bootstrap", "create", "record", "reclassify"}
         /\ r.user \in Users
         /\ r.op \in {"create", "rename"} => r.name \in Names
         /\ r.op = "create" => r.type \in Types
         /\ r.op \in EditOps \cup {"record", "reclassify"} => r.category \in Categories
         /\ r.op \in {"record", "reclassify"} => r.event \in Events
         /\ r.op = "record" => TypeOf[r.event] \in Types
         /\ r.op = "reclassify" => r.key \in Keys

VARIABLES
    profiles,   \* the users that have a row of users
    category,   \* the rows of categories
    event,      \* the rows of financial_events
    audit,      \* the reclassifications of each event, in the order of their commits
    recorded,   \* the reclassification recorded under each key, or Nothing
    pc, req,    \* where each session is, in which request
    seen,       \* the category it has read: of the event, or the one it edits
    shared      \* the categories its foreign keys share

catalogTables == <<profiles, category, event, audit, recorded>>
catalogSessions == <<lock, pc, req, seen, shared>>
catalogVars == <<catalogTables, catalogSessions>>

CatalogTypeOK ==
    /\ LockTypeOK
    /\ profiles \subseteq Users
    /\ category \in [Categories -> Category \cup {Nothing}]
    /\ event \in [Events -> Event \cup {Nothing}]
    /\ audit \in [Events -> Seq(Entry)]
    /\ recorded \in [Keys -> Requests \cup {Nothing}]
    /\ pc \in [Sessions -> {"idle", "insert", "write", "event", "category", "audit", "commit"}]
    /\ req \in [Sessions -> Requests \cup {Nothing}]
    /\ seen \in [Sessions -> Categories \cup Category \cup {Nothing}]
    /\ shared \in [Sessions -> SUBSET Categories]

CatalogInit ==
    /\ profiles = {}
    /\ category = Provided
    /\ event = [e \in Events |-> Nothing]
    /\ audit = [e \in Events |-> <<>>]
    /\ recorded = [k \in Keys |-> Nothing]
    /\ LockInit
    /\ pc = [s \in Sessions |-> "idle"]
    /\ req = [s \in Sessions |-> Nothing]
    /\ seen = [s \in Sessions |-> Nothing]
    /\ shared = [s \in Sessions |-> {}]

-----------------------------------------------------------------------------
(* Sessions and their locks *)

Leave(s) ==
    /\ ReleaseAll(s)
    /\ pc' = [pc EXCEPT ![s] = "idle"]
    /\ req' = [req EXCEPT ![s] = Nothing]
    /\ seen' = [seen EXCEPT ![s] = Nothing]
    /\ shared' = [shared EXCEPT ![s] = {}]

\* FOR UPDATE also waits for those whose foreign keys share the row.
Sharers(s, c) == {t \in Sessions \ {s} : c \in shared[t]}

Own(r, c) == category[c] # Nothing /\ category[c].owner = r.user

Found(r) == event[r.event] # Nothing /\ event[r.event].owner = r.user

Usable(r, row) ==
    /\ row # Nothing
    /\ row.owner \in {r.user, Global}
    /\ row.active
    /\ row.type = TypeOf[r.event]

\* A category of its type has the name, for the user or for everybody.
Taken(u, type, name) ==
    \E c \in Categories :
        /\ category[c] # Nothing
        /\ category[c].owner \in {u, Global}
        /\ category[c].type = type /\ category[c].name = name

(***************************************************************************)
(* A request arrives, finds its profile, and reads what it checks first,   *)
(* nothing of it locked.                                                   *)
(***************************************************************************)
Arrive(s, r) ==
    /\ pc[s] = "idle"
    /\ CASE r.op = "bootstrap"  -> r.user \notin profiles
         [] r.op = "create"     -> r.user \in profiles /\ ~Taken(r.user, r.type, r.name)
         [] r.op = "record"     -> /\ r.user \in profiles /\ event[r.event] = Nothing
                                   /\ Usable(r, category[r.category])
         [] r.op \in EditOps    -> r.user \in profiles /\ Own(r, r.category)
         [] r.op = "reclassify" -> r.user \in profiles
    /\ pc' = [pc EXCEPT ![s] = CASE r.op = "reclassify" -> "event"
                                 [] r.op \in EditOps -> "write"
                                 [] OTHER -> "insert"]
    /\ req' = [req EXCEPT ![s] = r]
    /\ seen' = [seen EXCEPT ![s] = IF r.op \in EditOps THEN category[r.category] ELSE Nothing]
    /\ UNCHANGED <<catalogTables, lock, shared>>

-----------------------------------------------------------------------------
(* Profiles, categories and movements: one statement after the checks *)

\* The unique index of users; the loser of a race is answered an error.
Bootstrap(s) ==
    LET r == req[s] IN
    /\ pc[s] = "insert" /\ r.op = "bootstrap"
    /\ r.user \notin profiles
    /\ profiles' = profiles \cup {r.user}
    /\ Leave(s)
    /\ UNCHANGED <<category, event, audit, recorded>>

\* The unique index of categories, and the check before it for the global ones.
Create(s) ==
    LET r == req[s] IN
    /\ pc[s] = "insert" /\ r.op = "create"
    /\ ~Taken(r.user, r.type, r.name)
    /\ \E c \in Categories :
         /\ category[c] = Nothing
         /\ category' = [category EXCEPT ![c] = [owner |-> r.user, type |-> r.type,
                                                  name |-> r.name, active |-> TRUE]]
    /\ Leave(s)
    /\ UNCHANGED <<profiles, event, audit, recorded>>

\* The category was checked when the request arrived, and is not read again.
Record(s) ==
    LET r == req[s] IN
    /\ pc[s] = "insert" /\ r.op = "record"
    /\ event[r.event] = Nothing
    /\ Available(s, r.category)
    /\ event' = [event EXCEPT ![r.event] = [owner |-> r.user, category |-> r.category]]
    /\ Leave(s)
    /\ UNCHANGED <<profiles, category, audit, recorded>>

RenameFree(s, r) == TRUE    \* a mutant: only new names are checked

MayRename(s, r) == r.name = seen[s].name \/ ~Taken(r.user, seen[s].type, r.name)

\* The row with what the ORM has changed of it; a new name changes its unique key.
Edited(s, r, row) ==
    CASE r.op = "rename"  -> IF r.name = seen[s].name THEN row ELSE [row EXCEPT !.name = r.name]
      [] r.op = "archive" -> IF seen[s].active THEN [row EXCEPT !.active = FALSE] ELSE row
      [] r.op = "restore" -> IF seen[s].active THEN row ELSE [row EXCEPT !.active = TRUE]

Write(s) ==
    LET r == req[s] IN
    /\ pc[s] = "write"
    /\ Available(s, r.category)
    /\ r.op = "rename" => MayRename(s, r) /\ Sharers(s, r.category) = {}
    /\ category' = [category EXCEPT ![r.category] = Edited(s, r, @)]
    /\ Leave(s)
    /\ UNCHANGED <<profiles, event, audit, recorded>>

-----------------------------------------------------------------------------
(* Reclassifications *)

LockEventRead(s) ==     \* a mutant: SELECT without FOR UPDATE
    LET r == req[s] IN
    /\ pc[s] = "event"
    /\ Found(r)
    /\ seen' = [seen EXCEPT ![s] = event[r.event].category]
    /\ pc' = [pc EXCEPT ![s] = "category"]
    /\ UNCHANGED <<catalogTables, lock, req, shared>>

LockEvent(s) ==
    LET r == req[s] IN
    /\ pc[s] = "event"
    /\ Found(r)
    /\ Available(s, r.event)
    /\ Take(s, r.event)
    /\ seen' = [seen EXCEPT ![s] = event[r.event].category]
    /\ pc' = [pc EXCEPT ![s] = "category"]
    /\ UNCHANGED <<catalogTables, req, shared>>

\* The key is known, for the same request: what is stored is answered.
KeyRetried(s) ==
    /\ pc[s] \in {"category", "audit"}
    /\ recorded[req[s].key] = req[s]
    /\ Leave(s)
    /\ UNCHANGED catalogTables

MayMove(s) ==
    LET r == req[s] IN
    /\ recorded[r.key] = Nothing
    /\ TypeOf[r.event] \in Types
    /\ seen[s] # r.category

LockCategoryRead(s) ==  \* a mutant: the category is read without its lock
    LET r == req[s] IN
    /\ pc[s] = "category"
    /\ MayMove(s)
    /\ Usable(r, category[r.category])
    /\ pc' = [pc EXCEPT ![s] = "audit"]
    /\ UNCHANGED <<catalogTables, lock, req, seen, shared>>

LockCategory(s) ==
    LET r == req[s] IN
    /\ pc[s] = "category"
    /\ MayMove(s)
    /\ Available(s, r.category) /\ Sharers(s, r.category) = {}
    /\ Usable(r, category[r.category])
    /\ Take(s, r.category)
    /\ pc' = [pc EXCEPT ![s] = "audit"]
    /\ UNCHANGED <<catalogTables, req, seen, shared>>

\* The audit row: the entry of its key, and a share of the category left.
InsertAudit(s) ==
    LET r == req[s] IN
    /\ pc[s] = "audit"
    /\ Available(s, r.key) /\ recorded[r.key] = Nothing
    /\ Available(s, seen[s])
    /\ Take(s, r.key)
    /\ shared' = [shared EXCEPT ![s] = @ \cup {seen[s]}]
    /\ pc' = [pc EXCEPT ![s] = "commit"]
    /\ UNCHANGED <<catalogTables, req, seen>>

\* The client has its answer; get_db_session commits.
Commit(s) ==
    LET r == req[s] IN
    /\ pc[s] = "commit"
    /\ event' = [event EXCEPT ![r.event].category = r.category]
    /\ audit' = [audit EXCEPT ![r.event] =
                   Append(@, [previous |-> seen[s], new |-> r.category])]
    /\ recorded' = [recorded EXCEPT ![r.key] = r]
    /\ Leave(s)
    /\ UNCHANGED <<profiles, category>>

-----------------------------------------------------------------------------
RetryInsert(s) == FALSE     \* a mutant: the insert is tried until it succeeds

\* Another reclassification has recorded the key.
KeyTaken(s) == pc[s] = "audit" /\ recorded[req[s].key] \notin {Nothing, req[s]}

\* What a request finds against it once it may read.
Refused(s) ==
    LET r == req[s] IN
    \/ /\ pc[s] = "insert"
       /\ CASE r.op = "bootstrap" -> r.user \in profiles
            [] r.op = "create"    -> Taken(r.user, r.type, r.name)
            [] r.op = "record"    -> event[r.event] # Nothing
    \/ pc[s] = "write" /\ r.op = "rename" /\ ~MayRename(s, r)
    \/ pc[s] = "event" /\ ~Found(r)
    \/ pc[s] = "category" /\ ~MayMove(s) /\ recorded[r.key] # r
    \/ /\ pc[s] = "category" /\ MayMove(s)
       /\ Available(s, r.category) /\ Sharers(s, r.category) = {}
       /\ ~Usable(r, category[r.category])
    \/ KeyTaken(s)

Refuse(s) == Refused(s) /\ Leave(s) /\ UNCHANGED catalogTables

\* A lost connection or process: rollback, though the answer may have left.
Fail(s) ==
    /\ pc[s] # "idle"
    /\ Leave(s)
    /\ UNCHANGED catalogTables

WaitsFor(s, t) ==
    LET r == req[s] IN
    /\ s # t
    /\ \/ pc[s] = "event" /\ lock[r.event] = t
       \/ pc[s] = "category" /\ (lock[r.category] = t \/ r.category \in shared[t])
       \/ pc[s] = "audit" /\ t \in {lock[r.key], lock[seen[s]]}

\* PostgreSQL aborts one of the sessions that wait for each other.
Deadlock(s) ==
    /\ \E t \in Sessions : WaitsFor(s, t) /\ WaitsFor(t, s)
    /\ Leave(s)
    /\ UNCHANGED catalogTables

Serve(s) ==
    \/ Bootstrap(s) \/ Create(s) \/ Record(s) \/ Write(s)
    \/ LockEvent(s) \/ KeyRetried(s) \/ LockCategory(s) \/ InsertAudit(s) \/ Commit(s)
    \/ Refuse(s)

CatalogStep(s) ==
    \/ \E r \in Requests : Arrive(s, r)
    \/ Serve(s) \/ Fail(s) \/ Deadlock(s)

CatalogNext == \E s \in Sessions : CatalogStep(s)

CatalogSpec == CatalogInit /\ [][CatalogNext]_catalogVars

\* Open requests are served, and the database finds a deadlock that lasts.
CatalogFairness == \A s \in Sessions : SF_catalogVars(Serve(s)) /\ WF_catalogVars(Deadlock(s))

FairCatalogSpec == CatalogSpec /\ CatalogFairness

=============================================================================
