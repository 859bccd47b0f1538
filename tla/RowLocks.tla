------------------------------- MODULE RowLocks -------------------------------
(***************************************************************************)
(* What the services use of PostgreSQL's locking: SELECT ... FOR UPDATE    *)
(* and UPDATE take the exclusive lock of a row, an INSERT into a unique    *)
(* index takes the entry of its key; both are kept until the transaction   *)
(* commits or rolls back, and a session that wants a row another one holds *)
(* waits.  The database is not in the repository: this is the behaviour    *)
(* with_for_update() and begin_nested() rely on.                           *)
(***************************************************************************)
CONSTANTS
    Sessions,   \* database sessions, one per HTTP request being served
    Nobody,     \* the holder of a free row
    Rows        \* lockable rows and unique-index entries

ASSUME NobodyAssumption == Nobody \notin Sessions

VARIABLE lock   \* lock[row]: the session whose open transaction holds row

LockTypeOK == lock \in [Rows -> Sessions \cup {Nobody}]

LockInit == lock = [row \in Rows |-> Nobody]

Available(s, row) == lock[row] \in {s, Nobody}

Take(s, row) == lock' = [lock EXCEPT ![row] = s]

\* COMMIT or ROLLBACK of the transaction of s.
ReleaseAll(s) ==
    lock' = [row \in Rows |-> IF lock[row] = s THEN Nobody ELSE lock[row]]

=============================================================================
