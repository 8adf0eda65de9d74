----------------------------- MODULE AuditTrail -----------------------------
(***************************************************************************)
(* Who writes the audit chain of a SQLite database, and what leaves it.    *)
(*                                                                         *)
(* A connection runs one unit of work at a time: a decision's own audit    *)
(* row (write), a best-effort row (write_best_effort), a control operation *)
(* on the local keys or a composite one (policy apply), whose change and   *)
(* whose single audit row are one transaction, or the resolution of a key. *)
(* A committed row is announced to the anchor and to the exporter.  An     *)
(* announcement made inside a transaction waits in the connection's        *)
(* deferral scope until the commit and is dropped with a rollback.         *)
(*                                                                         *)
(* The database is a main file and a write-ahead log: commits go to the    *)
(* log, a checkpoint moves them to the main file, and the log belongs to   *)
(* the file it stands BESIDE, whichever that is when it is next opened.    *)
(***************************************************************************)
EXTENDS AuditChain, FiniteSets, SequencesExt

CONSTANTS
    Conns,       \* connections opened by connect_sqlite
    Service,     \* those of the service process
    Duties,      \* the units of work each connection is used for
    KeyIds,      \* local keys
    Owner,       \* the identity each key is for
    SeededKey,   \* the key the launch configuration names
    MaxEvents    \* bound on the rows ever committed

None == "none"
Exclusive == "exclusive"
Units == {None, "write", "reject", "rotate", "revoke", "create", "composite", "resolve"}

ASSUME TrailAssumption ==
    /\ Service \subseteq Conns /\ Conns \cap {None, Exclusive} = {}
    /\ Duties \in [Conns -> SUBSET (Units \ {None})]
    /\ Owner \in [KeyIds -> STRING]
    /\ SeededKey \in KeyIds
    /\ MaxEvents \in Nat

VARIABLES
    main,      \* the main file: which file it is, and its content
    wal,       \* the -wal beside it: the file it was written for, and the content it gives
    lease,     \* connections holding the shared lease, or {Exclusive}
    inode,     \* the file each open connection has open
    writer,    \* the connection holding SQLite's write lock
    state,     \* the step of each connection's unit of work
    work,      \* the content its open transaction would commit
    scope,     \* its deferral scope
    due,       \* the announcements it has to make before it goes on
    key,       \* the key it works on
    seen,      \* the status it read for that key
    anchored,  \* the anchor's chain-head records
    history,   \* every chain head ever committed
    damaged    \* whether the rows were changed behind the writers' back

connVars == <<inode, state, work, scope, due, key, seen>>
connVarsButDue == <<inode, state, work, scope, key, seen>>
fileVars == <<main, wal, lease>>
trailVars == <<fileVars, connVars, writer, anchored, history, damaged>>

KeyUnits == {"rotate", "revoke", "create"}

\* A new database: the schema and nothing in it.
Empty == [rows |-> <<>>, keys |-> [k \in KeyIds |-> None], operations |-> 0]

\* Where there is no database to speak of.
NoContent == [Empty EXCEPT !.operations = -1]
Corrupt == [Empty EXCEPT !.operations = -2]

NoLog == [of |-> 0, content |-> NoContent]
NoScope == [open |-> FALSE, held |-> <<>>]
NewScope == [open |-> TRUE, held |-> <<>>]

\* What an opener reads: SQLite replays whatever log stands beside the main file.
db ==
    IF wal = NoLog THEN main.content
    ELSE IF wal.of = main.id THEN wal.content
    ELSE Corrupt

TrailInit ==
    /\ main = [id |-> 1, content |-> Empty] /\ wal = NoLog /\ lease = {}
    /\ inode = [c \in Conns |-> 0]
    /\ writer = None
    /\ state = [c \in Conns |-> "closed"]
    /\ work = [c \in Conns |-> NoContent]
    /\ scope = [c \in Conns |-> NoScope]
    /\ due = [c \in Conns |-> <<>>]
    /\ key = [c \in Conns |-> None]
    /\ seen = [c \in Conns |-> None]
    /\ anchored = {} /\ history = {} /\ damaged = FALSE

------------------------------------------------------------------------------
(* The connection: a shared lease for its whole life.                      *)

Open(c) ==
    /\ state[c] = "closed" /\ Exclusive \notin lease /\ db # Corrupt
    /\ lease' = lease \cup {c}
    /\ inode' = [inode EXCEPT ![c] = main.id]
    /\ state' = [state EXCEPT ![c] = IF c \in Service THEN "seeding" ELSE "idle"]
    /\ UNCHANGED <<main, wal, work, scope, due, key, seen,
                   writer, anchored, history, damaged>>

\* The last connection to close moves the log into the main file.
Leave(c) ==
    /\ lease' = lease \ {c}
    /\ state' = [state EXCEPT ![c] = "closed"]
    /\ inode' = [inode EXCEPT ![c] = 0]
    /\ IF lease = {c} /\ wal # NoLog /\ db # Corrupt
       THEN main' = [main EXCEPT !.content = db] /\ wal' = NoLog
       ELSE UNCHANGED <<main, wal>>

Close(c) ==
    /\ state[c] = "idle" /\ due[c] = <<>>
    /\ Leave(c)
    /\ UNCHANGED <<work, scope, due, key, seen, writer, anchored, history, damaged>>

(* A launch makes sure of its seeded key before it serves: it reads it, and *)
(* creates it in a transaction of its own when it is missing.  A revoked    *)
(* key, or one that appeared in between, fails the launch.                  *)
ReadSeededKey(c) ==
    /\ state[c] = "seeding" /\ db # Corrupt
    /\ CASE db.keys[SeededKey] = "active" ->
              state' = [state EXCEPT ![c] = "idle"] /\ UNCHANGED <<fileVars, inode>>
         [] db.keys[SeededKey] = "revoked" -> Leave(c)
         [] OTHER ->
              state' = [state EXCEPT ![c] = "creating"] /\ UNCHANGED <<fileVars, inode>>
    /\ UNCHANGED <<work, scope, due, key, seen, writer, anchored, history, damaged>>

Seeds(keys) == [keys EXCEPT ![SeededKey] = "active"]

CreateSeededKey(c) ==
    /\ state[c] = "creating" /\ writer = None /\ db # Corrupt
    /\ IF db.keys[SeededKey] = None
       THEN /\ wal' = [of |-> main.id, content |-> [db EXCEPT !.keys = Seeds(@)]]
            /\ state' = [state EXCEPT ![c] = "idle"]
            /\ UNCHANGED <<main, lease, inode>>
       ELSE Leave(c)
    /\ UNCHANGED <<work, scope, due, key, seen, writer, anchored, history, damaged>>

\* A process dies: transactions, scopes and leases go, the files stay.
Dies(procs) ==
    /\ lease' = lease \ procs
    /\ inode' = [c \in Conns |-> IF c \in procs THEN 0 ELSE inode[c]]
    /\ state' = [c \in Conns |-> IF c \in procs THEN "closed" ELSE state[c]]
    /\ work' = [c \in Conns |-> IF c \in procs THEN NoContent ELSE work[c]]
    /\ scope' = [c \in Conns |-> IF c \in procs THEN NoScope ELSE scope[c]]
    /\ due' = [c \in Conns |-> IF c \in procs THEN <<>> ELSE due[c]]
    /\ key' = [c \in Conns |-> IF c \in procs THEN None ELSE key[c]]
    /\ seen' = [c \in Conns |-> IF c \in procs THEN None ELSE seen[c]]
    /\ writer' = IF writer \in procs THEN None ELSE writer
    /\ UNCHANGED <<anchored, history, damaged>>

Crash ==
    \E procs \in {Service} \cup {{c} : c \in Conns \ Service} :
        /\ \E c \in procs : state[c] # "closed"
        /\ Dies(procs)
        /\ UNCHANGED <<main, wal>>

------------------------------------------------------------------------------
(* Announcements: to the anchor, then to the exporter (AuditExport); both  *)
(* are fail-open.                                                          *)

Announcement(row) == <<[seq |-> row.seq, hash |-> row.hash]>>

\* Variant: emissions run where they are made, whatever transaction is open.
EmitAtOnce(c, news) ==
    due' = [due EXCEPT ![c] = @ \o news] /\ UNCHANGED scope

\* emit_or_defer: into the innermost scope of the connection, else at once.
EmitOrDefer(c, news) ==
    IF scope[c].open
    THEN scope' = [scope EXCEPT ![c].held = @ \o news] /\ UNCHANGED due
    ELSE due' = [due EXCEPT ![c] = @ \o news] /\ UNCHANGED scope

Announce(c) ==
    /\ due[c] # <<>>
    /\ due' = [due EXCEPT ![c] = Tail(@)]
    /\ \/ anchored' = anchored \cup {Head(due[c])}
       \/ UNCHANGED anchored
    /\ UNCHANGED <<fileVars, inode, state, work, scope, key, seen, writer, history, damaged>>

------------------------------------------------------------------------------
(* Transactions.                                                           *)

May(c, u) == state[c] = "idle" /\ due[c] = <<>> /\ u \in Duties[c]

\* BEGIN IMMEDIATE can be had: the write lock is free.
MayBegin(c, u) == May(c, u) /\ writer = None /\ db # Corrupt /\ Cardinality(history) < MaxEvents

\* The transaction is over: with a commit or a rollback, the scope is gone.
EndTransaction(c) ==
    /\ state' = [state EXCEPT ![c] = "idle"]
    /\ work' = [work EXCEPT ![c] = NoContent]
    /\ scope' = [scope EXCEPT ![c] = NoScope]
    /\ key' = [key EXCEPT ![c] = None]
    /\ seen' = [seen EXCEPT ![c] = None]
    /\ writer' = IF writer = c THEN None ELSE writer
    /\ UNCHANGED inode

Hashes(content) == {content.rows[i].hash : i \in DOMAIN content.rows}

\* An event's identity: no two committed rows share it.
NewEvent(kind, content) == <<kind, Cardinality(history \cup Hashes(content)) + 1>>

WithRow(content, kind) ==
    [content EXCEPT !.rows = Append(@, NextRow(@, NewEvent(kind, content)))]

LastRow(content) == content.rows[Len(content.rows)]

Log(content) == wal' = [of |-> main.id, content |-> content]

CommitContent(content) ==
    /\ Log(content)
    /\ history' = history \cup Hashes(content)
    /\ UNCHANGED <<main, lease>>

\* Anything raised before the commit, and a commit that fails: roll back, drop the scope.
Rollback(c) ==
    /\ state[c] \in {"changed", "written", "snapshot", "touching"} /\ due[c] = <<>>
    /\ EndTransaction(c)
    /\ UNCHANGED <<fileVars, due, anchored, history, damaged>>

------------------------------------------------------------------------------
(* SQLiteAuditWriter.write outside a transaction: one transaction, which   *)
(* nobody sees before it commits, then the announcement.                   *)
Write(c) ==
    /\ MayBegin(c, "write")
    /\ LET content == WithRow(db, "decision")
       IN  /\ CommitContent(content)
           /\ due' = [due EXCEPT ![c] = Announcement(LastRow(content))]
    /\ UNCHANGED <<connVarsButDue, writer, anchored, damaged>>

(* write_best_effort outside a transaction: a savepoint, whose head is read *)
(* before the write lock is held; a newer commit makes the insert fail.     *)
OpenSavepoint(c) ==
    /\ May(c, "reject") /\ db # Corrupt /\ Cardinality(history) < MaxEvents
    /\ state' = [state EXCEPT ![c] = "snapshot"]
    /\ work' = [work EXCEPT ![c] = db]
    /\ scope' = [scope EXCEPT ![c] = NewScope]
    /\ UNCHANGED <<fileVars, inode, due, key, seen, writer, anchored, history,
                   damaged>>

SnapshotIsCurrent(c) == writer = None /\ work[c] = db

ReleaseSavepoint(c) ==
    /\ state[c] = "snapshot" /\ SnapshotIsCurrent(c)
    /\ LET content == WithRow(work[c], "decision")
       IN  /\ CommitContent(content)
           /\ due' = [due EXCEPT ![c] = Announcement(LastRow(content))]
    /\ EndTransaction(c)
    /\ UNCHANGED <<anchored, damaged>>

------------------------------------------------------------------------------
(* Control operations: one transaction for the change and its audit row.   *)

SameOwner(k) == {j \in KeyIds : Owner[j] = Owner[k]}

\* _revoke_prior: the other active keys of the identity.
Prior(keys, k) == {j \in SameOwner(k) \ {k} : keys[j] = "active"}

KeysAfter(u, keys, k) ==
    CASE u = "create" -> [keys EXCEPT ![k] = "active"]
      [] u = "revoke" -> [keys EXCEPT ![k] = "revoked"]
      [] u = "rotate" -> [j \in KeyIds |-> IF j = k THEN "active"
                                           ELSE IF j \in Prior(keys, k) THEN "revoked"
                                           ELSE keys[j]]

\* A new key has a fresh id; revoking an unknown or a revoked key changes nothing.
KeyFits(u, keys, k) == keys[k] = (IF u = "revoke" THEN "active" ELSE None)

\* A transaction with a deferral scope of its own, and the first change in it.
BeginControl(c, u, content) ==
    /\ MayBegin(c, u)
    /\ writer' = c
    /\ state' = [state EXCEPT ![c] = "changed"]
    /\ scope' = [scope EXCEPT ![c] = NewScope]
    /\ work' = [work EXCEPT ![c] = [content EXCEPT !.operations = @ + 1]]
    /\ UNCHANGED <<fileVars, inode, due, key, seen, anchored, history, damaged>>

ChangeKeys(c) ==
    \E u \in KeyUnits, k \in KeyIds :
        /\ KeyFits(u, db.keys, k)
        /\ BeginControl(c, u, [db EXCEPT !.keys = KeysAfter(u, @, k)])

(* composite(): the changes inside record nothing of their own; only after *)
(* a successful exit is the operation's single event written.              *)
ChangeInComposite(c) == BeginControl(c, "composite", db)

\* ControlPlaneAuditor.record, joined to the open transaction.
Record(c) ==
    /\ state[c] = "changed"
    /\ work' = [work EXCEPT ![c] = WithRow(@, "control")]
    /\ EmitOrDefer(c, Announcement(LastRow(work'[c])))
    /\ state' = [state EXCEPT ![c] = "written"]
    /\ UNCHANGED <<fileVars, inode, key, seen, writer, anchored, history, damaged>>

\* A rejection recorded inside the transaction: its savepoint is kept or rolled back alone.
RecordRejection(c) ==
    /\ state[c] = "changed" /\ work[c].rows = db.rows
    /\ Cardinality(history) + 1 < MaxEvents
    /\ work' = [work EXCEPT ![c] = WithRow(@, "decision")]
    /\ EmitOrDefer(c, Announcement(LastRow(work'[c])))
    /\ UNCHANGED <<fileVars, inode, state, key, seen, writer, anchored, history, damaged>>

\* Variant: an operation that recorded nothing is not refused.
CommittableUnrecorded(c) == state[c] \in {"changed", "written"}

Committable(c) == state[c] = "written"

CommitControl(c) ==
    /\ Committable(c) /\ due[c] = <<>>
    /\ CommitContent(work[c])
    /\ due' = [due EXCEPT ![c] = scope[c].held]
    /\ EndTransaction(c)
    /\ UNCHANGED <<anchored, damaged>>

------------------------------------------------------------------------------
(* get_by_raw_key: read the record, then touch last_used_at; the answer is *)
(* given from the record that was read.                                    *)

ReadKey(c) ==
    /\ May(c, "resolve") /\ db # Corrupt
    /\ \E k \in KeyIds :
        /\ db.keys[k] = "active"
        /\ key' = [key EXCEPT ![c] = k]
        /\ seen' = [seen EXCEPT ![c] = db.keys[k]]
    /\ state' = [state EXCEPT ![c] = "touching"]
    /\ UNCHANGED <<fileVars, inode, work, scope, due, writer, anchored, history,
                   damaged>>

\* Variant: the record that was read is written back whole.
TouchedRecord(c) == [db EXCEPT !.keys[key[c]] = seen[c]]

\* Only last_used_at is written: the content the model keeps stays as it is.
Touched(c) == db

TouchKey(c) ==
    /\ state[c] = "touching" /\ writer = None
    /\ Log(Touched(c))
    /\ EndTransaction(c)
    /\ UNCHANGED <<main, lease, due, anchored, history, damaged>>
=============================================================================
