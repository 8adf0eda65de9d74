----------------------------- MODULE StorageOps -----------------------------
(***************************************************************************)
(* backup, reset and restore of a SQLite database beside the connections   *)
(* of AuditTrail, with a crash of any process and a power loss anywhere.   *)
(*                                                                         *)
(* A new database is built in a temporary file and renamed over the old    *)
(* one under an exclusive lease.  A removal or a rename is durable only    *)
(* once the directory was synced: until then a power loss may undo either, *)
(* independently of the other.                                             *)
(***************************************************************************)
EXTENDS AuditTrail

CONSTANTS
    MaxOps,      \* bound on the storage operations and on damage to the files
    MaxFaults    \* bound on power losses

ASSUME StorageAssumption == MaxOps \in Nat /\ MaxFaults \in Nat

VARIABLES
    op,        \* the storage operation in progress and its next step
    built,     \* the temporary file it has built
    snapshot,  \* the backup file
    synced,    \* the directory as of the last sync: the main file and its log
    ops,       \* operations started, and damage done
    faults     \* power losses so far

opVars == <<op, built, snapshot, synced, ops>>
vars == <<trailVars, opVars, faults>>

Idling == [kind |-> None, step |-> None]
Partial == [Empty EXCEPT !.operations = -3]
Kinds == {"backup", "reset", "restore"}

Init ==
    /\ TrailInit
    /\ op = Idling /\ built = NoContent /\ snapshot = NoContent
    /\ synced = [main |-> main, wal |-> wal]
    /\ ops = 0 /\ faults = 0

At(step) == op.step = step
Goto(step) == op' = [op EXCEPT !.step = step]
Files(m, w) == main' = m /\ wal' = w
Elsewhere == UNCHANGED <<connVars, writer, anchored, history, damaged>>

------------------------------------------------------------------------------
\* What a checkpoint makes of the main file: all that the log holds.
Checkpointed == IF db = Corrupt THEN main ELSE [main EXCEPT !.content = db]

(* A command reads the database over connections of its own that take no   *)
(* lease (read_audit_chain_head, the source of backup_sqlite) and closes    *)
(* them at once.  As the last one to close, such a connection moves the log *)
(* into the main file; the removal of the log is not yet durable.           *)
UnleasedConnectionCloses ==
    \/ UNCHANGED <<main, wal, synced>>
    \/ /\ lease = {} /\ wal # NoLog /\ db # Corrupt
       /\ Files(Checkpointed, NoLog)
       /\ synced' = [synced EXCEPT !.main = Checkpointed]

(* The operation announces itself and the head it found (a storage-op      *)
(* record, which verification skips) before anything is replaced or locked. *)
Trace ==
    /\ op = Idling /\ ops < MaxOps
    /\ \E k \in Kinds : op' = [kind |-> k, step |-> "start"]
    /\ ops' = ops + 1
    /\ UnleasedConnectionCloses
    /\ UNCHANGED <<lease, built, snapshot>> /\ Elsewhere

\* An operation that fails or ends leaves no temporary file and no lease.
Quit ==
    /\ op' = Idling /\ built' = NoContent
    /\ lease' = lease \ {Exclusive}

\* backup_sqlite --force: the previous backup is removed before the copy is made.
RemoveOldBackup ==
    /\ At("start") /\ op.kind = "backup" /\ db # Corrupt
    /\ snapshot' = Partial
    /\ Goto("copy")
    /\ UNCHANGED <<fileVars, built, synced, ops>> /\ Elsewhere

CopyToBackup ==
    /\ At("copy") /\ db # Corrupt
    /\ snapshot' = db
    /\ Quit
    /\ UnleasedConnectionCloses
    /\ UNCHANGED ops /\ Elsewhere

Restorable == snapshot \notin {NoContent, Partial} /\ VerifyChain(snapshot.rows)

Build ==
    /\ At("start")
    /\ \/ op.kind = "reset" /\ built' = Empty
       \/ op.kind = "restore" /\ Restorable /\ built' = snapshot
    /\ Goto("lease")
    /\ UNCHANGED <<fileVars, snapshot, synced, ops>> /\ Elsewhere

\* Anything that raises before the swap: an unusable input, a lease in use, a busy checkpoint.
Fail ==
    /\ op.step \in {"start", "copy", "lease", "neutralize"}
    /\ Quit
    /\ UNCHANGED <<main, wal, snapshot, synced, ops>> /\ Elsewhere

\* exclusive_sqlite_database_lease: only when no connection is open.
LeaseIsFree == lease = {}

TakeLease ==
    /\ At("lease") /\ LeaseIsFree
    /\ lease' = lease \cup {Exclusive}
    /\ Goto("neutralize")
    /\ UNCHANGED <<main, wal, built, snapshot, synced, ops>> /\ Elsewhere

\* _neutralize_replaced_sidecars: checkpoint what the log holds, then remove it.
Neutralize ==
    /\ At("neutralize")
    /\ Files(Checkpointed, NoLog)
    /\ synced' = [synced EXCEPT !.main = Checkpointed]
    /\ Goto("sync")
    /\ UNCHANGED <<lease, built, snapshot, ops>> /\ Elsewhere

\* Variant: the directory is synced only after the rename.
RenameUnsynced ==
    /\ At("sync")
    /\ Goto("swap")
    /\ UNCHANGED <<fileVars, built, snapshot, synced, ops>> /\ Elsewhere

\* _fsync_dir before the rename: the removal of the log is durable first.
SyncRemoval ==
    /\ At("sync")
    /\ synced' = [main |-> main, wal |-> wal]
    /\ Goto("swap")
    /\ UNCHANGED <<fileVars, built, snapshot, ops>> /\ Elsewhere

Swap ==
    /\ At("swap")
    /\ Files([id |-> main.id + 1, content |-> built], wal)
    /\ Goto("syncswap")
    /\ UNCHANGED <<lease, built, snapshot, synced, ops>> /\ Elsewhere

FinishSwap ==
    /\ At("syncswap")
    /\ synced' = [main |-> main, wal |-> wal]
    /\ Quit
    /\ UNCHANGED <<main, wal, snapshot, ops>> /\ Elsewhere

OpNext ==
    \/ Trace \/ RemoveOldBackup \/ CopyToBackup \/ Build \/ Fail
    \/ TakeLease \/ Neutralize \/ SyncRemoval \/ Swap \/ FinishSwap

------------------------------------------------------------------------------
(* Faults.                                                                 *)

ProcessDies ==
    /\ Crash
    /\ UNCHANGED opVars

\* The command is killed: its lease goes with it, the temporary file stays as garbage.
CommandDies ==
    /\ op # Idling
    /\ Quit
    /\ UNCHANGED <<main, wal, snapshot, synced, ops>> /\ Elsewhere

\* Every process stops; each unsynced directory change may have been lost.  With
\* nothing unsynced this is a ProcessDies for each process and a CommandDies.
PowerLoss ==
    /\ synced # [main |-> main, wal |-> wal]
    /\ \E m \in {main, synced.main}, w \in {wal, synced.wal} :
        /\ Files(m, w)
        /\ synced' = [main |-> m, wal |-> w]
    /\ op' = Idling /\ built' = NoContent
    /\ Dies(Conns \cup {Exclusive})
    /\ UNCHANGED <<snapshot, ops>>

Fault ==
    \/ (ProcessDies \/ CommandDies) /\ UNCHANGED faults
    \/ faults < MaxFaults /\ faults' = faults + 1 /\ PowerLoss

(* Rows changed outside the service, at rest: one dropped from the end or  *)
(* the middle, one altered in its JSON or its column, and one altered with *)
(* its own hash computed anew.                                             *)
Altered(rows, i) ==
    LET other == <<"altered", i>>
    IN  {[rows EXCEPT ![i].event = other],
         [rows EXCEPT ![i].column = other],
         [rows EXCEPT ![i].event = other, ![i].column = other,
                      ![i].hash = row_hash(rows[i].seq, other, rows[i].prev)]}

Tampered(rows) ==
    UNION {Altered(rows, i) \cup {RemoveAt(rows, i)} : i \in DOMAIN rows}

Tamper ==
    /\ ops < MaxOps /\ ops' = ops + 1 /\ damaged' = TRUE
    /\ lease = {} /\ op = Idling /\ wal = NoLog /\ db # Corrupt
    /\ \E rows \in Tampered(db.rows) : main' = [main EXCEPT !.content.rows = rows]
    /\ synced' = [synced EXCEPT !.main = main']
    /\ UNCHANGED <<wal, lease, connVars, writer, anchored, history,
                   op, built, snapshot, faults>>

------------------------------------------------------------------------------
ConnStep(c) ==
    \/ Open(c) \/ ReadSeededKey(c) \/ CreateSeededKey(c) \/ Close(c)
    \/ Write(c) \/ OpenSavepoint(c) \/ ReleaseSavepoint(c)
    \/ ChangeKeys(c) \/ ChangeInComposite(c) \/ Record(c) \/ RecordRejection(c)
    \/ CommitControl(c) \/ Rollback(c) \/ Announce(c)
    \/ ReadKey(c) \/ TouchKey(c)

\* SQLite syncs the directory itself when it first syncs a log it has created.
TrailStep ==
    /\ \E c \in Conns : ConnStep(c)
    /\ synced' = IF <<main, wal>>' = <<main, wal>> THEN synced ELSE [main |-> main', wal |-> wal']
    /\ UNCHANGED <<op, built, snapshot, ops, faults>>

Next ==
    \/ TrailStep
    \/ OpNext /\ UNCHANGED faults
    \/ Fault
    \/ Tamper

Spec == Init /\ [][Next]_vars

------------------------------------------------------------------------------
(* What is announced to the anchor and the exporter, made or about to be,   *)
(* names a row that was committed: an announcement made inside a            *)
(* transaction waits for its commit and goes with its rollback              *)
(* (sqlite_txn.py atomic_write_deferral / emit_or_defer).                   *)
OnlyCommittedRowsLeave ==
    \A record \in anchored \cup UNION {Range(due[c]) : c \in Conns} : record.hash \in history

ControlRows(rows) == {i \in DOMAIN rows : rows[i].event[1] = "control"}

(* Every committed control operation has exactly one control row in the     *)
(* chain that is committed with it, after crashes, power losses and swaps   *)
(* too (control_audit.py record / composite, key_ops.py).                   *)
ControlChangesAreAudited ==
    db # Corrupt /\ ~damaged => Cardinality(ControlRows(db.rows)) = db.operations

Story(rows) == [i \in DOMAIN rows |-> <<rows[i].seq, rows[i].event>>]

(* Rows that pass `audit verify --against-anchor` are the whole history the *)
(* last anchor record was made from, and continue every earlier one: no row *)
(* altered, dropped or lost in a restore after it was anchored goes         *)
(* unnoticed (verify_chain, verify_against_anchor).                         *)
VerifiedHistoryIsAnchored ==
    db # Corrupt /\ VerifyChain(db.rows) /\ VerifyAgainstAnchor(db.rows, anchored)
    => /\ \A record \in anchored : IsPrefix(record.hash, Story(db.rows))
       /\ db.rows # <<>> => \E record \in anchored : record.hash = Story(db.rows)
       /\ \A i \in DOMAIN db.rows : db.rows[i].column = db.rows[i].event

(* Whatever is interrupted, an opener finds one database and the log that   *)
(* belongs to it, and no connection is left on a file that was replaced     *)
(* (storage_ops.py _atomic_replace_sqlite, the lease of connect_sqlite).    *)
DatabaseIsWhole ==
    /\ db # Corrupt
    /\ \A c \in Conns \cap lease : inode[c] = main.id

\* A storage operation, or a power loss that undid one, put another file in place.
Swapped == main'.id # main.id

(* A revoked key stays revoked unless the database is replaced: a request   *)
(* that read it before the revocation and touches it afterwards does not    *)
(* bring it back (keys.py get_by_raw_key / revoke_key).                     *)
RevocationSticks ==
    [][db # Corrupt /\ db' # Corrupt /\ ~Swapped
       => \A k \in KeyIds : db.keys[k] = "revoked" => db'.keys[k] = "revoked"]_vars
=============================================================================
