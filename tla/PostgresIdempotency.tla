------------------------ MODULE PostgresIdempotency ------------------------
(***************************************************************************)
(* Keyed mutations and the key lifecycle on PostgreSQL.                    *)
(*                                                                         *)
(* A process has ONE connection, shared by its request threads: its lock   *)
(* is held for a whole transaction.  A commit whose acknowledgement is     *)
(* lost (AmbiguousCommitError) makes the process drop the connection, but  *)
(* the server may still be committing: such a transaction is an ORPHAN,    *)
(* which keeps its locks until the server commits it or rolls it back.     *)
(*                                                                         *)
(* Who may write is attested by a session-level shared advisory lock on    *)
(* the active key version, taken by every connection of a service and lost *)
(* with it; draining and retiring a version take it exclusively.           *)
(*                                                                         *)
(* The rows are those of Idempotency; a transaction whose row locks make   *)
(* the moment of its commit unobservable (reserving, claiming, disabling)  *)
(* is one step.  Every version is registered.                              *)
(***************************************************************************)
EXTENDS Integers, FiniteSets

CONSTANTS
    Procs,          \* service processes
    Threads,        \* request threads
    Home,           \* the process of each thread
    Keys,           \* result identities
    Fingerprints,   \* request fingerprints
    Versions,       \* cipher key version labels
    Nonces,         \* what the random source may return
    Keyrings,       \* configurations of a service
    OperatorRing,   \* the configuration of the operator's command
    MaxTTL,         \* longest life of a stored result
    RemovalWindow,  \* IDEMPOTENCY_REMOVAL_WINDOW_SECONDS
    HardLimit,      \* HARD_SLOT_LIMIT
    MaxTime,        \* bound on the database clock
    MaxClosing      \* bound on the processes being closed at a time

ASSUME PgAssumption ==
    /\ Home \in [Threads -> Procs]
    /\ Keys # {} /\ Fingerprints # {} /\ Keyrings # {}
    /\ Keyrings \cup {OperatorRing} \subseteq [active : Versions, keys : SUBSET Versions]
    /\ \A ring \in Keyrings \cup {OperatorRing} : ring.active \in ring.keys
    /\ MaxTTL \in Nat \ {0}
    /\ RemovalWindow \in Nat /\ RemovalWindow >= MaxTTL
    /\ HardLimit \in Nat /\ MaxTime \in Nat /\ MaxClosing \in Nat

VARIABLES
    now,        \* clock_timestamp(), in seconds
    slots,      \* reserved_encryption_slots of each version
    disabled,   \* write_disabled_reason of each version, "" when NULL
    drainedAt,  \* drain_completed_epoch of each version, Never when NULL
    retired,    \* versions with a retired_epoch
    ledger,     \* rows of idempotency_cipher_nonces
    claimed,    \* the rows whose claimed_at_epoch is set
    results,    \* rows of idempotency_results
    conn,       \* the connection of each process
    ring,       \* the keyring of each process
    registered, \* the processes whose service attests that it may write
    pc,         \* the next transaction or statement of each thread's request
    req,        \* the request of each thread
    epoch,      \* now_epoch captured by execute
    rsv,        \* the reservation the request holds, if any
    pending,    \* the effect its open transaction has yet to commit, if any
    reply,      \* the answer to the last request
    orphans,    \* transactions the server has yet to commit or roll back
    op,         \* the operator's command under way
    told,       \* history: what the operator was told has been done
    performed   \* history: every committed effect

versionVars == <<slots, disabled, drainedAt, retired>>
rowVars == <<ledger, claimed, results>>
threadVars == <<pc, req, epoch, rsv, pending, reply>>
vars == <<now, versionVars, rowVars, conn, ring, registered, threadVars, orphans, op, told, performed>>

Never == -1
Requests == [key : Keys, fp : Fingerprints]
Reservation == [ver : Versions, nonce : Nonces, slot : Nat, key : Keys, fp : Fingerprints]
Effect == [key : Keys, fp : Fingerprints, ver : Versions, nonce : Nonces, at : Nat, exp : Nat]

\* "open"; "none": lost, noticed or not, quarantined or given up,
\* to be replaced by the next use; "down": the process does not run.
ConnStates == {"open", "none", "down"}
Stages == {"idle", "lookup", "reserve", "disable", "recheck", "claim", "lock", "evaluate",
           "commit"}
\* write_disabled_reason: the operator's, or one of the service's own.
Reasons == {"", "rotation", "own"}
\* Stages inside a transaction that spans several steps.
InTransaction == {"evaluate", "commit"}

\* An answer is known by the effect it reports: none, but for a response.
NoReply == {}
Conflict == {}
Unavailable == {}
Response(e) == {e}

NoCommand == [what |-> "none", ver |-> OperatorRing.active, stage |-> "idle"]
Commands == {"disable", "drain", "retire"}
NoRing == CHOOSE keyring \in Keyrings : TRUE
NoRequest == CHOOSE r \in Requests : TRUE
-----------------------------------------------------------------------------
\* Orphaned completions, whose ver is the lock their session holds shared,
\* and orphaned commands, whose ver is the version they hold exclusively.  The
\* lock of a process that is being closed has been released.
Orphan == [kind : {"complete", "drain", "retire"}, ver : Versions,
           effect : SUBSET Effect, at : Nat, lock : {"held", "released"}]
OrphanEffects == {o \in orphans : o.kind = "complete"}
OrphanCommands == {o \in orphans : o.kind \in Commands}

\* Advisory locks, by who holds them.  A session keeps its shared lock while
\* the server works on its last transaction.
SharedHeld(v) ==
    \/ \E p \in Procs : p \in registered /\ conn[p] = "open" /\ ring[p].active = v
    \/ \E o \in OrphanEffects : o.ver = v /\ o.lock = "held"

ExclusiveHeld(v) ==
    \/ op.ver = v /\ op.stage = "apply" /\ op.what # "disable"
    \/ \E o \in OrphanCommands : o.ver = v

KeyHeld(k) ==
    \/ \E t \in Threads : pc[t] \in InTransaction /\ req[t].key = k
    \/ \E o \in OrphanEffects : \E e \in o.effect : e.key = k

\* Variant: the exclusive lock is granted over shared holders.
ExclusiveFreeOfCommands(v) == ~ExclusiveHeld(v)

\* _try_exclusive: pg_try_advisory_lock on the version's carrier.
ExclusiveFree(v) == ~SharedHeld(v) /\ ~ExclusiveHeld(v)

\* An UPDATE of a version's row waits for one that is not yet decided.
RowFree(v) == \A o \in OrphanCommands : o.ver # v

\* The thread may open a transaction: the connection works, and no other
\* thread of the process is inside one (SerializedPostgresConnection._lock).
Connected(t) ==
    /\ conn[Home[t]] = "open"
    /\ \A u \in Threads : Home[u] = Home[t] => pc[u] \notin InTransaction

Row(k) == {r \in results : r.key = k}
Readable(r, keyring) == r.ver \in keyring.keys
Usable(v) == disabled[v] = "" /\ v \notin retired

\* classify_completed_result: authentication, then expiry, then fingerprint.
Proceeds(k, keyring, t) == \A r \in Row(k) : Readable(r, keyring) /\ r.exp <= t
LiveRows(k, keyring, t) == {r \in Row(k) : Readable(r, keyring) /\ r.exp > t}
\* A request ends with the given answer.
Finish(t, answer) ==
    /\ pc' = [pc EXCEPT ![t] = "idle"]
    /\ epoch' = [epoch EXCEPT ![t] = 0]
    /\ rsv' = [rsv EXCEPT ![t] = {}]
    /\ pending' = [pending EXCEPT ![t] = {}]
    /\ reply' = [reply EXCEPT ![t] = answer]
    /\ UNCHANGED req

\* _quarantine_locked: the connection is closed and forgotten.
Quarantine(p) == conn' = [conn EXCEPT ![p] = "none"]

Answer(t, answer) == Finish(t, answer) /\ UNCHANGED conn
GiveUp(t) == Answer(t, Unavailable)

\* A commit without an acknowledgement: 503, and nobody uses the connection
\* again.
LoseCommit(t) == Finish(t, Unavailable) /\ Quarantine(Home[t])

GoTo(t, stage) ==
    /\ pc' = [pc EXCEPT ![t] = stage]
    /\ UNCHANGED <<req, epoch, rsv, pending, reply, conn>>

AnswerFromRow(t, at) ==
    \/ \E r \in LiveRows(req[t].key, ring[Home[t]], at) :
          Answer(t, IF r.fp = req[t].fp THEN Response(r) ELSE Conflict)
    \/ GiveUp(t)             \* an unreadable row, or any database error
    \/ LoseCommit(t)

\* execute reads the database's epoch before anything else.
Receive(t, r) ==
    /\ pc[t] = "idle" /\ Connected(t)
    /\ pc' = [pc EXCEPT ![t] = "lookup"]
    /\ req' = [req EXCEPT ![t] = r]
    /\ epoch' = [epoch EXCEPT ![t] = now]
    /\ reply' = [reply EXCEPT ![t] = NoReply]
    /\ UNCHANGED <<now, versionVars, rowVars, conn, ring, registered, rsv, pending, orphans,
                   op, told, performed>>

\* lookup_on_current_postgres_connection, judged at the captured epoch.
Lookup(t) ==
    /\ pc[t] = "lookup" /\ Connected(t)
    /\ \/ AnswerFromRow(t, epoch[t])
       \/ /\ Proceeds(req[t].key, ring[Home[t]], epoch[t])
          /\ pc' = [pc EXCEPT ![t] = "reserve"]
          /\ epoch' = [epoch EXCEPT ![t] = 0]      \* not used again
          /\ UNCHANGED <<req, rsv, pending, reply, conn>>
    /\ UNCHANGED <<now, versionVars, rowVars, ring, registered, orphans, op, told, performed>>

NextReservation(t, n) ==
    LET v == ring[Home[t]].active
    IN  [ver |-> v, nonce |-> n, slot |-> slots[v] + 1, key |-> req[t].key, fp |-> req[t].fp]

Collides(row) == \E r \in ledger : r.ver = row.ver /\ (r.nonce = row.nonce \/ r.slot = row.slot)

\* The slot is counted and the ledger row inserted together; the commit may
\* be acknowledged or not.
RecordReservation(t, row) ==
    /\ ~Collides(row)
    /\ slots' = [slots EXCEPT ![row.ver] = @ + 1]
    /\ ledger' = ledger \cup {row}
    /\ \/ /\ pc' = [pc EXCEPT ![t] = "recheck"]
          /\ rsv' = [rsv EXCEPT ![t] = {row}]
          /\ UNCHANGED <<req, epoch, pending, reply, conn>>
       \/ LoseCommit(t)

\* reserve_nonce: the UPDATE ... RETURNING counts a slot of a usable version
\* below the limit.  A full version and a nonce already in the ledger
\* (ON CONFLICT DO NOTHING) roll back and leave the version to be disabled.
Reserve(t) ==
    LET v == ring[Home[t]].active
        full == slots[v] >= HardLimit
    IN  /\ pc[t] = "reserve" /\ Connected(t) /\ RowFree(v)
        /\ \/ /\ Usable(v) /\ ~full
              /\ \E n \in Nonces : RecordReservation(t, NextReservation(t, n))
           \/ /\ \/ Usable(v) /\ full /\ GoTo(t, "disable")
                 \/ /\ Usable(v) /\ ~full
                    /\ \E n \in Nonces : Collides(NextReservation(t, n))
                    /\ GoTo(t, "disable")
                 \/ GiveUp(t)
                 \/ LoseCommit(t)
              /\ UNCHANGED <<slots, ledger>>
        /\ UNCHANGED <<now, disabled, drainedAt, retired, claimed, results, ring, registered, orphans,
                       op, told, performed>>

\* complete_postgres_write_disable for the service itself; its two reasons, the
\* hard limit and a nonce collision, are not told apart by anything.  Whatever becomes
\* of the commit and of the recovery read, the caller is told 503.
DisableOwn(t) ==
    LET v == ring[Home[t]].active
    IN  /\ pc[t] = "disable" /\ Connected(t) /\ RowFree(v)
        /\ disabled' \in {disabled, [disabled EXCEPT ![v] = IF @ = "" /\ v \notin retired
                                                             THEN "own" ELSE @]}
        /\ GiveUp(t) \/ LoseCommit(t)
        /\ UNCHANGED <<now, slots, drainedAt, retired, rowVars, ring, registered, orphans, op, told,
                       performed>>

\* The first transaction of complete: the key is looked up again, now.
Recheck(t) ==
    /\ pc[t] = "recheck" /\ Connected(t)
    /\ AnswerFromRow(t, now) \/ (Proceeds(req[t].key, ring[Home[t]], now) /\ GoTo(t, "claim"))
    /\ UNCHANGED <<now, versionVars, rowVars, ring, registered, orphans, op, told, performed>>

ResultUsesNonce(n) == \E r \in results : r.ver = n.ver /\ r.nonce = n.nonce

\* claim_postgres_reservation: one UPDATE that finds the reservation
\* unclaimed, its version usable and its nonce in no result.
Claim(t) ==
    /\ pc[t] = "claim" /\ Connected(t)
    /\ \E n \in rsv[t] :
          \/ /\ n \in ledger \ claimed /\ Usable(n.ver) /\ ~ResultUsesNonce(n)
             /\ claimed' = claimed \cup {n}
             /\ GoTo(t, "lock") \/ LoseCommit(t)
          \/ (GiveUp(t) \/ LoseCommit(t)) /\ UNCHANGED claimed
    /\ UNCHANGED <<now, versionVars, ledger, results, ring, registered, orphans, op, told, performed>>

\* Variant: the completing transaction takes no lock on the key.
LockNoKey(t) ==
    /\ pc[t] = "lock" /\ Connected(t)
    /\ GoTo(t, "evaluate")
    /\ UNCHANGED <<now, versionVars, rowVars, ring, registered, orphans, op, told, performed>>

\* pg_advisory_xact_lock on the result's identity: waits for any other
\* completion of the key, orphaned ones included.
LockKey(t) ==
    /\ pc[t] = "lock" /\ Connected(t)
    /\ ~KeyHeld(req[t].key)
    /\ GoTo(t, "evaluate")
    /\ UNCHANGED <<now, versionVars, rowVars, ring, registered, orphans, op, told, performed>>

\* require_postgres_reservation_authentic: read without a lock on the
\* version's row, so it may be disabled before this transaction commits.
Authentic(n) == n \in claimed /\ Usable(n.ver)

TerminalExpiry(notAfter) == IF notAfter < now + MaxTTL THEN notAfter ELSE now + MaxTTL

\* _complete_in_transaction up to its commit: every check again, under the
\* key's lock, then the mutation.  The rows it writes are still its own.
Evaluate(t) ==
    /\ pc[t] = "evaluate"
    /\ \E n \in rsv[t] :
          \/ Authentic(n) /\ ~ResultUsesNonce(n) /\ AnswerFromRow(t, now)
          \/ GiveUp(t)
          \/ /\ Authentic(n) /\ ~ResultUsesNonce(n)
             /\ Proceeds(req[t].key, ring[Home[t]], now)
             /\ \E notAfter \in now..(now + MaxTTL) :
                   pending' = [pending EXCEPT ![t] =
                      {[key |-> req[t].key, fp |-> req[t].fp, ver |-> n.ver,
                        nonce |-> n.nonce, at |-> now, exp |-> TerminalExpiry(notAfter)]}]
             /\ pc' = [pc EXCEPT ![t] = "commit"]
             /\ UNCHANGED <<req, epoch, rsv, reply, conn>>
    /\ UNCHANGED <<now, versionVars, rowVars, ring, registered, orphans, op, told, performed>>

\* A completion takes effect: the mutation, the deletion of the expired row
\* and, if the response is to be replayed at all, its row.
TakeEffect(e) ==
    /\ performed' = performed \cup {e}
    /\ results' = (results \ Row(e.key)) \cup (IF e.exp > e.at THEN {e} ELSE {})

Attestation(p) == IF p \in registered THEN "held" ELSE "released"

\* The commit is acknowledged, refused, or left to the server.
Commit(t) ==
    /\ pc[t] = "commit"
    /\ \E e \in pending[t] :
          \/ TakeEffect(e) /\ Answer(t, Response(e)) /\ UNCHANGED orphans
          \/ GiveUp(t) /\ UNCHANGED <<performed, results, orphans>>
          \/ /\ orphans' = orphans \cup {[kind |-> "complete", effect |-> {e},
                                          ver |-> ring[Home[t]].active, at |-> e.at,
                                          lock |-> Attestation(Home[t])]}
             /\ LoseCommit(t)
             /\ UNCHANGED <<performed, results>>
    /\ UNCHANGED <<now, versionVars, ledger, claimed, ring, registered, op, told>>
\* The server gets round to a transaction nobody waits for any more: it
\* commits or rolls back, and its session's locks go with it.
ServerResolves(o) ==
    /\ orphans' = orphans \ {o}
    /\ \/ UNCHANGED <<drainedAt, retired, results, performed>>
       \/ /\ o.kind = "complete" /\ \E e \in o.effect : TakeEffect(e)
          /\ UNCHANGED <<drainedAt, retired>>
       \/ /\ o.kind = "drain"
          /\ drainedAt' = [drainedAt EXCEPT ![o.ver] = IF @ = Never THEN o.at ELSE @]
          /\ UNCHANGED <<retired, results, performed>>
       \/ /\ o.kind = "retire"
          /\ retired' = retired \cup {o.ver}
          /\ results' = {r \in results : r.ver # o.ver}
          /\ UNCHANGED <<drainedAt, performed>>
    /\ UNCHANGED <<now, slots, disabled, ledger, claimed, conn, ring, registered, threadVars, op, told>>
-----------------------------------------------------------------------------
\* Requests end without an answer of their own.
DropRequests(dropped) ==
    /\ pc' = [t \in Threads |-> IF t \in dropped THEN "idle" ELSE pc[t]]
    /\ epoch' = [t \in Threads |-> IF t \in dropped THEN 0 ELSE epoch[t]]
    /\ rsv' = [t \in Threads |-> IF t \in dropped THEN {} ELSE rsv[t]]
    /\ pending' = [t \in Threads |-> IF t \in dropped THEN {} ELSE pending[t]]
    /\ reply' = [t \in Threads |-> IF t \in dropped THEN Unavailable ELSE reply[t]]
    /\ UNCHANGED req

\* The session ends: its locks go, an open transaction is rolled back and its
\* request fails (PostgresError becomes 503).  The process notices at its next use.
Break(p) ==
    /\ conn[p] = "open"
    /\ conn' = [conn EXCEPT ![p] = "none"]
    /\ DropRequests({t \in Threads : Home[t] = p /\ pc[t] \in InTransaction})
    /\ UNCHANGED <<now, versionVars, rowVars, ring, registered, orphans, op, told, performed>>

\* postgres_idempotency_ready: every stored result is decryptable, the active
\* version accepts writes.
Ready(keyring) ==
    /\ \A r \in results : Readable(r, keyring) /\ r.ver \notin retired
    /\ Usable(keyring.active)

\* _active_connection: any use of a lost connection opens a replacement,
\* which takes the shared lock again (waiting for an exclusive holder) if the
\* service is still registered, and passes the readiness validators; one that
\* does not pass is closed.
Replace(p) ==
    /\ conn[p] = "none"
    /\ \/ /\ p \in registered => ~ExclusiveHeld(ring[p].active)
          /\ Ready(ring[p])
          /\ conn' = [conn EXCEPT ![p] = "open"]
          /\ UNCHANGED threadVars
       \/ /\ Quarantine(p)
          /\ \/ UNCHANGED threadVars
             \/ \E t \in Threads : Home[t] = p /\ pc[t] # "idle" /\ Finish(t, Unavailable)
    /\ UNCHANGED <<now, versionVars, rowVars, ring, registered, orphans, op, told, performed>>

\* PostgresV1Service.__init__: the shared lock, then the readiness check that
\* also compares the slot counters with the ledger.
Start(p, keyring) ==
    /\ conn[p] = "down" /\ ~ExclusiveHeld(keyring.active) /\ Ready(keyring)
    /\ \A v \in Versions : slots[v] = Cardinality({n \in ledger : n.ver = v})
    /\ conn' = [conn EXCEPT ![p] = "open"]
    /\ ring' = [ring EXCEPT ![p] = keyring]
    /\ registered' = registered \cup {p}
    /\ UNCHANGED <<now, versionVars, rowVars, threadVars, orphans, op, told, performed>>

\* Closing the runtime, first half (service.close): the shared lock is given
\* up, once the connection's lock is free.  The handlers are daemon threads:
\* they go on with the connection, or with an unattested replacement, until
\* the second half closes it.
Release(p) ==
    /\ conn[p] # "down" /\ p \in registered
    /\ Cardinality({q \in Procs : conn[q] # "down" /\ q \notin registered}) < MaxClosing
    /\ \A t \in Threads : Home[t] = p => pc[t] \notin InTransaction
    /\ registered' = registered \ {p}
    /\ UNCHANGED <<now, versionVars, rowVars, conn, ring, threadVars, orphans, op, told, performed>>

\* The second half (conn.close), or the process dies: the server rolls back
\* its open transaction.
Stop(p) ==
    /\ conn[p] # "down"
    /\ conn' = [conn EXCEPT ![p] = "down"]
    /\ ring' = [ring EXCEPT ![p] = NoRing]
    /\ registered' = registered \ {p}
    /\ DropRequests({t \in Threads : Home[t] = p})
    /\ UNCHANGED <<now, versionVars, rowVars, orphans, op, told, performed>>

\* gc_expired_results: FOR UPDATE SKIP LOCKED leaves a row alone that an open
\* completion has deleted; a row the keyring cannot read aborts the batch.
CollectExpired(p) ==
    /\ conn[p] = "open"
    /\ \A t \in Threads : Home[t] = p => pc[t] \notin InTransaction
    /\ \E batch \in SUBSET {r \in results : r.exp <= now /\ ~KeyHeld(r.key)} :
          /\ batch # {} /\ \A r \in batch : Readable(r, ring[p])
          /\ results' = results \ batch
    /\ UNCHANGED <<now, versionVars, ledger, claimed, conn, ring, registered, threadVars, orphans,
                   op, told, performed>>
-----------------------------------------------------------------------------
OperatorDone(success) ==
    /\ op' = NoCommand
    /\ told' = IF success THEN told \cup {<<op.what, op.ver>>} ELSE told

OperatorIdle == UNCHANGED <<now, slots, ledger, claimed, conn, ring, registered, threadVars, performed>>

\* A command begins; draining and retiring enter the exclusive guard, which
\* is refused while a writer of the version is attested.
Begin(what, v) ==
    /\ op.stage = "idle" /\ v # OperatorRing.active
    /\ what # "disable" => ExclusiveFree(v)
    /\ op' = [what |-> what, ver |-> v, stage |-> "apply"]
    /\ UNCHANGED <<now, versionVars, rowVars, conn, ring, registered, threadVars, orphans, told, performed>>

\* The UPDATEs of a command, with the conditions they and the status read
\* before them impose.
MayDisable(v) == v \notin retired /\ disabled[v] \in {"", "rotation"}
MayDrain(v) == disabled[v] # "" /\ v \notin retired

\* retire_if_eligible: the removal window is over, no result is unexpired,
\* the expired ones are authentic, and a usable version replaces this one.
MayRetire(v) ==
    /\ disabled[v] # "" /\ drainedAt[v] # Never
    /\ now >= drainedAt[v] + RemovalWindow
    /\ Usable(OperatorRing.active)
    /\ \A r \in results : r.ver = v => r.exp <= now /\ Readable(r, OperatorRing)

SetDisabled(v) ==
    /\ disabled' = [disabled EXCEPT ![v] = IF @ = "" THEN "rotation" ELSE @]
    /\ UNCHANGED <<drainedAt, retired, results>>
SetDrained(v) ==
    /\ drainedAt' = [drainedAt EXCEPT ![v] = IF @ = Never THEN now ELSE @]
    /\ UNCHANGED <<disabled, retired, results>>
SetRetired(v) ==
    /\ retired' = retired \cup {v}
    /\ results' = {r \in results : r.ver # v}
    /\ UNCHANGED <<disabled, drainedAt>>

\* Variant: recovery takes the commit it knows nothing of for done.
AlreadySent(what, v) == op.stage = "recover" \/ (what = "retire" /\ v \in retired)

\* What the status read finds done already ends the command with success.
AlreadyDone(what, v) ==
    \/ what = "disable" /\ disabled[v] = "rotation" /\ v \notin retired
    \/ what = "drain" /\ drainedAt[v] # Never /\ v \notin retired
    \/ what = "retire" /\ v \in retired

May(what, v) ==
    \/ what = "disable" /\ MayDisable(v)
    \/ what = "drain" /\ MayDrain(v)
    \/ what = "retire" /\ MayRetire(v)

Do(what, v) ==
    \/ what = "disable" /\ SetDisabled(v)
    \/ what = "drain" /\ SetDrained(v)
    \/ what = "retire" /\ SetRetired(v)

Unaltered == UNCHANGED <<disabled, drainedAt, retired, results>>

\* write_disable, complete_drain and retire: status, one transaction, and,
\* when its commit is lost, recovery.
Apply ==
    /\ op.stage = "apply"
    /\ \/ AlreadyDone(op.what, op.ver) /\ OperatorDone(TRUE) /\ Unaltered /\ UNCHANGED orphans
       \/ OperatorDone(FALSE) /\ Unaltered /\ UNCHANGED orphans
       \/ /\ May(op.what, op.ver) /\ ~AlreadyDone(op.what, op.ver) /\ RowFree(op.ver)
          /\ \/ Do(op.what, op.ver) /\ OperatorDone(TRUE) /\ UNCHANGED orphans
             \/ /\ op' = [op EXCEPT !.stage = "recover"] /\ UNCHANGED told
                /\ \/ Do(op.what, op.ver) /\ UNCHANGED orphans
                   \/ Unaltered /\ UNCHANGED orphans
                   \/ /\ op.what # "disable" /\ Unaltered
                      /\ orphans' = orphans \cup {[kind |-> op.what, ver |-> op.ver,
                                                   effect |-> {}, at |-> now, lock |-> "held"]}
    /\ OperatorIdle

\* PostgresLifecycleRecovery and the recovery half of
\* complete_postgres_write_disable, on a connection of its own: the guard is
\* taken afresh, so an undecided commit refuses it; the row is read; what is
\* not there is done again.
Recover ==
    /\ op.stage = "recover"
    /\ \/ OperatorDone(FALSE) /\ Unaltered
       \/ /\ op.what # "disable" => ExclusiveFree(op.ver)
          /\ RowFree(op.ver)
          /\ \/ AlreadyDone(op.what, op.ver) /\ OperatorDone(TRUE) /\ Unaltered
             \/ /\ ~AlreadyDone(op.what, op.ver) /\ May(op.what, op.ver)
                /\ Do(op.what, op.ver)
                /\ OperatorDone(TRUE) \/ OperatorDone(FALSE)
    /\ UNCHANGED orphans
    /\ OperatorIdle

Tick ==
    /\ now < MaxTime
    /\ now' = now + 1
    /\ UNCHANGED <<versionVars, rowVars, conn, ring, registered, threadVars, orphans, op, told, performed>>

Init ==
    /\ now = 0
    /\ slots = [v \in Versions |-> 0]
    /\ disabled = [v \in Versions |-> ""]
    /\ drainedAt = [v \in Versions |-> Never]
    /\ retired = {} /\ ledger = {} /\ claimed = {} /\ results = {}
    /\ conn = [p \in Procs |-> "down"]
    /\ ring = [p \in Procs |-> NoRing] /\ registered = {}
    /\ pc = [t \in Threads |-> "idle"]
    /\ req = [t \in Threads |-> NoRequest]
    /\ epoch = [t \in Threads |-> 0]
    /\ rsv = [t \in Threads |-> {}]
    /\ pending = [t \in Threads |-> {}]
    /\ reply = [t \in Threads |-> NoReply]
    /\ orphans = {} /\ told = {} /\ performed = {}
    /\ op = NoCommand

ThreadStep(t) ==
    \/ \E r \in Requests : Receive(t, r)
    \/ Lookup(t) \/ Reserve(t) \/ DisableOwn(t) \/ Recheck(t) \/ Claim(t)
    \/ LockKey(t) \/ Evaluate(t) \/ Commit(t)

ProcessStep(p) ==
    \/ Break(p) \/ Replace(p) \/ Release(p) \/ Stop(p) \/ CollectExpired(p)
    \/ \E keyring \in Keyrings : Start(p, keyring)

OperatorStep == Apply \/ Recover \/ \E what \in Commands, v \in Versions : Begin(what, v)

Next ==
    \/ Tick \/ OperatorStep
    \/ \E t \in Threads : ThreadStep(t)
    \/ \E p \in Procs : ProcessStep(p)
    \/ \E o \in orphans : ServerResolves(o)

Spec == Init /\ [][Next]_vars
-----------------------------------------------------------------------------
\* The variables have the shapes of the columns and attributes they stand for.
TypeOK ==
    /\ now \in Nat
    /\ slots \in [Versions -> Nat]
    /\ disabled \in [Versions -> Reasons]
    /\ drainedAt \in [Versions -> Nat \cup {Never}]
    /\ retired \subseteq Versions
    /\ ledger \subseteq Reservation /\ claimed \subseteq ledger /\ results \subseteq Effect
    /\ conn \in [Procs -> ConnStates] /\ ring \in [Procs -> Keyrings]
    /\ registered \subseteq Procs
    /\ pc \in [Threads -> Stages] /\ req \in [Threads -> Requests]
    /\ epoch \in [Threads -> Nat]
    /\ rsv \in [Threads -> SUBSET Reservation] /\ pending \in [Threads -> SUBSET Effect]
    /\ reply \in [Threads -> SUBSET Effect]
    /\ orphans \subseteq Orphan
    /\ op \in [what : Commands \cup {"none"}, ver : Versions,
               stage : {"idle", "apply", "recover"}]
    /\ told \subseteq Commands \X Versions
    /\ performed \subseteq Effect

\* While the response of an effect could be replayed, the mutation does not
\* run again for its key: not for a retry of a request whose commit was lost
\* and is still undecided on the server, nor for another process's duplicate.
PgAtMostOnce ==
    \A d, e \in performed : d.key = e.key /\ d # e => d.exp <= e.at \/ e.exp <= d.at

\* A response is that of a committed effect of the caller's own key and body,
\* never of one whose commit is in doubt.
PgReplyIsCommitted ==
    \A t \in Threads : \A e \in reply[t] :
        e \in performed /\ e.key = req[t].key /\ e.fp = req[t].fp

\* The promise of the endpoint: once, and told as it was.
PgPromiseHolds == PgAtMostOnce /\ PgReplyIsCommitted

\* A process evaluated it after it had given up its attestation.
Unattested(e) ==
    \/ \E t \in Threads : Home[t] \notin registered /\ e \in pending[t]
    \/ \E o \in orphans : o.lock = "released" /\ e \in o.effect

\* complete_drain attests that nobody writes with the version any more.  A
\* completion does not lock the version's row, and its session may have been
\* lost and replaced meanwhile; still no result of a drained version appears,
\* but for one a closing process evaluated before the drain, after it had
\* given up its attestation: the removal window, counted from the drain,
\* outlasts that one too.
NoWriteAfterDrain ==
    [][\A r \in results' \ results :
          \/ drainedAt[r.ver] = Never
          \/ Unattested(r) /\ r.at <= drainedAt[r.ver]]_vars

\* What the operator was told has been done is done, whatever became of the
\* commit: recovery never takes an undecided or a lost commit for a success.
\* Nothing written with a retired version can be replayed, though a closing
\* process may commit a result after everyone else: that one has expired.
OperatorIsToldTheTruth ==
    \A v \in Versions :
        /\ <<"disable", v>> \in told => disabled[v] # ""
        /\ <<"drain", v>> \in told => drainedAt[v] # Never
        /\ <<"retire", v>> \in told => v \in retired /\
              \A r \in results : r.ver = v => r.exp <= now
=============================================================================
