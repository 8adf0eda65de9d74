---------------------------- MODULE Idempotency ----------------------------
(***************************************************************************)
(* Keyed mutations over one SQLite database: what a service context does   *)
(* for a request that carries an Idempotency-Key, the ledger of encryption *)
(* nonces, and the lifecycle of the cipher key versions.                   *)
(*                                                                         *)
(* A "service" is one SQLiteV1Service: one connection, one keyring, one    *)
(* request at a time (the pool hands a context to one request).  A request *)
(* is a chain of SEPARATE transactions - lookup, reserve, recheck, claim,  *)
(* complete - so every other service, the operator and the clock may run   *)
(* between two of them.  Each transaction is BEGIN IMMEDIATE: one step.    *)
(*                                                                         *)
(* What a mutation does to the business tables is abstracted to the fact   *)
(* that it happened: an EFFECT, named by the nonce reservation it ran      *)
(* under.  A stored result row is the effect whose response it replays.    *)
(***************************************************************************)
EXTENDS Integers, FiniteSets

CONSTANTS
    Services,       \* service contexts (SQLiteV1Service instances)
    Keys,           \* result identities: workspace, principal, operation, key hash
    Fingerprints,   \* request fingerprints
    Versions,       \* cipher key version labels
    Nonces,         \* 12-byte nonces the random source may return
    Keyrings,       \* configurations a service or an operator may be given
    MaxTTL,         \* longest life of a stored result (86400)
    RemovalWindow,  \* IDEMPOTENCY_REMOVAL_WINDOW_SECONDS (86400 + 300)
    HardLimit,      \* HARD_SLOT_LIMIT (2^24)
    MaxTime         \* bound on the database clock

ASSUME KeyringsAssumption ==
    /\ Keyrings \subseteq [active : Versions, keys : SUBSET Versions]
    /\ \A ring \in Keyrings : ring.active \in ring.keys

ASSUME BoundsAssumption ==
    /\ MaxTTL \in Nat \ {0}
    /\ RemovalWindow \in Nat /\ RemovalWindow >= MaxTTL
    /\ HardLimit \in Nat
    /\ MaxTime \in Nat

ASSUME InputsAssumption == Keys # {} /\ Fingerprints # {} /\ Keyrings # {}

VARIABLES
    now,        \* the database epoch, CAST(strftime('%s','now') AS INTEGER)
    registered, \* versions with a row in idempotency_cipher_key_versions
    slots,      \* reserved_encryption_slots of each version
    disabled,   \* write_disabled_reason of each version, "" when NULL
    drainedAt,  \* drain_completed_epoch of each version, Never when NULL
    retired,    \* versions with a retired_epoch
    ledger,     \* rows of idempotency_cipher_nonces
    claimed,    \* the rows whose claimed_at_epoch is set
    results,    \* rows of idempotency_results
    up,         \* services that are constructed and not closed
    ring,       \* the keyring of each service
    pc,         \* where each service is in the request it runs
    req,        \* the request each service runs, or ran last
    epoch,      \* now_epoch captured at the start of execute
    rsv,        \* the CryptoReservation the request holds, if any
    reply,      \* the answer to the last request
    performed,  \* history: every committed effect
    encrypted   \* history: encryptions performed with each (version, nonce)

dbVars == <<registered, slots, disabled, drainedAt, retired, ledger, claimed, results>>
procVars == <<up, ring, pc, req, epoch, rsv, reply>>
vars == <<now, dbVars, procVars, performed, encrypted>>

Never == -1

Requests == [key : Keys, fp : Fingerprints]

\* What a service that is not running has for a keyring: anything.
NoRing == CHOOSE keyring \in Keyrings : TRUE

\* What a service holds before its first request: anything.
NoRequest == CHOOSE r \in Requests : TRUE

Reservation == [ver : Versions, nonce : Nonces, slot : Nat,
                key : Keys, fp : Fingerprints]

Effect == [key : Keys, fp : Fingerprints, ver : Versions, nonce : Nonces,
           at : Nat, exp : Nat]

Reasons == {"", "rotation", "hard_limit", "nonce_collision"}

Stages == {"idle", "lookup", "reserve", "hard_limit", "nonce_collision",
           "recheck", "claim", "complete"}

NoReply == [kind |-> "none", effect |-> {}]
Conflict == [kind |-> "conflict", effect |-> {}]
Unavailable == [kind |-> "unavailable", effect |-> {}]
Response(e) == [kind |-> "response", effect |-> {e}]

Replies == [kind : {"none", "conflict", "unavailable", "response"}, effect : SUBSET Effect]
-----------------------------------------------------------------------------
\* The stored row of a key, as a set: empty, or one row (the primary key).
Row(k) == {r \in results : r.key = k}

\* authenticate_completed_result: only a configured key decrypts the row.
Readable(r, keyring) == r.ver \in keyring.keys

\* Variant: a row counts as expired one second early.
ProceedsEarly(k, keyring, t) == \A r \in Row(k) : Readable(r, keyring) /\ r.exp <= t + 1

\* classify_completed_result: authentication comes first, then expiry, then
\* the fingerprint; a row without its key supports none of the three.
Proceeds(k, keyring, t) == \A r \in Row(k) : Readable(r, keyring) /\ r.exp <= t
Conflicts(k, f, keyring, t) ==
    \E r \in Row(k) : Readable(r, keyring) /\ r.exp > t /\ r.fp # f
\* Variant: the fingerprint is not compared.
ReplaysAnyBody(k, f, keyring, t) == {r \in Row(k) : Readable(r, keyring) /\ r.exp > t}

Replays(k, f, keyring, t) ==
    {r \in Row(k) : Readable(r, keyring) /\ r.exp > t /\ r.fp = f}

\* The request is over and the given answer sent.
Finish(s, answer) ==
    /\ pc' = [pc EXCEPT ![s] = "idle"]
    /\ epoch' = [epoch EXCEPT ![s] = 0]
    /\ reply' = [reply EXCEPT ![s] = answer]
    /\ UNCHANGED <<req, rsv>>

Answer(s, answer) == Finish(s, answer) /\ UNCHANGED <<up, ring>>

\* The ambiguous-commit reporter quarantines the context: its service is
\* closed once the request is over, and the caller is told 503.
Quarantine(s) ==
    /\ Finish(s, Unavailable)
    /\ up' = up \ {s}
    /\ ring' = [ring EXCEPT ![s] = NoRing]

\* The answer a lookup that does not proceed ends with.
AnswerFromRow(s, keyring, t) ==
    LET k == req[s].key
        f == req[s].fp
    IN  \/ Conflicts(k, f, keyring, t) /\ Answer(s, Conflict)
        \/ \E r \in Replays(k, f, keyring, t) : Answer(s, Response(r))
        \/ Answer(s, Unavailable)      \* no key for the row, or the database failed

Usable(v) == v \in registered /\ disabled[v] = "" /\ v \notin retired

\* execute: the epoch is read before anything else and used until the
\* reservation is made.
Receive(s, k, f) ==
    /\ s \in up /\ pc[s] = "idle"
    /\ pc' = [pc EXCEPT ![s] = "lookup"]
    /\ req' = [req EXCEPT ![s] = [key |-> k, fp |-> f]]
    /\ epoch' = [epoch EXCEPT ![s] = now]
    /\ rsv' = [rsv EXCEPT ![s] = {}]
    /\ reply' = [reply EXCEPT ![s] = NoReply]
    /\ UNCHANGED <<now, dbVars, up, ring, performed, encrypted>>

\* store.lookup against the captured epoch.
Lookup(s) ==
    /\ pc[s] = "lookup"
    /\ \/ AnswerFromRow(s, ring[s], epoch[s])
       \/ /\ Proceeds(req[s].key, ring[s], epoch[s])
          /\ pc' = [pc EXCEPT ![s] = "reserve"]
          /\ UNCHANGED <<up, ring, req, epoch, rsv, reply>>
    /\ UNCHANGED <<now, dbVars, performed, encrypted>>

\* The ledger row the next reservation inserts, and what makes INSERT OR
\* IGNORE drop it: the primary key or the unique slot is already there.
NextReservation(s, n) ==
    LET v == ring[s].active
    IN  [ver |-> v, nonce |-> n, slot |-> slots[v] + 1, key |-> req[s].key, fp |-> req[s].fp]

\* Variant: the ledger is unique by slot only.
CollidesBySlot(row) == \E r \in ledger : r.ver = row.ver /\ r.slot = row.slot

Collides(row) ==
    \E r \in ledger : r.ver = row.ver /\ (r.nonce = row.nonce \/ r.slot = row.slot)

\* The reservation commits; an ambiguous commit may have taken effect too.
RecordReservation(s, row) ==
    /\ ~Collides(row)
    /\ slots' = [slots EXCEPT ![row.ver] = @ + 1]
    /\ ledger' = ledger \cup {row}
    /\ \/ /\ pc' = [pc EXCEPT ![s] = "recheck"]
          /\ rsv' = [rsv EXCEPT ![s] = {row}]
          /\ UNCHANGED <<up, ring, req, epoch, reply>>
       \/ Quarantine(s)

\* The reservation rolls back and leaves the version to be disabled.
AbortReservation(s, reason) ==
    /\ pc' = [pc EXCEPT ![s] = reason]
    /\ UNCHANGED <<slots, ledger, up, ring, req, epoch, rsv, reply>>

\* reserve_nonce: count the slot, then record a random nonce, in one
\* transaction.  An unusable version, a database error or a failing random
\* source end the request; so does a commit that is ambiguous and was lost.
Reserve(s) ==
    LET v == ring[s].active
    IN  /\ pc[s] = "reserve"
        /\ \/ /\ Usable(v) /\ slots[v] < HardLimit
              /\ \E n \in Nonces : RecordReservation(s, NextReservation(s, n))
           \/ /\ Usable(v) /\ slots[v] < HardLimit
              /\ \E n \in Nonces : Collides(NextReservation(s, n))
              /\ AbortReservation(s, "nonce_collision")
           \/ Usable(v) /\ slots[v] >= HardLimit /\ AbortReservation(s, "hard_limit")
           \/ Answer(s, Unavailable) /\ UNCHANGED <<slots, ledger>>
           \/ Usable(v) /\ Quarantine(s) /\ UNCHANGED <<slots, ledger>>
        /\ UNCHANGED <<now, registered, disabled, drainedAt, retired, claimed,
                       results, performed, encrypted>>

\* _write_disable in its own transaction, after the reservation rolled back;
\* COALESCE keeps an earlier reason, a retired version is left alone.
\* The transaction may also fail, and the request ends without the disable
\* (its sqlite3.Error escapes as an error answer: Unavailable too); an ambiguous
\* commit of it, in effect or lost, quarantines the context like any other.
WriteDisableOwn(s) ==
    LET v == ring[s].active
    IN  /\ pc[s] \in {"hard_limit", "nonce_collision"}
        /\ \/ disabled' = [disabled EXCEPT ![v] =
                              IF @ = "" /\ v \notin retired THEN pc[s] ELSE @]
           \/ UNCHANGED disabled
        /\ Answer(s, Unavailable) \/ Quarantine(s)
        /\ UNCHANGED <<now, registered, slots, drainedAt, retired, ledger, claimed,
                       results, performed, encrypted>>

\* claim_and_complete_sqlite_result looks the key up again, at a fresh epoch.
Recheck(s) ==
    /\ pc[s] = "recheck"
    /\ \/ AnswerFromRow(s, ring[s], now)
       \/ /\ Proceeds(req[s].key, ring[s], now)
          /\ pc' = [pc EXCEPT ![s] = "claim"]
          /\ UNCHANGED <<up, ring, req, epoch, rsv, reply>>
    /\ UNCHANGED <<now, dbVars, performed, encrypted>>

ResultUsesNonce(n) == \E r \in results : r.ver = n.ver /\ r.nonce = n.nonce

\* claim_sqlite_reservation: a reservation is claimed once, before any
\* result can carry its nonce.  Losing the claim, or any database error, is 503.
Claim(s) ==
    /\ pc[s] = "claim"
    /\ \E n \in rsv[s] :
          \/ /\ n \in ledger \ claimed /\ ~ResultUsesNonce(n)
             /\ claimed' = claimed \cup {n}
             /\ \/ /\ pc' = [pc EXCEPT ![s] = "complete"]
                   /\ UNCHANGED <<up, ring, req, epoch, rsv, reply>>
                \/ Quarantine(s)
          \/ Quarantine(s) /\ UNCHANGED claimed
          \/ Answer(s, Unavailable) /\ UNCHANGED claimed
    /\ UNCHANGED <<now, registered, slots, disabled, drainedAt, retired, ledger,
                   results, performed, encrypted>>

\* Variant: results outlive the limit the removal window is computed from.
ExpiryTooLate(notAfter) == notAfter + 1

\* terminal_expiry_epoch: the configured life, cut short by the outcome's
\* replay_not_after_epoch (never after a minted token's own expiry).
TerminalExpiry(notAfter) ==
    IF notAfter < now + MaxTTL THEN notAfter ELSE now + MaxTTL

\* require_sqlite_reservation_authentic, and the claim it must find.
Authentic(n) ==
    /\ n \in claimed
    /\ disabled[n.ver] = "" /\ n.ver \notin retired

EffectOf(s, n, exp) ==
    [key |-> req[s].key, fp |-> req[s].fp, ver |-> n.ver, nonce |-> n.nonce,
     at |-> now, exp |-> exp]

Encrypt(n) == encrypted' = [encrypted EXCEPT ![<<n.ver, n.nonce>>] = @ + 1]

\* The mutation runs, its response is encrypted and stored: the effect, the
\* deletion of the expired row and the new row commit together or not at all.
RunMutation(s, n) ==
    \E notAfter \in now..(now + MaxTTL) :
        LET e == EffectOf(s, n, TerminalExpiry(notAfter))
            cached == e.exp > now
            Commit == /\ performed' = performed \cup {e}
                      /\ results' = (results \ Row(e.key)) \cup (IF cached THEN {e} ELSE {})
            Rollback == UNCHANGED <<performed, results>>
        IN  /\ IF cached THEN Encrypt(n) ELSE UNCHANGED encrypted
            /\ \/ Commit /\ Answer(s, Response(e))
               \/ Commit /\ Quarantine(s)         \* ambiguous, took effect
               \/ Rollback /\ Quarantine(s)       \* ambiguous, did not
               \/ Rollback /\ Answer(s, Unavailable)

\* complete_sqlite_result: everything is checked again inside the transaction.
Complete(s) ==
    /\ pc[s] = "complete"
    /\ \E n \in rsv[s] :
          \/ /\ Answer(s, Unavailable)  \* not authentic, a used nonce, any error
             /\ UNCHANGED <<results, performed, encrypted>>
          \/ /\ Authentic(n) /\ ~ResultUsesNonce(n)
             /\ AnswerFromRow(s, ring[s], now)
             /\ UNCHANGED <<results, performed, encrypted>>
          \/ /\ Authentic(n) /\ ~ResultUsesNonce(n)
             /\ Proceeds(req[s].key, ring[s], now)
             /\ RunMutation(s, n)
    /\ UNCHANGED <<now, registered, slots, disabled, drainedAt, retired, ledger, claimed>>
-----------------------------------------------------------------------------
\* idempotency_readiness at construction: every stored result is decryptable,
\* the counters match the ledger, the active version accepts writes.
Ready(keyring) ==
    /\ \A r \in results : Readable(r, keyring) /\ r.ver \notin retired
    /\ \A v \in registered : slots[v] = Cardinality({n \in ledger : n.ver = v})
    /\ disabled[keyring.active] = "" /\ keyring.active \notin retired

\* SQLiteV1Service.__post_init__: shared attestation lock, registration of the
\* keyring and the readiness check, the last two in one transaction.
Start(s, keyring) ==
    /\ s \notin up /\ Ready(keyring)
    /\ up' = up \cup {s}
    /\ ring' = [ring EXCEPT ![s] = keyring]
    /\ registered' = registered \cup keyring.keys
    /\ UNCHANGED <<now, slots, disabled, drainedAt, retired, ledger, claimed, results,
                   pc, req, epoch, rsv, reply, performed, encrypted>>

\* The process dies or closes the service: the attestation lock is released,
\* a transaction under way is rolled back, committed rows stay.
Stop(s) ==
    /\ s \in up
    /\ up' = up \ {s}
    /\ ring' = [ring EXCEPT ![s] = NoRing]
    /\ pc' = [pc EXCEPT ![s] = "idle"]
    /\ req' = [req EXCEPT ![s] = NoRequest]
    /\ epoch' = [epoch EXCEPT ![s] = 0]
    /\ rsv' = [rsv EXCEPT ![s] = {}]
    /\ reply' = [reply EXCEPT ![s] = NoReply]
    /\ UNCHANGED <<now, dbVars, performed, encrypted>>

\* gc_sqlite_results: one batch of expired rows, all or nothing; a row the
\* keyring cannot authenticate aborts the batch.
\* Variant: collection runs one second early.
CollectEarly(s) ==
    /\ s \in up /\ pc[s] = "idle"
    /\ \E batch \in SUBSET {r \in results : r.exp <= now + 1} :
          /\ batch # {} /\ \A r \in batch : Readable(r, ring[s])
          /\ results' = results \ batch
    /\ UNCHANGED <<now, registered, slots, disabled, drainedAt, retired, ledger, claimed,
                   procVars, performed, encrypted>>

CollectExpired(s) ==
    /\ s \in up /\ pc[s] = "idle"
    /\ \E batch \in SUBSET {r \in results : r.exp <= now} :
          /\ batch # {} /\ \A r \in batch : Readable(r, ring[s])
          /\ results' = results \ batch
    /\ UNCHANGED <<now, registered, slots, disabled, drainedAt, retired, ledger, claimed,
                   procVars, performed, encrypted>>

\* The exclusive attestation guard on a version: no service has it active.
NoWriters(v) == \A s \in up : ring[s].active # v

\* The operator's controller only touches a version that is not its own
\* active one; opening the store registers the operator's keyring.
OperatorOpens(keyring, v) ==
    /\ v # keyring.active
    /\ v \in registered \cup keyring.keys
    /\ registered' = registered \cup keyring.keys

WriteDisable(keyring, v) ==
    /\ OperatorOpens(keyring, v)
    /\ v \notin retired
    /\ disabled' = [disabled EXCEPT ![v] = IF @ = "" THEN "rotation" ELSE @]
    /\ UNCHANGED <<now, slots, drainedAt, retired, ledger, claimed, results,
                   procVars, performed, encrypted>>

CompleteDrain(keyring, v) ==
    /\ OperatorOpens(keyring, v)
    /\ NoWriters(v)
    /\ disabled[v] # "" /\ v \notin retired
    /\ drainedAt' = [drainedAt EXCEPT ![v] = IF @ = Never THEN now ELSE @]
    /\ UNCHANGED <<now, slots, disabled, retired, ledger, claimed, results,
                   procVars, performed, encrypted>>

\* retire_lifecycle_version: refused while an unexpired result remains; the
\* expired ones are authenticated and deleted with the retirement.
Retire(keyring, v) ==
    /\ OperatorOpens(keyring, v)
    /\ NoWriters(v)
    /\ v \notin retired
    /\ disabled[v] # "" /\ drainedAt[v] # Never
    /\ now >= drainedAt[v] + RemovalWindow
    /\ disabled[keyring.active] = "" /\ keyring.active \notin retired
    /\ \A r \in results : r.ver = v => r.exp <= now /\ Readable(r, keyring)
    /\ results' = {r \in results : r.ver # v}
    /\ retired' = retired \cup {v}
    /\ UNCHANGED <<now, slots, disabled, drainedAt, ledger, claimed,
                   procVars, performed, encrypted>>

Tick ==
    /\ now < MaxTime
    /\ now' = now + 1
    /\ UNCHANGED <<dbVars, procVars, performed, encrypted>>

Init ==
    /\ now = 0
    /\ registered = {} /\ retired = {}
    /\ slots = [v \in Versions |-> 0]
    /\ disabled = [v \in Versions |-> ""]
    /\ drainedAt = [v \in Versions |-> Never]
    /\ ledger = {} /\ claimed = {} /\ results = {}
    /\ up = {}
    /\ ring = [s \in Services |-> NoRing]
    /\ pc = [s \in Services |-> "idle"]
    /\ req = [s \in Services |-> NoRequest]
    /\ epoch = [s \in Services |-> 0]
    /\ rsv = [s \in Services |-> {}]
    /\ reply = [s \in Services |-> NoReply]
    /\ performed = {}
    /\ encrypted = [x \in Versions \X Nonces |-> 0]

ServiceStep(s) ==
    \/ \E k \in Keys, f \in Fingerprints : Receive(s, k, f)
    \/ Lookup(s) \/ Reserve(s) \/ WriteDisableOwn(s)
    \/ Recheck(s) \/ Claim(s) \/ Complete(s)
    \/ CollectExpired(s) \/ Stop(s)
    \/ \E keyring \in Keyrings : Start(s, keyring)

OperatorStep ==
    \E keyring \in Keyrings, v \in Versions :
        WriteDisable(keyring, v) \/ CompleteDrain(keyring, v) \/ Retire(keyring, v)

Next == Tick \/ OperatorStep \/ \E s \in Services : ServiceStep(s)

Spec == Init /\ [][Next]_vars
-----------------------------------------------------------------------------
\* Every variable has the shape of the column or attribute it stands for, and
\* a request past reserve_nonce holds exactly the reservation it made.
TypeOK ==
    /\ now \in Nat
    /\ registered \subseteq Versions /\ retired \subseteq Versions
    /\ slots \in [Versions -> Nat]
    /\ disabled \in [Versions -> Reasons]
    /\ drainedAt \in [Versions -> Nat \cup {Never}]
    /\ ledger \subseteq Reservation /\ claimed \subseteq ledger
    /\ results \subseteq Effect /\ performed \subseteq Effect
    /\ up \subseteq Services
    /\ ring \in [Services -> Keyrings]
    /\ pc \in [Services -> Stages]
    /\ req \in [Services -> Requests]
    /\ epoch \in [Services -> Nat]
    /\ rsv \in [Services -> SUBSET Reservation]
    /\ reply \in [Services -> Replies]
    /\ encrypted \in [Versions \X Nonces -> Nat]

\* Two effects of one key never overlap in time: while an effect's response
\* could still be replayed, no retry, concurrent duplicate, ambiguous commit,
\* restart or key rotation makes complete_sqlite_result run the mutation again.
AtMostOnce ==
    \A d, e \in performed : d.key = e.key /\ d # e => d.exp <= e.at \/ e.exp <= d.at

\* A response a caller gets, computed or replayed, is that of an effect that
\* really committed, for the caller's own key and fingerprint.
ReplyIsCommitted ==
    \A s \in Services : \A e \in reply[s].effect :
        e \in performed /\ e.key = req[s].key /\ e.fp = req[s].fp

\* No nonce of a key version is used for two encryptions (idempotency_crypto
\* uses AES-GCM), whatever rolls back, crashes or is retried.
NonceUsedOnce == \A x \in Versions \X Nonces : encrypted[x] <= 1

\* The counter of a version is the number of its ledger rows, which readiness
\* demands of every start, and never passes the hard limit.
SlotsMatchLedger ==
    \A v \in Versions : /\ slots[v] = Cardinality({n \in ledger : n.ver = v})
                        /\ slots[v] <= HardLimit

\* What a request reserves is its own and is counted: no nonce serves twice and
\* no slot is handed out twice or lost by a rollback, a crash or the hard limit.
ReservationsAreSound == NonceUsedOnce /\ SlotsMatchLedger

\* Once complete_drain has recorded a version, no running service has it
\* active, and none ever will: construction after the drain is refused.
DrainedHasNoWriters == \A v \in Versions : drainedAt[v] # Never => NoWriters(v)

\* Once the removal window after the drain is over, no result of the version
\* is still replayable; and a retired version has no result at all, so its
\* key can be removed from every keyring.
RetirementIsSafe ==
    \A r \in results : LET v == r.ver IN
        /\ v \notin retired
        /\ (drainedAt[v] # Never /\ now >= drainedAt[v] + RemovalWindow) => r.exp <= now

\* A rotation strands nothing: what is drained has no writer left, and what is
\* retired has no result left that a retry could still ask for.
RotationStrandsNothing == DrainedHasNoWriters /\ RetirementIsSafe

\* The promise to callers, with the tables and the protocol forgotten.
Promise == INSTANCE KeyedMutations WITH
    Callers <- Services, clock <- now, asked <- req, told <- reply,
    done <- performed

\* Every step of the five-transaction protocol, of the operator and of the
\* clock is a step of the one-step promise to callers, or none.
ImplementsPromise == Promise!AbsSpec

=============================================================================
