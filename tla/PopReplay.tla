----------------------------- MODULE PopReplay -----------------------------
(***************************************************************************)
(* Proof-of-possession: verify_pop and the durable store of used nonces.   *)
(*                                                                         *)
(* A proof names its token, a nonce and the second it was made in, and is  *)
(* accepted while that second is within Skew of the request's clock.  Each *)
(* request reads the clock ONCE, when it arrives; the store is asked later *)
(* (after a context lease, the grant and the token have been read), so two *)
(* requests may reach the store in the opposite order of their readings.   *)
(* The store deletes the rows that are too old for the reading of the      *)
(* request at hand, then looks the nonce up and inserts it: one BEGIN      *)
(* IMMEDIATE transaction, one step.  A crash loses requests, never rows.   *)
(***************************************************************************)
EXTENDS Integers, FiniteSets

CONSTANTS
    Workers,        \* requests that may be in flight at once
    Tokens,         \* proof-of-possession tokens
    Nonces,         \* nonces of proofs
    Skew,           \* pop_skew_seconds
    MaxEntries,     \* rows the store holds at most
    MaxPerToken,    \* rows one token holds at most
    MaxTime         \* bound on the clock

ASSUME ReplayAssumption ==
    /\ Skew \in Nat
    /\ MaxEntries \in Nat /\ MaxPerToken \in Nat
    /\ MaxTime \in Nat

Times == 0..MaxTime
Proofs == [token : Tokens, nonce : Nonces, ts : Times]
NoProof == [token |-> "", nonce |-> "", ts |-> 0]

VARIABLES
    now,        \* the clock
    proof,      \* the proof of each request in flight
    reading,    \* the clock each request in flight has read
    busy,       \* workers with a request in flight
    seen,       \* rows of pop_replay_nonces
    accepted,   \* history: proofs verify_pop has accepted
    horizon     \* history: the latest reading the store has purged by

vars == <<now, proof, reading, busy, seen, accepted, horizon>>

TypeOK ==
    /\ now \in Times
    /\ busy \subseteq Workers
    /\ proof \in [Workers -> Proofs \cup {NoProof}]
    /\ \A w \in busy : proof[w] \in Proofs
    /\ reading \in [Workers -> Times]
    /\ seen \subseteq Proofs
    /\ accepted \subseteq Proofs
    /\ horizon \in Times

Init ==
    /\ now = 0
    /\ proof = [w \in Workers |-> NoProof]
    /\ reading = [w \in Workers |-> 0]
    /\ busy = {}
    /\ seen = {}
    /\ accepted = {}
    /\ horizon = 0

\* abs(now_unix - ts) <= skew
Fresh(p, t) == p.ts <= t + Skew /\ t <= p.ts + Skew

\* The row that blocks a proof: the primary key is (token_id, nonce).
Recorded(p, rows) == \E row \in rows : row.token = p.token /\ row.nonce = p.nonce
RowsOf(token, rows) == {row \in rows : row.token = token}

\* A request arrives with a proof and reads the clock.
Arrive(w, p) ==
    /\ w \notin busy
    /\ busy' = busy \cup {w}
    /\ proof' = [proof EXCEPT ![w] = p]
    /\ reading' = [reading EXCEPT ![w] = now]
    /\ UNCHANGED <<now, seen, accepted, horizon>>

Leave(w) ==
    /\ busy' = busy \ {w}
    /\ proof' = [proof EXCEPT ![w] = NoProof]
    /\ reading' = [reading EXCEPT ![w] = 0]

\* A stale proof, or one whose mac does not fit, never reaches the store.
verify_pop_refuses(w) ==
    /\ w \in busy
    /\ Leave(w)
    /\ UNCHANGED <<now, seen, accepted, horizon>>

\* Variant: a full store makes room.
LiveToFit(t) ==
    {row \in seen : /\ row.ts >= t - Skew
                    /\ Cardinality(seen) < MaxEntries}

\* DELETE ... WHERE ts < cutoff
LiveRows(t) == {row \in seen : row.ts >= t - Skew}

RoomFor(p, rows) ==
    /\ Cardinality(RowsOf(p.token, rows)) < MaxPerToken
    /\ Cardinality(rows) < MaxEntries

check_and_record(w) ==
    LET p == proof[w]
        rows == LiveRows(reading[w])
        admit == ~Recorded(p, rows) /\ RoomFor(p, rows)
    IN
    /\ w \in busy
    /\ Fresh(p, reading[w])
    /\ seen' = IF admit THEN rows \cup {p} ELSE rows
    /\ accepted' = IF admit THEN accepted \cup {p} ELSE accepted
    /\ horizon' = IF reading[w] > horizon THEN reading[w] ELSE horizon
    /\ Leave(w)
    /\ UNCHANGED now

\* The process dies and comes back: the table is all that is left.
Restart ==
    /\ busy' = {}
    /\ proof' = [w \in Workers |-> NoProof]
    /\ reading' = [w \in Workers |-> 0]
    /\ UNCHANGED <<now, seen, accepted, horizon>>

Tick ==
    /\ now < MaxTime
    /\ now' = now + 1
    /\ UNCHANGED <<proof, reading, busy, seen, accepted, horizon>>

Next ==
    \/ \E w \in Workers :
         \/ \E p \in Proofs : Arrive(w, p)
         \/ verify_pop_refuses(w)
         \/ check_and_record(w)
    \/ Restart
    \/ Tick

Spec == Init /\ [][Next]_vars

-----------------------------------------------------------------------------
\* The step answers TRUE to proof p.
Accepts(p) == \E w \in busy :
    /\ proof[w] = p
    /\ check_and_record(w)
    /\ p \in seen'
    /\ ~Recorded(p, LiveRows(reading[w]))

\* What the store exists for: a proof is accepted once.
ProofsAreSingleUse == [][\A p \in accepted : ~Accepts(p)]_vars

\* What it guarantees whatever the order in which requests reach it: a proof
\* that is still fresh by every reading the store has purged by is accepted at
\* most once, across restarts too.
FreshProofsAreSingleUse ==
    [][\A p \in accepted : Accepts(p) => p.ts < horizon - Skew]_vars

\* A row that a request within the window could still need is in the store.
LiveNoncesAreKept == \A p \in accepted : p.ts >= horizon - Skew => p \in seen

=============================================================================
