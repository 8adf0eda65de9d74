--------------------------- MODULE MCIdempotency ---------------------------
(***************************************************************************)
(* Two services. A behaviour is of one of two kinds: requests with two      *)
(* bodies race on one key while one cipher key is configured, or that key   *)
(* is rotated out while equal requests, and nonces that repeat, go on.      *)
(***************************************************************************)
EXTENDS Idempotency, FiniteSets, TLC

CONSTANTS old, new

VARIABLE kind

\* The three configurations of a rotation: before, during, after.
RotationRings == {[active |-> old, keys |-> {old}],
                  [active |-> new, keys |-> {old, new}],
                  [active |-> new, keys |-> {new}]}

\* Services and nonces are interchangeable.
Symmetry == Permutations(Services) \cup Permutations(Nonces)

IdempotencyInit == Init /\ kind \in {"retries", "rotation"}

Retries == new \notin registered'

Rotates ==
    /\ \A s \in Services : req'[s] = NoRequest
    /\ Cardinality({n.nonce : n \in ledger'}) <= 1
    /\ \A s \in Services : pc[s] = "idle" /\ pc'[s] # "idle" => now = 0

IdempotencyNext ==
    /\ Next
    /\ UNCHANGED kind
    /\ CASE kind = "retries" -> Retries
         [] kind = "rotation" -> Rotates

IdempotencySpec == IdempotencyInit /\ [][IdempotencyNext]_<<vars, kind>>
=============================================================================
