----------------------- MODULE MCPostgresIdempotency -----------------------
(* A rotation under traffic on PostgreSQL, for TLC. *)
EXTENDS PostgresIdempotency, TLC

CONSTANTS old, new, p1, p2, t1, t2, n1, n2

\* One thread in each of two processes.
Apart == (t1 :> p1) @@ (t2 :> p2)

\* Services still write with the old version and can read both.
OldRing == {[active |-> old, keys |-> {old, new}]}

\* The operator's command already has the new version active.
NewRing == [active |-> new, keys |-> {old, new}]

\* The processes may be exchanged together with their threads, and the nonces.
ProcessPermutations ==
    {(p1 :> p1) @@ (p2 :> p2) @@ (t1 :> t1) @@ (t2 :> t2),
     (p1 :> p2) @@ (p2 :> p1) @@ (t1 :> t2) @@ (t2 :> t1)}
Symmetry == {f @@ g : f \in ProcessPermutations, g \in Permutations(Nonces)}
=============================================================================
