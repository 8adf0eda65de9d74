-------------------------- MODULE MCGrantLifecycle --------------------------
(* One agent; narrow and wide scopes, short and long lifetimes. *)
EXTENDS GrantLifecycle, TLC

File(leaf) == [action |-> "read", path |-> <<"repo", "src", leaf>>]
Narrow == {File("a")}
Wide == {File("*")}

MCHome == [a \in {"a1"} |-> "w1"]
Shared == [r \in {"r1"} |-> "k"]

Wants(s, t) == [agent |-> "a1", scopes |-> s, ttl |-> t]
MCAsks == {Wants(Narrow, 0), Wants(Narrow, 2), Wants(Wide, 1)}
\* The bounds that a narrow ask, a long one, or only a mixture of two rows would pass.
MCBoundRows == {[scopes |-> Narrow, cap |-> None], [scopes |-> Wide, cap |-> 1]}
OneRule == {[agent |-> "a1", scopes |-> Wide, ttl |-> 1, status |-> "active"]}
=============================================================================
