------------------------------- MODULE Scope -------------------------------
(***************************************************************************)
(* Scopes: "action:resource", where the resource is a path of segments and *)
(* may, in a grant, end in the wildcard segment "*".                       *)
(*                                                                         *)
(* A path is the sequence of its segments (resource.split("/")), so a      *)
(* string prefix that ends in "/" is a prefix of that sequence.  What a    *)
(* segment is made of matters only to validation, by its class:            *)
(*   Plain    matches [A-Za-z0-9._-]+ and is neither "." nor ".."          *)
(*   Star     is "*"                                                       *)
(*   Illegal  is empty, ".", "..", has a "*" among other characters, or    *)
(*            has a NUL, a backslash or a ":"                              *)
(*   Odd      everything else: a character outside the alphabet, which is  *)
(*            looked for only in a path without a wildcard                 *)
(***************************************************************************)
EXTENDS Integers, Sequences

CONSTANTS
    Actions,    \* ALLOWED_ACTIONS
    Plain,      \* segments that may name something
    Odd,        \* segments that may only stand before a terminal wildcard
    Illegal,    \* segments that may not occur in any valid path
    Star        \* the wildcard segment "*"

ASSUME SegmentsAssumption ==
    /\ Plain # {}
    /\ Star \notin Plain \cup Odd \cup Illegal
    /\ Plain \cap Odd = {} /\ Plain \cap Illegal = {} /\ Odd \cap Illegal = {}

Segments == Plain \cup Odd \cup Illegal \cup {Star}

\* A scope, and equally an attempted action on a resource: attempted_scope
\* joins the two with ":" and both are taken apart again at that separator.
Scope(action, path) == [action |-> action, path |-> path]

\* A path with a wildcard is accepted before the alphabet of its other segments
\* is looked at.
_is_valid_resource(path, allow_terminal_wildcard) ==
    /\ Len(path) >= 2
    /\ \A i \in 1..Len(path) : path[i] \notin Illegal
    /\ \/ /\ allow_terminal_wildcard
          /\ Len(path) >= 3
          /\ \A i \in 1..Len(path) : path[i] = Star <=> i = Len(path)
       \/ \A i \in 1..Len(path) : path[i] \in Plain

is_valid_requested_resource(path) == _is_valid_resource(path, FALSE)

is_valid_grant_scope(scope) ==
    /\ scope.action \in Actions
    /\ _is_valid_resource(scope.path, TRUE)

\* resource.endswith("/*")
Wildcard(path) == Len(path) >= 2 /\ path[Len(path)] = Star

\* path.startswith(pattern.removesuffix("*")): the prefix keeps its "/", so the
\* path goes on for at least one more segment.
Below(path, pattern) ==
    /\ Len(path) >= Len(pattern)
    /\ \A i \in 1..(Len(pattern) - 1) : path[i] = pattern[i]

_matches_terminal_resource_wildcard(scope, action, path) ==
    /\ scope.action = action
    /\ Wildcard(scope.path)
    /\ Below(path, scope.path)

Matches(scope, action, path) ==
    \/ scope = Scope(action, path)
    \/ _matches_terminal_resource_wildcard(scope, action, path)

\* match_scope returns the first scope that matches, or None.
match_scope(scopes, action, path) == \E scope \in scopes : Matches(scope, action, path)

scope_subsumes(broad, narrow) ==
    \/ broad = narrow
    \/ /\ is_valid_grant_scope(broad)
       /\ is_valid_grant_scope(narrow)
       /\ broad.action = narrow.action
       /\ Wildcard(broad.path)
       /\ Below(narrow.path, broad.path)

\* _scopes_outside_bounds is empty; _scopes_within_rule tests the same.
WithinBounds(requested, bounds) ==
    \A scope \in requested : \E bound \in bounds : scope_subsumes(bound, scope)

GrantScopes == {s \in [action : Actions, path : Seq(Segments)] : is_valid_grant_scope(s)}
Requests == {r \in [action : Actions, path : Seq(Segments)] :
               is_valid_requested_resource(r.path)}

-----------------------------------------------------------------------------
(***************************************************************************)
(* What subsumption must mean: containment of what the two scopes permit.  *)
(***************************************************************************)
\* Issuance, approval and policy checks compare scopes with scope_subsumes;
\* enforcement compares a request with match_scope.  The first must be sound
\* for the second: no request that a scope permits escapes a broader scope.
SoundFor(broad, narrow, request) ==
    (/\ scope_subsumes(broad, narrow)
     /\ Matches(narrow, request.action, request.path))
        => Matches(broad, request.action, request.path)

\* Bounds on bounds compose.
TransitiveFor(a, b, c) ==
    (scope_subsumes(a, b) /\ scope_subsumes(b, c)) => scope_subsumes(a, c)

\* Two scopes that subsume each other are the same scope.
AntisymmetricFor(a, b) ==
    (scope_subsumes(a, b) /\ scope_subsumes(b, a)) => a = b
=============================================================================
