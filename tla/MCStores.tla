------------------------------ MODULE MCStores ------------------------------
(***************************************************************************)
(* Two groups of tables whose writers race: the replay nonces of proofs of  *)
(* possession, and the rows that policy documents and operators write. They *)
(* share no state: each behaviour is about one of the two.                  *)
(***************************************************************************)
EXTENDS PopReplay, Policy, TLC

CONSTANTS a1, r1, narrow, wide, hour

VARIABLES part

Entry(s, c) == [scopes |-> s, cap |-> c]

\* A document that narrows, one that widens and says nothing of the cap, one that
\* clears the cap and turns the boundary mandate off.
PolicyFiles ==
    {[bounds |-> a1 :> Entry(narrow, hour), rules |-> r1 :> [scopes |-> narrow, status |-> "active"],
      workspace |-> "unset", agents |-> {a1}],
     [bounds |-> a1 :> Entry(wide, Absent), rules |-> NoRows,
      workspace |-> "on", agents |-> {}],
     [bounds |-> a1 :> Entry(narrow, Null), rules |-> r1 :> [scopes |-> wide, status |-> "disabled"],
      workspace |-> "off", agents |-> {}]}

\* Requests and nonces are interchangeable, and so are tokens.
Interchangeable ==
    Permutations(Workers) \cup Permutations(Tokens) \cup Permutations(Nonces)

StoresInit == part \in {"proofs", "policy"} /\ Init /\ PolicyInit /\ (part = "proofs" => backend = "sqlite")

StoresNext ==
    /\ UNCHANGED part
    /\ \/ part = "proofs" /\ Next /\ UNCHANGED policyVars
       \/ part = "policy" /\ PolicyNext /\ UNCHANGED vars

StoresSpec == StoresInit /\ [][StoresNext]_<<vars, policyVars, part>>
=============================================================================
