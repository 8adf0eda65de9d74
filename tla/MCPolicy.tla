------------------------------ MODULE MCPolicy ------------------------------
EXTENDS Policy, TLC

CONSTANTS a1, r1, narrow, wide, hour

Entry(s, c) == [scopes |-> s, cap |-> c]

\* A document that narrows, one that widens and says nothing of the cap, one that
\* clears the cap and turns the boundary mandate off, one for the settings only.
PolicyFiles ==
    {[bounds |-> a1 :> Entry(narrow, hour), rules |-> r1 :> [scopes |-> narrow, status |-> "active"],
      workspace |-> "unset", agents |-> {a1}],
     [bounds |-> a1 :> Entry(wide, Absent), rules |-> NoRows,
      workspace |-> "on", agents |-> {}],
     [bounds |-> a1 :> Entry(narrow, Null), rules |-> r1 :> [scopes |-> wide, status |-> "disabled"],
      workspace |-> "off", agents |-> {}]}
=============================================================================
