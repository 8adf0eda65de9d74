--------------------------- MODULE MCEnforcement ---------------------------
(***************************************************************************)
(* Two workspaces with an agent and a PEP each; who may ask for what. A     *)
(* behaviour is of one of two kinds: the authority of a grant and a token   *)
(* changes over time with the boundary mandate switched off, or the         *)
(* mandates of one agent and its workspace change at one moment.            *)
(***************************************************************************)
EXTENDS Enforcement, TLC

VARIABLE kind

Path(leaf) == <<"repo", leaf>>
Attempt(leaf) == [action |-> "read", path |-> Path(leaf)]
Bad == [action |-> None, path |-> Path("a")]

MCHome == [n \in {"a1", "p1", "p3", "b1"} |-> "w1"] @@ [n \in {"a2", "p2", "b2"} |-> "w2"]

Direct(agent, attempt, b) ==
    [pep |-> None, agent |-> agent, named |-> TRUE, ref |-> "g1", attempt |-> attempt,
     boundary |-> b, token |-> None, proof |-> FALSE]
Delegated(pep, agent, named, token, proof, b) ==
    [pep |-> pep, agent |-> agent, named |-> named, ref |-> "g1", attempt |-> Attempt("a"),
     boundary |-> b, token |-> token, proof |-> proof]

\* Owner and stranger, own and foreign boundary, in and out of scope.
AuthorityCalls ==
    {Direct("a1", Attempt("a"), "b1"), Direct("a1", Attempt("a"), "b2"),
     Direct("a1", Attempt("b"), None), Direct("a1", Bad, None),
     Direct("a2", Attempt("a"), None),
     Delegated("p1", "a1", TRUE, "t1", TRUE, None),
     Delegated("p1", "a1", TRUE, Blank, FALSE, None),
     Delegated("p3", "a1", TRUE, "t1", TRUE, None),
     Delegated("p2", "a1", TRUE, None, FALSE, None),
     Delegated("p1", "a1", FALSE, "t1", FALSE, None)}

AuthorityIssues ==
    {[ref |-> "g1", owner |-> "a1", scopes |-> {Attempt("a")}, ttl |-> 2]}

\* Inside and beyond the grant's life, bound to another action or not, with and without proof.
AuthorityMints ==
    {[token |-> "t1", agent |-> "a1", ref |-> "g1", audience |-> "p1", ttl |-> m[1],
      bound |-> m[2], pop |-> m[3]] :
        m \in {<<1, {}, FALSE>>, <<1, {}, TRUE>>, <<3, {}, TRUE>>, <<3, {Attempt("b")}, FALSE>>}}

\* One agent under mandates: with and without what each of them asks for.
MandateCalls ==
    {Delegated("p1", "a1", TRUE, "t1", TRUE, "b1"), Delegated("p1", "a1", TRUE, "t1", TRUE, None),
     Delegated("p1", "a1", TRUE, None, FALSE, "b1"), Direct("a1", Attempt("a"), None)}

MandateMints == {m \in AuthorityMints : m.ttl = 1 /\ m.bound = {}}

MCCalls == AuthorityCalls \cup MandateCalls

Starts(w) == pc[w] = "idle" /\ pc'[w] # "idle"

\* The workspaces exempt their agents from the boundary mandate, which is on by default.
Exempting ==
    [h \in Holders |-> [m \in AllMandates |->
        IF h \in Workspaces /\ m = "boundary" THEN "off" ELSE "unset"]]

\* The exemptions come first and stay; the other workspace's boundary stays active.
ChangesAuthority ==
    /\ IF settings = Exempting THEN UNCHANGED settings
       ELSE /\ settings' # settings
            /\ \A h \in Holders : settings'[h] \in {settings[h], Exempting[h]}
    /\ boundary'["b2"] # "disabled"
    /\ \A w \in Workers : Starts(w) => call'[w] \in AuthorityCalls \cup AuthorityMints

ChangesMandates ==
    /\ now' = 0
    /\ \A w \in Workers : Starts(w) => call'[w] \in MandateCalls \cup MandateMints
    /\ boundary'["b1"] # "disabled" /\ boundary'["b2"] = None
    /\ \A h \in {"a2", "w2"} : settings'[h] = settings[h]

EnforcementInit == Init /\ kind \in {"authority", "mandates"}

EnforcementNext ==
    /\ Next
    /\ UNCHANGED kind
    /\ CASE kind = "authority" -> ChangesAuthority
         [] kind = "mandates" -> ChangesMandates

EnforcementSpec == EnforcementInit /\ [][EnforcementNext]_<<vars, kind>>
=============================================================================
