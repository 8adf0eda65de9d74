------------------------------ MODULE MCServing ------------------------------
(***************************************************************************)
(* Three parts of a serving process that share no state, checked in one     *)
(* run: the HTTP gateway, the reports read through it, and the exporter.    *)
(* Each behaviour is one of the three; the others stay at their start.      *)
(***************************************************************************)
EXTENDS Gateway, AuditReports, AuditExport

VARIABLE part

Symmetry == Permutations(Threads)

Key(role, owner) == [role |-> role, workspace |-> "A", owner |-> owner]
MCKeys ==
    [w1 |-> Key("workspace", "workspace"), w2 |-> Key("workspace", "workspace"),
     a1 |-> Key("agent", "agent"), a2 |-> Key("agent", "agent"),
     auditor |-> Key("auditor", "auditor"), pep |-> Key("pep", "pep"),
     operator |-> Key("service_operator", "service")]
MCSuccessor == [w1 |-> "w2", a1 |-> "a2"]

Token(groups, workspace) == [groups |-> groups, workspace |-> workspace]
MCTokens ==
    [manages |-> Token({"operator"}, "A"), audits |-> Token({"auditor"}, "A"),
     serves |-> Token({"service_operator"}, "none"),
     elsewhere |-> Token({"operator", "service_operator"}, "B")]

Origin(peer, hops, short, from) == [peer |-> peer, hops |-> hops, short |-> short, sender |-> from]
Direct(client) == Origin(client, <<>>, TRUE, client)
Forged == Origin("b", <<"a">>, TRUE, "b")                            \* claims to forward for a
Proxied == Origin("proxy", <<"a", "b", "proxy">>, TRUE, "b")         \* the same, behind two proxies
Unknown == Origin("proxy", <<"a", "bad">>, TRUE, "unknown")
OtherOrigins ==
    {Origin("proxy", <<"a">>, TRUE, "a"), Origin("proxy", <<"proxy">>, TRUE, "unknown"),
     Origin("proxy", <<"a">>, FALSE, "unknown"), Origin("proxy", <<>>, TRUE, "unknown")}

Asks(route, headers) ==
    [route |-> route, shape |-> "ok", body |-> "ok", headers |-> headers, idem |-> "none",
     fingerprint |-> "x", origin |-> Direct("a")]
Keyed(route, headers, idem, fingerprint) ==
    [Asks(route, headers) EXCEPT !.idem = idem, !.fingerprint = fingerprint]
From(origin) == [Asks("healthz", Empty) EXCEPT !.shape = "method", !.origin = origin]

Mix(limited, ticks, rotates, n, requests) ==
    [limited |-> limited, ticks |-> ticks, rotates |-> rotates, arrivals |-> n, requests |-> requests]

Nobody == [agent |-> "wrong", pep |-> "wrong"]
Credentials ==
    {[workspace |-> "w1"], [workspace |-> "w2"], [workspace |-> "auditor"], [workspace |-> "audits"],
     [auditor |-> "auditor"], [auditor |-> "manages"], [agent |-> "a1"], [agent |-> "a2"],
     [agent |-> "manages"], [pep |-> "pep"], [service_operator |-> "operator"],
     [bearer |-> "manages"], [bearer |-> "audits"], [bearer |-> "serves"], [bearer |-> "elsewhere"],
     [bearer |-> "manages", agent |-> "a1"], [workspace |-> "a1", auditor |-> "auditor"],
     [workspace |-> "a1", agent |-> "a1"]}

MCMixes ==
    {Mix(TRUE, 3, {}, 4, {From(o) : o \in {Direct("a"), Forged, Unknown}}),
     Mix(TRUE, 0, {}, 3, {From(o) : o \in OtherOrigins \cup {Direct("a"), Proxied}}
                                \cup {Asks("healthz", Empty)}),
     Mix(FALSE, 3, {}, 4, {Asks(r, Nobody) : r \in {"enforce", "delegated"}}),
     Mix(FALSE, 1, {"w1"}, 3,
         {Keyed("boundary", h, "k", "x") :
             h \in {[workspace |-> "w1"], [workspace |-> "w2"], [bearer |-> "manages"]}}),
     Mix(FALSE, 0, {"w1", "a1"}, 2,
         {Keyed("tokens", [agent |-> k], "k", "x") : k \in {"a1", "a2"}}
         \cup {Keyed(r, [workspace |-> "w1"], "k", f) :
                  r \in {"issue", "approve", "reject", "auto_approve", "rule"}, f \in {"x", "y"}}),
     Mix(FALSE, 0, {"w1", "a1", "w2"}, 1,
         {Asks(r, h) : r \in DOMAIN Routes, h \in Credentials}
         \cup {Keyed(r, [bearer |-> "audits"], "k", "x") : r \in DOMAIN Routes}
         \cup {Keyed("issue", [workspace |-> "w1"], "malformed", "x")}),
     Mix(FALSE, 0, {}, 1,
         {Asks(r, Empty) : r \in DOMAIN OpenRoutes \cup {"unknown"}}
         \cup {[Asks(r, [workspace |-> "w1"]) EXCEPT !.shape = s, !.body = b] :
                  r \in {"enforce", "issue", "revoke"}, s \in {"ok", "method", "path"},
                  b \in {"ok", "invalid", "unreadable"}}
         \cup {[Keyed("issue", [workspace |-> "w1"], "k", "x") EXCEPT !.body = "invalid"]})}

ServingInit ==
    /\ part \in {"gateway", "reports", "export"}
    /\ GatewayInit /\ ReportsInit /\ ExportInit
    /\ part # "gateway" => mix = CHOOSE m \in Mixes : TRUE

ServingNext ==
    /\ UNCHANGED part
    /\ \/ part = "gateway" /\ GatewayNext /\ UNCHANGED <<reportVars, exportVars>>
       \/ part = "reports" /\ ReportsNext /\ UNCHANGED <<gatewayVars, exportVars>>
       \/ part = "export" /\ ExportNext /\ UNCHANGED <<gatewayVars, reportVars>>

Serving == ServingInit /\ [][ServingNext]_<<part, gatewayVars, reportVars, exportVars>>
=============================================================================
