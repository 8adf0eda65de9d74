------------------------------- MODULE Gateway -------------------------------
(***************************************************************************)
(* The HTTP server: one handler thread per connection, each taking a        *)
(* request through the rate limiter, routing, authentication and, for a     *)
(* mutation with an Idempotency-Key, the idempotency store, while keys are  *)
(* rotated and revoked by other processes.                                  *)
(*                                                                          *)
(* A handler is described by a route: who may call it, when it looks at the *)
(* method and the body, and what its service call can answer.  What the     *)
(* services do is in the other modules; here an outcome is the status of    *)
(* the answer and whether the service acted for the caller.                 *)
(***************************************************************************)
EXTENDS RequestLimits

CONSTANTS
    Threads,      \* handler threads
    Keys,         \* local keys: role, workspace and owner
    Tokens,       \* OIDC tokens: groups, workspace claim
    Allowed,      \* VINCTOR_OIDC_ALLOWED_WORKSPACE_IDS
    Successor,    \* the key that takes a key's place when it is rotated
    Mixes,        \* the kinds of requests that arrive together, and the limiter's setting
    Retention,    \* how long the idempotency store replays an answer
    MaxTime       \* bound: clock

\* Rotation issues a key of its own for every key it replaces, and no token is a key.
ASSUME GatewayAssumption ==
    /\ DOMAIN Successor \subseteq DOMAIN Keys
    /\ \A k \in DOMAIN Successor : Successor[k] \in DOMAIN Keys
    /\ \A j, k \in DOMAIN Successor : Successor[j] = Successor[k] => j = k
    /\ DOMAIN Keys \cap DOMAIN Tokens = {}
    /\ IsFiniteSet(Threads) /\ MaxTime \in Nat /\ Retention \in Nat \ {0}

\* Who sends a request: the peer itself or, behind a trusted proxy, the client the proxies
\* name; where they name none, whoever uses that proxy counts as one sender.
ASSUME SendersAssumption ==
    \A m \in Mixes : \A r \in m.requests :
        LET origin == r.origin
        IN  IF origin.peer \notin TrustedProxies THEN origin.sender = origin.peer
            ELSE /\ origin.sender \notin TrustedProxies
                 /\ IF NamesClient(origin) THEN origin.sender = origin.hops[ClientHop(origin.hops)]
                    ELSE \A q \in m.requests :
                            q.origin.peer = origin.peer /\ ~NamesClient(q.origin)
                            => q.origin.sender = origin.sender

VARIABLES
    mix,         \* the mix of this behaviour
    arrivals,    \* requests so far
    time,        \* time.time() and now()
    keyState,    \* the local keys: not yet issued, active or revoked
    thread,      \* the handler threads
    admitted,    \* per sender: when the limiter let a request of theirs pass
    terminal,    \* the idempotency store: scope -> fingerprint, status and when it expires
    effects      \* what requests with an Idempotency-Key have changed, in order

gatewayVars == <<sources, failing, tally, mix, arrivals, time, keyState, thread, admitted,
                 terminal, effects>>

(***************************************************************************)
(* Routes.                                                                  *)
(***************************************************************************)
Outcome(status, acts) == [status |-> status, acts |-> acts]

\* roles: whose credentials are looked at.  target: the header a bearer token stands for.
\* surface: where failures are recorded.  early: the method is refused before the body is
\* read and the caller is known.  keyed: whose principal scopes an Idempotency-Key.
Decision(role, surface, outcomes) ==
    [roles |-> {role}, target |-> "none", surface |-> surface, early |-> TRUE,
     body |-> TRUE, keyed |-> "none", outcomes |-> outcomes]

Administration(roles, body, keyed, outcomes) ==
    [roles |-> roles, target |-> "workspace", surface |-> "none", early |-> FALSE,
     body |-> body, keyed |-> keyed, outcomes |-> outcomes]

\* Enforcing, observing and simulating act by recording the decision; a refusal for an
\* unknown grant or token is recorded on a best-effort basis only.
EnforceOutcomes ==
    {Outcome(200, TRUE), Outcome(403, TRUE)}
    \cup {Outcome(status, FALSE) : status \in {400, 403, 503}}
DelegatedOutcomes == EnforceOutcomes
ObserveOutcomes == {Outcome(200, TRUE), Outcome(400, FALSE), Outcome(503, FALSE)}
SimulateOutcomes == {Outcome(200, TRUE), Outcome(400, FALSE), Outcome(503, FALSE)}
TokenOutcomes == {Outcome(201, TRUE), Outcome(403, FALSE)}
BoundaryCreateOutcomes == {Outcome(201, TRUE), Outcome(400, FALSE)}
BoundarySetOutcomes == {Outcome(200, TRUE), Outcome(404, FALSE)}
RuleCreateOutcomes == {Outcome(201, TRUE), Outcome(400, FALSE)}
RuleDisableOutcomes == {Outcome(200, TRUE), Outcome(404, FALSE)}
RequestCreateOutcomes == {Outcome(201, TRUE), Outcome(400, FALSE), Outcome(503, FALSE)}
RequestReadOutcomes == {Outcome(200, FALSE), Outcome(404, FALSE)}
AutoApproveOutcomes ==
    {Outcome(200, TRUE), Outcome(200, FALSE)}
    \cup {Outcome(status, FALSE) : status \in {400, 403, 404, 409, 503}}
ApproveOutcomes ==
    {Outcome(200, TRUE)} \cup {Outcome(status, FALSE) : status \in {400, 403, 404, 409, 503}}
RejectOutcomes == ApproveOutcomes
IssueOutcomes == {Outcome(201, TRUE)} \cup {Outcome(status, FALSE) : status \in {400, 403, 503}}
GrantReadOutcomes == {Outcome(200, FALSE), Outcome(400, FALSE), Outcome(404, FALSE)}
RevokeOutcomes == {Outcome(200, TRUE), Outcome(404, FALSE)}
AuditOutcomes == {Outcome(status, FALSE) : status \in {200, 400, 404}}
FailureOutcomes == {Outcome(200, FALSE), Outcome(400, FALSE)}

EnforceRoute == Decision("agent", "enforce", EnforceOutcomes)
ObserveRoute == Decision("agent", "observe", ObserveOutcomes)
SimulateRoute == Decision("agent", "simulate", SimulateOutcomes)
DelegatedRoute == Decision("pep", "delegated", DelegatedOutcomes)
TokenRoute == [Decision("agent", "tokens", TokenOutcomes) EXCEPT !.keyed = "agent"]
BoundaryCreateRoute == Administration({"workspace"}, TRUE, "workspace", BoundaryCreateOutcomes)
BoundarySetRoute == Administration({"workspace"}, FALSE, "none", BoundarySetOutcomes)
RuleCreateRoute == Administration({"workspace"}, TRUE, "workspace", RuleCreateOutcomes)
RuleDisableRoute == Administration({"workspace"}, FALSE, "none", RuleDisableOutcomes)
RequestCreateRoute == Administration({"agent"}, TRUE, "none", RequestCreateOutcomes)
RequestReadRoute == Administration({"workspace", "agent"}, FALSE, "none", RequestReadOutcomes)
AutoApproveRoute == Administration({"workspace"}, TRUE, "workspace", AutoApproveOutcomes)
ApproveRoute == Administration({"workspace"}, TRUE, "workspace", ApproveOutcomes)
RejectRoute == Administration({"workspace"}, TRUE, "workspace", RejectOutcomes)
IssueRoute == Administration({"workspace"}, TRUE, "workspace", IssueOutcomes)
GrantReadRoute == Administration({"workspace"}, FALSE, "none", GrantReadOutcomes)
RevokeRoute == Administration({"workspace"}, FALSE, "none", RevokeOutcomes)
AuditRoute ==
    [Administration({"workspace", "auditor"}, FALSE, "none", AuditOutcomes) EXCEPT !.target = "auditor"]
FailuresRoute ==
    [Administration({"service_operator"}, FALSE, "none", FailureOutcomes)
        EXCEPT !.target = "service_operator"]

Routes ==
    [enforce |-> EnforceRoute, observe |-> ObserveRoute, simulate |-> SimulateRoute,
     delegated |-> DelegatedRoute, tokens |-> TokenRoute,
     boundary |-> BoundaryCreateRoute, set_boundary |-> BoundarySetRoute,
     rule |-> RuleCreateRoute, disable_rule |-> RuleDisableRoute,
     ask |-> RequestCreateRoute, request |-> RequestReadRoute,
     auto_approve |-> AutoApproveRoute, approve |-> ApproveRoute, reject |-> RejectRoute,
     issue |-> IssueRoute, grant |-> GrantReadRoute, revoke |-> RevokeRoute,
     audit |-> AuditRoute, failures |-> FailuresRoute]

\* What is answered without a database connection and without authentication.
HealthOutcomes == {200}
ReadinessOutcomes == {200, 503}
MetricsOutcomes == {200, 404}
OpenRoutes == [healthz |-> HealthOutcomes, readyz |-> ReadinessOutcomes, metrics |-> MetricsOutcomes]

ASSUME SurfacesAssumption ==
    \A route \in DOMAIN Routes : Routes[route].surface \in Surfaces \cup {"none"}

(***************************************************************************)
(* Authentication.                                                          *)
(***************************************************************************)
\* principal_from_claims: a workspace role needs an allowed workspace claim, or the
\* token stands for nobody.
WorkspaceRoles == {"operator", "auditor"}
TokenRoles(token) ==
    IF Tokens[token].groups \cap WorkspaceRoles # {} /\ Tokens[token].workspace \notin Allowed
    THEN {}
    ELSE Tokens[token].groups

\* Variant: an auditor's token stands for a workspace key.
AcceptedRolesLoose ==
    [workspace |-> WorkspaceRoles, auditor |-> WorkspaceRoles, service_operator |-> {"service_operator"}]

\* The token roles that stand for a local key of each kind; agents and PEPs have none.
AcceptedRoles ==
    [workspace |-> {"operator"}, auditor |-> WorkspaceRoles, service_operator |-> {"service_operator"}]

LocalIdentity(role, credential) ==
    {[workspace |-> Keys[k].workspace, name |-> Keys[k].owner] :
        k \in {k \in DOMAIN Keys \cap {credential} : keyState[k] = "active" /\ Keys[k].role = role}}

\* jwks: the signing keys could be had this time; else a token verifies as nobody's.
TokenIdentity(role, credential, jwks) ==
    {[workspace |-> Tokens[k].workspace, name |-> role] :
        k \in {k \in DOMAIN Tokens \cap {credential} :
                  jwks /\ role \in DOMAIN AcceptedRoles /\ TokenRoles(k) \cap AcceptedRoles[role] # {}}}

\* A local key first, then an OIDC token; the empty set is nobody.
Resolve(role, credential, jwks) ==
    IF LocalIdentity(role, credential) # {}
    THEN LocalIdentity(role, credential)
    ELSE TokenIdentity(role, credential, jwks)

\* _authorization_headers: a bearer token counts only without any local key header.
LocalHeaders == {"workspace", "auditor", "service_operator", "agent"}
HeadersFor(route, headers) ==
    IF /\ route.target # "none" /\ "bearer" \in DOMAIN headers
       /\ DOMAIN headers \cap LocalHeaders = {}
    THEN With(headers, route.target, headers["bearer"])
    ELSE headers

\* Reading the audit log, a workspace key that is present is the only one looked at.
Tried(route, headers) ==
    IF route.target = "auditor" /\ "workspace" \in DOMAIN headers
    THEN {"workspace"}
    ELSE route.roles \cap DOMAIN headers

\* The workspace's identity is preferred to an agent's where both may read.
Caller(route, sent, jwks) ==
    LET headers == HeadersFor(route, sent)
        found(role) == IF role \in Tried(route, headers) THEN Resolve(role, headers[role], jwks) ELSE {}
    IN  IF found("workspace") # {} THEN found("workspace")
        ELSE UNION {found(role) : role \in Tried(route, headers)}

\* workspace_idempotency_scope and agent_idempotency_scope.
ScopeCaller(route, sent, jwks) ==
    LET headers == HeadersFor(route, sent)
    IN  IF route.keyed \in DOMAIN headers THEN Resolve(route.keyed, headers[route.keyed], jwks) ELSE {}

(***************************************************************************)
(* Handler threads.                                                         *)
(***************************************************************************)
\* barred, valid: the keys already revoked, and the keys active, when the request arrived.
Waiting == [pc |-> "idle", request |-> Empty, stamp |-> 0, caller |-> {}, events |-> <<>>,
            status |-> 0, acted |-> FALSE, barred |-> {}, valid |-> {}]

Senders == UNION {{r.origin.sender : r \in m.requests} : m \in Mixes}

GatewayInit ==
    /\ LimitsInit
    /\ mix \in Mixes
    /\ arrivals = 0 /\ time = 0
    /\ keyState = [k \in DOMAIN Keys |-> IF \E j \in DOMAIN Successor : Successor[j] = k
                                        THEN "unissued" ELSE "active"]
    /\ thread = [t \in Threads |-> Waiting]
    /\ admitted = [s \in Senders |-> [n \in 0..MaxTime |-> 0]]
    /\ terminal = Empty /\ effects = <<>>

Answered(t, status, acted) ==
    [thread EXCEPT ![t].pc = "done", ![t].status = status, ![t].acted = acted,
                   ![t].events = <<>>]

Moved(t, pc) == [thread EXCEPT ![t].pc = pc]

storeVars == <<terminal, effects>>
worldVars == <<mix, arrivals, time, keyState>>

\* A connection is accepted, its predecessor answered; the limiter's clock is read.
Arrive(t) ==
    /\ thread[t].pc \in {"idle", "done"} /\ arrivals < mix.arrivals
    /\ arrivals' = arrivals + 1
    /\ \E request \in mix.requests :
        thread' = [thread EXCEPT ![t] =
            [Waiting EXCEPT !.pc = "gate", !.request = request, !.stamp = time,
                            !.barred = {k \in DOMAIN Keys : keyState[k] = "revoked"},
                            !.valid = {k \in DOMAIN Keys : keyState[k] = "active"}]]
    /\ UNCHANGED <<sources, failing, tally, mix, time, keyState, admitted, terminal, effects>>

Exempt(request) == request.route = "healthz" /\ request.shape = "ok"

\* _check_rate_limit: before anything is leased or read.
Gate(t) ==
    LET request == thread[t].request
        answer == Allow(Source(request.origin), thread[t].stamp)
    IN  /\ thread[t].pc = "gate"
        /\ IF ~mix.limited \/ Exempt(request)
           THEN thread' = Moved(t, "route") /\ UNCHANGED <<sources, admitted>>
           ELSE /\ sources' = answer.table
                /\ IF answer.ok
                   THEN /\ thread' = Moved(t, "route")
                        /\ admitted' = [admitted EXCEPT ![request.origin.sender][time] = @ + 1]
                   ELSE thread' = Answered(t, 429, FALSE) /\ UNCHANGED admitted
        /\ UNCHANGED <<failing, tally, storeVars, worldVars>>

\* Whatever goes wrong in the limiter, the request passes.
FailOpen(t) ==
    /\ thread[t].pc = "gate" /\ mix.limited /\ ~Exempt(thread[t].request)
    /\ thread' = Moved(t, "route")
    /\ UNCHANGED <<limitVars, admitted, storeVars, worldVars>>

\* Health, readiness and metrics; and a path of no route.
AnswerOpen(t) ==
    LET request == thread[t].request
    IN  /\ thread[t].pc = "route" /\ request.route \notin DOMAIN Routes
        /\ \E status \in IF request.route \notin DOMAIN OpenRoutes THEN {404, 503}
                         ELSE IF request.shape = "ok" THEN OpenRoutes[request.route]
                         ELSE {405} : thread' = Answered(t, status, FALSE)
        /\ UNCHANGED <<limitVars, admitted, storeVars, worldVars>>

\* The request scope may not be had in time; then the handlers of decisions look at the
\* method, and those that take a body read it.
Refusals(request) ==
    LET route == Routes[request.route]
        reads == route.body /\ request.shape = "ok"
    IN  {503} \cup IF route.early /\ request.shape # "ok" THEN {405}
                   ELSE IF reads /\ request.body = "unreadable" THEN {400, 413}
                   ELSE {}

RefuseUnread(t) ==
    /\ thread[t].pc = "route" /\ thread[t].request.route \in DOMAIN Routes
    /\ \E status \in Refusals(thread[t].request) : thread' = Answered(t, status, FALSE)
    /\ UNCHANGED <<limitVars, admitted, storeVars, worldVars>>

\* A mutation with an Idempotency-Key.
IsKeyed(request) ==
    request.idem # "none" /\ Routes[request.route].keyed # "none" /\ request.shape = "ok"

\* The handler reads its clock; a keyed mutation resolves the key's scope first.
EnterHandler(t) ==
    LET request == thread[t].request
        route == Routes[request.route]
    IN  /\ thread[t].pc = "route" /\ request.route \in DOMAIN Routes
        /\ route.early => request.shape = "ok"
        /\ route.body /\ request.shape = "ok" => request.body # "unreadable"
        /\ thread' = [thread EXCEPT
                ![t].stamp = time,
                ![t].pc = IF IsKeyed(request) THEN "scope" ELSE "auth"]
        /\ UNCHANGED <<limitVars, admitted, storeVars, worldVars>>

\* A body that is read must parse: its fields, their types, nothing else.
BadBody(request) == Routes[request.route].body /\ request.body = "invalid"

\* Nobody to scope the key to: the plain handler answers.  Else the body is parsed.
ResolveScope(t) ==
    LET request == thread[t].request
        caller(jwks) == ScopeCaller(Routes[request.route], request.headers, jwks)
    IN  /\ thread[t].pc = "scope"
        /\ \E jwks \in BOOLEAN :
            thread' = IF caller(jwks) = {} THEN Moved(t, "auth")
                      ELSE IF BadBody(request) THEN Answered(t, 400, FALSE)
                      ELSE [Moved(t, "execute") EXCEPT ![t].caller = caller(jwks)]
        /\ UNCHANGED <<limitVars, admitted, storeVars, worldVars>>

\* Authentication, then method and path, then the body.  A keyed mutation that found nobody
\* to scope its key to is authenticated again, and goes on without the key.
Authenticate(t) ==
    LET request == thread[t].request
        route == Routes[request.route]
        caller(jwks) == Caller(route, request.headers, jwks)
    IN  /\ thread[t].pc = "auth"
        /\ \E jwks \in BOOLEAN :
            thread' = IF caller(jwks) = {}
                      THEN IF route.surface # "none" THEN Moved(t, "record")
                           ELSE Answered(t, 401, FALSE)
                      ELSE IF request.shape = "method" THEN Answered(t, 405, FALSE)
                      ELSE IF request.shape = "path" THEN Answered(t, 404, FALSE)
                      ELSE IF BadBody(request) THEN Answered(t, 400, FALSE)
                      ELSE [Moved(t, "work") EXCEPT ![t].caller = caller(jwks)]
        /\ UNCHANGED <<limitVars, admitted, storeVars, worldVars>>

\* The backend fails while the caller is being resolved.
LoseBackend(t) ==
    /\ thread[t].pc \in {"scope", "auth"}
    /\ thread' = Answered(t, 503, FALSE)
    /\ UNCHANGED <<limitVars, admitted, storeVars, worldVars>>

\* record_auth_failure: one critical section, then the events, then 401 in any case.
CountFailure(t) ==
    LET surface == Routes[thread[t].request.route].surface
        events == FailureEvents(surface, thread[t].stamp)
    IN  /\ thread[t].pc = "record"
        /\ RecordFailure(surface, thread[t].stamp)
        /\ thread' = IF events = <<>> THEN Answered(t, 401, FALSE)
                     ELSE [Moved(t, "emit") EXCEPT ![t].events = events]
        /\ UNCHANGED <<sources, admitted, storeVars, worldVars>>

WriteFailureEvent(t) ==
    /\ thread[t].pc = "emit"
    /\ \E written \in BOOLEAN :
        EmitFailure(Routes[thread[t].request.route].surface, Head(thread[t].events), written)
    /\ thread' = IF Len(thread[t].events) = 1 THEN Answered(t, 401, FALSE)
                 ELSE [thread EXCEPT ![t].events = Tail(@)]
    /\ UNCHANGED <<sources, admitted, storeVars, worldVars>>

\* A lost backend may have committed what it was asked to.
LostOutcomes(outcomes) == {Outcome(503, acts) : acts \in {FALSE} \cup {o.acts : o \in outcomes}}

\* Variant: the principal is the key that was presented.
ScopeByKey(t) ==
    LET who == CHOOSE w \in thread[t].caller : TRUE
        request == thread[t].request
        headers == HeadersFor(Routes[request.route], request.headers)
    IN  [workspace |-> who.workspace, principal |-> headers[Routes[request.route].keyed],
         operation |-> request.route, key |-> request.idem]

\* What the store knows a keyed mutation by: the principal is the workspace or the
\* agent, whichever of its keys was presented.
Scope(t) ==
    LET who == CHOOSE w \in thread[t].caller : TRUE
        request == thread[t].request
    IN  [workspace |-> who.workspace, principal |-> who.name, operation |-> request.route,
         key |-> request.idem]

\* What the client means by one mutation, whatever credential it presents.
Intent(t) ==
    LET who == CHOOSE w \in thread[t].caller : TRUE
    IN  <<who.workspace, who.name, thread[t].request.route, thread[t].request.idem>>

\* The client's local key was good when the request arrived.
Trusted(r) ==
    LET route == Routes[r.request.route]
        headers == HeadersFor(route, r.request.headers)
    IN  /\ route.keyed \in DOMAIN headers
        /\ headers[route.keyed] \in r.valid /\ Keys[headers[route.keyed]].role = route.keyed

\* What a keyed request changed: stored with its answer, and until when that is kept; or
\* unscoped, nobody having been found to scope its key to; or beside the store although
\* its caller could have been found.
Effect(t, how, until) == [intent |-> Intent(t), how |-> how, at |-> time, until |-> until]
Unstored(r) == IF Trusted(r) THEN "beside" ELSE "unscoped"

\* The service call of a handler.
Work(t) ==
    LET request == thread[t].request
        outcomes == Routes[request.route].outcomes
    IN  /\ thread[t].pc = "work"
        /\ \E outcome \in outcomes \cup LostOutcomes(outcomes) :
            /\ thread' = Answered(t, outcome.status, outcome.acts)
            /\ effects' = IF outcome.acts /\ IsKeyed(request)
                          THEN Append(effects, Effect(t, Unstored(thread[t]), time)) ELSE effects
        /\ UNCHANGED <<limitVars, admitted, terminal, worldVars>>

UnusableKey(idem) == idem = "malformed"

\* execute_idempotent_http with a key it cannot use, or a store that cannot be written.
RefuseKeyed(t) ==
    LET request == thread[t].request
    IN  /\ thread[t].pc = "execute"
        /\ thread' = Answered(t, IF UnusableKey(request.idem) THEN 400 ELSE 503, FALSE)
        /\ UNCHANGED <<limitVars, admitted, storeVars, worldVars>>

\* An answer past its time is as good as none.
Remembered(scope) == scope \in DOMAIN terminal /\ terminal[scope].until > time

\* terminal_expiry_epoch: an answer with a token in it is kept no longer than the token lives.
Expiries(t, outcome) ==
    IF thread[t].request.route = "tokens" /\ outcome.status = 201
    THEN time..(time + Retention)
    ELSE {time + Retention}

\* A known key: the stored answer, or a conflict with another request's fingerprint.
Replay(t) ==
    LET known == terminal[Scope(t)]
    IN  /\ thread[t].pc = "execute" /\ ~UnusableKey(thread[t].request.idem)
        /\ Remembered(Scope(t))
        /\ thread' = Answered(t, IF known.fingerprint = thread[t].request.fingerprint
                                 THEN known.status ELSE 409, FALSE)
        /\ UNCHANGED <<limitVars, admitted, storeVars, worldVars>>

\* A new key: the mutation and its answer are stored together; the answer may be lost.
Execute(t) ==
    /\ thread[t].pc = "execute" /\ ~UnusableKey(thread[t].request.idem)
    /\ ~Remembered(Scope(t))
    /\ \E outcome \in Routes[thread[t].request.route].outcomes :
       \E until \in Expiries(t, outcome) :
        /\ terminal' = With(terminal, Scope(t),
                            [fingerprint |-> thread[t].request.fingerprint,
                             status |-> outcome.status, until |-> until])
        /\ effects' = IF outcome.acts THEN Append(effects, Effect(t, "stored", until)) ELSE effects
        /\ \E status \in {outcome.status, 503} : thread' = Answered(t, status, outcome.acts)
    /\ UNCHANGED <<limitVars, admitted, worldVars>>

(***************************************************************************)
(* The world around the server.                                             *)
(***************************************************************************)
RotateKey(k) ==
    /\ k \in mix.rotates /\ keyState[k] = "active"
    /\ keyState' = [keyState EXCEPT ![k] = "revoked", ![Successor[k]] = "active"]
    /\ UNCHANGED <<limitVars, mix, arrivals, time, thread, admitted, storeVars>>

RevokeKey(k) ==
    /\ k \in mix.rotates /\ keyState[k] = "active"
    /\ keyState' = [keyState EXCEPT ![k] = "revoked"]
    /\ UNCHANGED <<limitVars, mix, arrivals, time, thread, admitted, storeVars>>

Tick ==
    /\ time < mix.ticks /\ time < MaxTime
    /\ time' = time + 1
    /\ UNCHANGED <<limitVars, mix, arrivals, keyState, thread, admitted, storeVars>>

Serve(t) ==
    \/ Arrive(t) \/ Gate(t) \/ FailOpen(t) \/ AnswerOpen(t) \/ RefuseUnread(t) \/ EnterHandler(t)
    \/ ResolveScope(t) \/ Authenticate(t) \/ LoseBackend(t) \/ CountFailure(t)
    \/ WriteFailureEvent(t) \/ Work(t) \/ RefuseKeyed(t) \/ Replay(t) \/ Execute(t)

GatewayNext ==
    \/ \E t \in Threads : Serve(t)
    \/ \E k \in DOMAIN Successor : RotateKey(k)
    \/ \E k \in DOMAIN Keys : RevokeKey(k)
    \/ Tick

GatewaySpec == GatewayInit /\ [][GatewayNext]_gatewayVars

(***************************************************************************)
(* Properties.                                                              *)
(***************************************************************************)
\* As many elements as the numbers of f add up to over S.
Units(f, S) == UNION {{x} \X (1..f[x]) : x \in S}

(* A 429 is earned: the limiter has let MaxRequests requests of the same     *)
(* sender pass since less than a window before the refused one arrived.      *)
(* Nobody is refused for what others send, whatever forwarding headers they  *)
(* invent and although threads bring their clock values late (ratelimit.py   *)
(* allow / resolve_rate_limit_source).                                       *)
RefusalsAreEarned ==
    \A t \in Threads : thread[t].status = 429 =>
        LET passed == admitted[thread[t].request.origin.sender]
        IN  Cardinality(Units(passed, {n \in 0..MaxTime : n > thread[t].stamp - Window})) >= MaxRequests

(* The audit log accounts for every authentication failure but those whose   *)
(* event could not be written: once no event is still to be written,         *)
(* summaries, timely events, the open window and what the swallowed writes   *)
(* carried add up to the failures of the surface, although the events of a   *)
(* closed window are written while others already count in the next one      *)
(* (audit.py AuthFailureAuditThrottle.record, record_rejection).             *)
FailuresAreCounted ==
    \A s \in DOMAIN failing :
        (\A t \in Threads : thread[t].pc = "emit" => Routes[thread[t].request.route].surface # s)
            => Accounted(s, failing[s].count) + tally[s].lost = tally[s].failures

AgentRoutes == {"enforce", "observe", "simulate", "tokens", "ask"}

(* Whoever makes the service act had the right to: an agent's key for an     *)
(* agent's operation, a PEP's for delegated enforcement, a workspace key or  *)
(* an operator's token for administration - of the same workspace, and not   *)
(* a key that was revoked before the request arrived.  No read-only auditor, *)
(* service operator or token of another workspace ever changes anything      *)
(* (local_http.py resolvers, oidc.py principal_from_claims).                 *)
ActionsAreAuthorized ==
    \A t \in Threads : thread[t].acted =>
        LET request == thread[t].request
            presented == {request.headers[h] : h \in DOMAIN request.headers}
            role == IF request.route \in AgentRoutes THEN "agent"
                    ELSE IF request.route = "delegated" THEN "pep" ELSE "workspace"
        IN  \A who \in thread[t].caller : \E c \in presented :
                \/ /\ c \in DOMAIN Keys \ thread[t].barred
                   /\ Keys[c].role = role /\ Keys[c].workspace = who.workspace
                \/ /\ c \in DOMAIN Tokens /\ role = "workspace"
                   /\ "operator" \in Tokens[c].groups
                   /\ Tokens[c].workspace = who.workspace /\ who.workspace \in Allowed

(* A mutation sent again under its Idempotency-Key takes effect once in the  *)
(* time its answer is kept, although the client's key was rotated in between *)
(* and both requests run at the same time.  Nor does such a request ever act *)
(* without the store knowing of it if its local key was active on arrival:   *)
(* a caller looked up twice is not found only the second time (local_http.py *)
(* workspace_idempotency_scope and agent_idempotency_scope,                  *)
(* idempotency_http.py execute_idempotent_http).  Of a token, or of a key    *)
(* issued while the request was under way, it does not say the latter: they  *)
(* may act unscoped, and then again when the request is repeated.            *)
KeyedActionsHappenOnce ==
    /\ \A j \in DOMAIN effects : \A i \in 1..(j - 1) :
        effects[i].intent = effects[j].intent /\ effects[i].how = "stored" /\ effects[j].how = "stored"
            => effects[i].until <= effects[j].at
    /\ \A i \in DOMAIN effects : effects[i].how # "beside"
=============================================================================
