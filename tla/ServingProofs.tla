--------------------------- MODULE ServingProofs ---------------------------
(***************************************************************************)
(* The HTTP server: its gateway, for any number of handler threads, keys,  *)
(* tokens and mixes of requests, and /readyz against PostgreSQL, for any   *)
(* number of callers and any limit on abandoned workers.                   *)
(***************************************************************************)
EXTENDS Gateway, Readiness, FiniteSetTheorems, SequenceTheorems, TLAPS

(***************************************************************************)
(* The gateway: who acts.                                                  *)
(***************************************************************************)
RoleOf(route) ==
    IF route \in AgentRoutes THEN "agent" ELSE IF route = "delegated" THEN "pep" ELSE "workspace"

\* A credential that entitles to act in a role.
Entitles(c, role, barred, who) ==
    \/ /\ c \in DOMAIN Keys \ barred
       /\ Keys[c].role = role /\ Keys[c].workspace = who.workspace
    \/ /\ c \in DOMAIN Tokens /\ role = "workspace"
       /\ "operator" \in Tokens[c].groups
       /\ Tokens[c].workspace = who.workspace /\ who.workspace \in Allowed

\* Whoever a request was taken to come from presented such a credential.
Entitled(request, barred, found) ==
    \A who \in found : \E h \in DOMAIN request.headers :
        Entitles(request.headers[h], RoleOf(request.route), barred, who)

\* A route one of whose outcomes changes something.
Acting(route) == \E o \in Routes[route].outcomes : o.acts = TRUE

Fields == {"pc", "request", "stamp", "caller", "events", "status", "acted", "barred", "valid"}

\* What a handler thread knows of its request at each stage.
Fits(r) ==
    /\ DOMAIN r = Fields /\ r.acted \in BOOLEAN
    /\ r.pc \in {"scope", "auth", "work", "execute"} => r.request.route \in DOMAIN Routes
    /\ r.pc \in {"scope", "execute"} => Routes[r.request.route].keyed # "none"
    /\ r.pc = "execute" \/ (r.pc = "work" /\ Acting(r.request.route)) \/ r.acted
         => Entitled(r.request, r.barred, r.caller)
    /\ r.acted => r.pc = "done"

BarredAreRevoked(r) == \A k \in r.barred : k \in DOMAIN Keys /\ keyState[k] = "revoked"

\* A key that is still to be rotated has no successor yet.
SuccessorsWait ==
    \A k \in DOMAIN Successor :
        keyState[k] \in {"active", "unissued"} => keyState[Successor[k]] = "unissued"

GatewayInv ==
    /\ thread = [t \in Threads |-> thread[t]]
    /\ keyState \in [DOMAIN Keys -> {"unissued", "active", "revoked"}]
    /\ SuccessorsWait
    /\ \A t \in Threads : Fits(thread[t]) /\ BarredAreRevoked(thread[t])

\* A handler thread moves, and nothing else it relies on.
OnlyMoves(t) ==
    /\ thread' = [u \in Threads |-> thread'[u]]
    /\ \A u \in Threads \ {t} : thread'[u] = thread[u]
    /\ DOMAIN thread'[t] = Fields
    /\ UNCHANGED keyState

\* It stays with its request.
SameRequest(t) ==
    /\ thread'[t].request = thread[t].request /\ thread'[t].barred = thread[t].barred
    /\ thread'[t].valid = thread[t].valid

LEMMA ThreadMoves ==
    ASSUME GatewayInv, NEW t \in Threads, OnlyMoves(t), Fits(thread'[t]), BarredAreRevoked(thread'[t])
    PROVE  GatewayInv'
  <1>1. ASSUME NEW u \in Threads  PROVE Fits(thread'[u]) /\ BarredAreRevoked(thread'[u])
    BY DEF OnlyMoves, GatewayInv
  <1>2. \A u \in Threads : BarredAreRevoked(thread[u])'
    BY <1>1 DEF BarredAreRevoked, OnlyMoves
  <1>3. \A u \in Threads : Fits(thread[u])'
    BY <1>1 DEF Fits, Entitled, Entitles, Acting
  <1> QED  BY <1>2, <1>3 DEF GatewayInv, SuccessorsWait, OnlyMoves

LEMMA AnsweredFields ==
    ASSUME GatewayInv, NEW t \in Threads, NEW status, NEW acted, thread' = Answered(t, status, acted),
           UNCHANGED keyState
    PROVE  /\ OnlyMoves(t) /\ SameRequest(t) /\ thread'[t].caller = thread[t].caller
           /\ thread'[t].pc = "done" /\ thread'[t].acted = acted
  <1>1. thread = [u \in Threads |-> thread[u]] /\ DOMAIN thread[t] = Fields
    BY DEF GatewayInv, Fits
  <1> QED  BY <1>1, Zenon DEF Answered, OnlyMoves, SameRequest, Fields

LEMMA MovedFields ==
    ASSUME GatewayInv, NEW t \in Threads, NEW pc, thread' = Moved(t, pc), UNCHANGED keyState
    PROVE  /\ OnlyMoves(t) /\ SameRequest(t) /\ thread'[t].caller = thread[t].caller
           /\ thread'[t].pc = pc /\ thread'[t].acted = thread[t].acted
  <1>1. thread = [u \in Threads |-> thread[u]] /\ DOMAIN thread[t] = Fields
    BY DEF GatewayInv, Fits
  <1> QED  BY <1>1, Zenon DEF Moved, OnlyMoves, SameRequest, Fields

\* An answer without effect, or a step to a stage that needs no caller.
LEMMA HarmlessStep ==
    ASSUME GatewayInv, NEW t \in Threads, OnlyMoves(t), SameRequest(t), thread'[t].acted = FALSE,
           thread'[t].pc \notin {"work", "execute"},
           thread'[t].pc \in {"scope", "auth"} => thread[t].request.route \in DOMAIN Routes,
           thread'[t].pc = "scope" => Routes[thread[t].request.route].keyed # "none"
    PROVE  GatewayInv'
  <1>1. Fits(thread'[t])
    BY DEF Fits, OnlyMoves, SameRequest
  <1>2. BarredAreRevoked(thread'[t])
    BY DEF BarredAreRevoked, SameRequest, GatewayInv
  <1> QED  BY <1>1, <1>2, ThreadMoves

\* The caller is known and may act, as far as the route acts at all.
LEMMA CallerKnownStep ==
    ASSUME GatewayInv, NEW t \in Threads, OnlyMoves(t), SameRequest(t), thread'[t].acted = FALSE,
           thread'[t].pc \in {"work", "execute"}, thread[t].request.route \in DOMAIN Routes,
           thread'[t].pc = "execute" => Routes[thread[t].request.route].keyed # "none",
           thread'[t].pc = "execute" \/ Acting(thread[t].request.route)
             => Entitled(thread[t].request, thread[t].barred, thread'[t].caller)
    PROVE  GatewayInv'
  <1>1. Fits(thread'[t])
    <2>1. PICK r : r = thread'[t]
      OBVIOUS
    <2>2. DOMAIN r = Fields /\ r.acted = FALSE
      BY <2>1 DEF OnlyMoves
    <2>3. r.request.route \in DOMAIN Routes /\ (r.pc = "execute" => Routes[r.request.route].keyed # "none")
      BY <2>1 DEF SameRequest
    <2>4. r.pc = "execute" \/ Acting(r.request.route) => Entitled(r.request, r.barred, r.caller)
      BY <2>1 DEF SameRequest
    <2>5. r.pc # "scope"
      BY <2>1
    <2>6. Fits(r)
      BY <2>2, <2>3, <2>4, <2>5 DEF Fits
    <2> QED  BY <2>1, <2>6
  <1>2. BarredAreRevoked(thread'[t])
    BY DEF BarredAreRevoked, SameRequest, GatewayInv
  <1> QED  BY <1>1, <1>2, ThreadMoves

\* The service acts for the caller, or does not.
LEMMA ServedStep ==
    ASSUME GatewayInv, NEW t \in Threads, NEW status, NEW acted \in BOOLEAN,
           thread' = Answered(t, status, acted), UNCHANGED keyState,
           acted => Entitled(thread[t].request, thread[t].barred, thread[t].caller)
    PROVE  GatewayInv'
  <1>1. /\ OnlyMoves(t) /\ SameRequest(t) /\ thread'[t].caller = thread[t].caller
        /\ thread'[t].pc = "done" /\ thread'[t].acted = acted
    BY AnsweredFields
  <1>2. Fits(thread'[t])
    BY <1>1 DEF Fits, OnlyMoves, SameRequest
  <1>3. BarredAreRevoked(thread'[t])
    BY <1>1 DEF BarredAreRevoked, SameRequest, GatewayInv
  <1> QED  BY <1>1, <1>2, <1>3, ThreadMoves

(***************************************************************************)
(* Routes that act are for one role, and no token but an operator's counts *)
(* there.                                                                  *)
(***************************************************************************)
OutcomeFits(o) == (o.acts = TRUE \/ o.acts = FALSE) /\ o.status # 429

LEMMA ActingRoutes ==
    ASSUME NEW route \in DOMAIN Routes
    PROVE  /\ Acting(route) \/ Routes[route].keyed # "none" => Routes[route].roles = {RoleOf(route)}
           /\ Routes[route].keyed # "none" => Routes[route].keyed = RoleOf(route)
           /\ Acting(route) \/ Routes[route].keyed # "none" => Routes[route].target \in {"none", "workspace"}
           /\ \A o \in Routes[route].outcomes : OutcomeFits(o)
  <1>1. CASE route = "enforce"
    <2>1. Routes[route] = EnforceRoute
      BY <1>1 DEF Routes
    <2> QED  BY <1>1, <2>1 DEF EnforceRoute, Decision, EnforceOutcomes, Outcome, OutcomeFits,
       Acting, RoleOf, AgentRoutes
  <1>2. CASE route = "observe"
    <2>1. Routes[route] = ObserveRoute
      BY <1>2 DEF Routes
    <2> QED  BY <1>2, <2>1 DEF ObserveRoute, Decision, ObserveOutcomes, Outcome, OutcomeFits,
       Acting, RoleOf, AgentRoutes
  <1>3. CASE route = "simulate"
    <2>1. Routes[route] = SimulateRoute
      BY <1>3 DEF Routes
    <2> QED  BY <1>3, <2>1 DEF SimulateRoute, Decision, SimulateOutcomes, Outcome, OutcomeFits,
       Acting, RoleOf, AgentRoutes
  <1>4. CASE route = "delegated"
    <2>1. Routes[route] = DelegatedRoute
      BY <1>4 DEF Routes
    <2> QED  BY <1>4, <2>1 DEF DelegatedRoute, Decision, DelegatedOutcomes, EnforceOutcomes, Outcome, OutcomeFits,
       Acting, RoleOf, AgentRoutes
  <1>5. CASE route = "tokens"
    <2>1. Routes[route] = TokenRoute
      BY <1>5 DEF Routes
    <2> QED  BY <1>5, <2>1 DEF TokenRoute, Decision, TokenOutcomes, Outcome, OutcomeFits,
       Acting, RoleOf, AgentRoutes
  <1>6. CASE route = "boundary"
    <2>1. Routes[route] = BoundaryCreateRoute
      BY <1>6 DEF Routes
    <2> QED  BY <1>6, <2>1 DEF BoundaryCreateRoute, Administration, BoundaryCreateOutcomes, Outcome, OutcomeFits,
       Acting, RoleOf, AgentRoutes
  <1>7. CASE route = "set_boundary"
    <2>1. Routes[route] = BoundarySetRoute
      BY <1>7 DEF Routes
    <2> QED  BY <1>7, <2>1 DEF BoundarySetRoute, Administration, BoundarySetOutcomes, Outcome, OutcomeFits,
       Acting, RoleOf, AgentRoutes
  <1>8. CASE route = "rule"
    <2>1. Routes[route] = RuleCreateRoute
      BY <1>8 DEF Routes
    <2> QED  BY <1>8, <2>1 DEF RuleCreateRoute, Administration, RuleCreateOutcomes, Outcome, OutcomeFits,
       Acting, RoleOf, AgentRoutes
  <1>9. CASE route = "disable_rule"
    <2>1. Routes[route] = RuleDisableRoute
      BY <1>9 DEF Routes
    <2> QED  BY <1>9, <2>1 DEF RuleDisableRoute, Administration, RuleDisableOutcomes, Outcome, OutcomeFits,
       Acting, RoleOf, AgentRoutes
  <1>10. CASE route = "ask"
    <2>1. Routes[route] = RequestCreateRoute
      BY <1>10 DEF Routes
    <2> QED  BY <1>10, <2>1 DEF RequestCreateRoute, Administration, RequestCreateOutcomes, Outcome, OutcomeFits,
       Acting, RoleOf, AgentRoutes
  <1>11. CASE route = "request"
    <2>1. Routes[route] = RequestReadRoute
      BY <1>11 DEF Routes
    <2>2. \A o \in RequestReadOutcomes : o.acts = FALSE /\ o.status # 429
      BY DEF RequestReadOutcomes, Outcome
    <2>3. Routes[route].keyed = "none" /\ Routes[route].outcomes = RequestReadOutcomes
      BY <2>1 DEF RequestReadRoute, Administration
    <2> QED  BY <2>2, <2>3 DEF Acting, OutcomeFits
  <1>12. CASE route = "auto_approve"
    <2>1. Routes[route] = AutoApproveRoute
      BY <1>12 DEF Routes
    <2> QED  BY <1>12, <2>1 DEF AutoApproveRoute, Administration, AutoApproveOutcomes, Outcome, OutcomeFits,
       Acting, RoleOf, AgentRoutes
  <1>13. CASE route = "approve"
    <2>1. Routes[route] = ApproveRoute
      BY <1>13 DEF Routes
    <2> QED  BY <1>13, <2>1 DEF ApproveRoute, Administration, ApproveOutcomes, Outcome, OutcomeFits,
       Acting, RoleOf, AgentRoutes
  <1>20. CASE route = "reject"
    <2>1. Routes[route] = RejectRoute
      BY <1>20 DEF Routes
    <2> QED  BY <1>20, <2>1 DEF RejectRoute, Administration, RejectOutcomes, ApproveOutcomes, Outcome, OutcomeFits,
       Acting, RoleOf, AgentRoutes
  <1>14. CASE route = "issue"
    <2>1. Routes[route] = IssueRoute
      BY <1>14 DEF Routes
    <2> QED  BY <1>14, <2>1 DEF IssueRoute, Administration, IssueOutcomes, Outcome, OutcomeFits,
       Acting, RoleOf, AgentRoutes
  <1>15. CASE route = "grant"
    <2>1. Routes[route] = GrantReadRoute
      BY <1>15 DEF Routes
    <2>2. \A o \in GrantReadOutcomes : o.acts = FALSE /\ o.status # 429
      BY DEF GrantReadOutcomes, Outcome
    <2>3. Routes[route].keyed = "none" /\ Routes[route].outcomes = GrantReadOutcomes
      BY <2>1 DEF GrantReadRoute, Administration
    <2> QED  BY <2>2, <2>3 DEF Acting, OutcomeFits
  <1>16. CASE route = "revoke"
    <2>1. Routes[route] = RevokeRoute
      BY <1>16 DEF Routes
    <2> QED  BY <1>16, <2>1 DEF RevokeRoute, Administration, RevokeOutcomes, Outcome, OutcomeFits,
       Acting, RoleOf, AgentRoutes
  <1>17. CASE route = "audit"
    <2>1. Routes[route] = AuditRoute
      BY <1>17 DEF Routes
    <2>2. \A o \in AuditOutcomes : o.acts = FALSE /\ o.status # 429
      BY DEF AuditOutcomes, Outcome
    <2>3. Routes[route].keyed = "none" /\ Routes[route].outcomes = AuditOutcomes
      BY <2>1 DEF AuditRoute, Administration
    <2> QED  BY <2>2, <2>3 DEF Acting, OutcomeFits
  <1>18. CASE route = "failures"
    <2>1. Routes[route] = FailuresRoute
      BY <1>18 DEF Routes
    <2>2. \A o \in FailureOutcomes : o.acts = FALSE /\ o.status # 429
      BY DEF FailureOutcomes, Outcome
    <2>3. Routes[route].keyed = "none" /\ Routes[route].outcomes = FailureOutcomes
      BY <2>1 DEF FailuresRoute, Administration
    <2> QED  BY <2>2, <2>3 DEF Acting, OutcomeFits
  <1>19. route \in {"enforce", "observe", "simulate", "delegated", "tokens", "boundary", "set_boundary", "rule", "disable_rule",
                   "ask", "request", "auto_approve", "approve", "reject", "issue", "grant", "revoke", "audit", "failures"}
    BY DEF Routes
  <1> QED  BY <1>1, <1>2, <1>3, <1>4, <1>5, <1>6, <1>7, <1>8, <1>9,
     <1>10, <1>11, <1>12, <1>13, <1>14, <1>15, <1>16, <1>17, <1>18, <1>19, <1>20

LEMMA LostActs ==
    ASSUME NEW outcomes, \A o \in outcomes : OutcomeFits(o),
           NEW outcome \in outcomes \cup LostOutcomes(outcomes)
    PROVE  OutcomeFits(outcome) /\ (outcome.acts = TRUE => \E o \in outcomes : o.acts = TRUE)
  <1>1. CASE outcome \in outcomes
    BY <1>1
  <1>2. CASE outcome \in LostOutcomes(outcomes)
    <2>1. PICK acts \in {FALSE} \cup {o.acts : o \in outcomes} : outcome = Outcome(503, acts)
      BY <1>2 DEF LostOutcomes
    <2>2. outcome.acts = acts /\ outcome.status # 429
      BY <2>1 DEF Outcome
    <2>3. CASE acts \in {o.acts : o \in outcomes}
      <3>1. PICK o \in outcomes : acts = o.acts
        BY <2>3
      <3> QED  BY <3>1, <2>2 DEF OutcomeFits
    <2>4. CASE acts = FALSE
      BY <2>2, <2>4 DEF OutcomeFits
    <2> QED  BY <2>3, <2>4
  <1> QED  BY <1>1, <1>2

(***************************************************************************)
(* Whom a credential stands for.                                           *)
(***************************************************************************)
LEMMA ResolvedIsEntitled ==
    ASSUME NEW role \in {"agent", "pep", "workspace"}, NEW c, NEW barred,
           \A k \in barred : k \in DOMAIN Keys /\ keyState[k] = "revoked",
           NEW jwks, NEW who \in Resolve(role, c, jwks)
    PROVE  Entitles(c, role, barred, who)
  <1>1. CASE who \in LocalIdentity(role, c)
    <2>1. PICK k \in DOMAIN Keys \cap {c} :
             /\ keyState[k] = "active" /\ Keys[k].role = role
             /\ who = [workspace |-> Keys[k].workspace, name |-> Keys[k].owner]
      BY <1>1 DEF LocalIdentity
    <2>2. c = k /\ c \in DOMAIN Keys \ barred
      BY <2>1
    <2>3. who.workspace = Keys[c].workspace
      BY <2>1, <2>2
    <2> QED  BY <2>1, <2>2, <2>3 DEF Entitles
  <1>2. CASE who \in TokenIdentity(role, c, jwks)
    <2>1. PICK k \in DOMAIN Tokens \cap {c} :
             /\ role \in DOMAIN AcceptedRoles /\ TokenRoles(k) \cap AcceptedRoles[role] # {}
             /\ who = [workspace |-> Tokens[k].workspace, name |-> role]
      BY <1>2 DEF TokenIdentity
    <2>2. c = k /\ who.workspace = Tokens[c].workspace
      BY <2>1
    <2>3. role = "workspace" /\ AcceptedRoles[role] = {"operator"}
      BY <2>1 DEF AcceptedRoles
    <2>4. "operator" \in TokenRoles(c)
      BY <2>1, <2>2, <2>3
    <2>5. "operator" \in Tokens[c].groups /\ Tokens[c].workspace \in Allowed
      BY <2>4 DEF TokenRoles, WorkspaceRoles
    <2> QED  BY <2>1, <2>2, <2>3, <2>5 DEF Entitles
  <1> QED  BY <1>1, <1>2 DEF Resolve

\* A header that is looked at holds one that was sent.
LEMMA HeadersAreSent ==
    ASSUME NEW route, NEW sent, NEW role \in DOMAIN HeadersFor(route, sent)
    PROVE  \E h \in DOMAIN sent : HeadersFor(route, sent)[role] = sent[h]
  <1>1. CASE HeadersFor(route, sent) = sent
    BY <1>1
  <1>2. CASE "bearer" \in DOMAIN sent /\ HeadersFor(route, sent) = With(sent, route.target, sent["bearer"])
    <2>1. PICK target, token : /\ target = route.target /\ token = sent["bearer"]
                               /\ HeadersFor(route, sent) = With(sent, target, token)
      BY <1>2
    <2>2. /\ DOMAIN With(sent, target, token) = DOMAIN sent \cup {target}
          /\ With(sent, target, token)[target] = token
          /\ \A k \in DOMAIN sent : k # target => With(sent, target, token)[k] = sent[k]
      BY DEF With
    <2>3. CASE role = target
      BY <1>2, <2>1, <2>2, <2>3
    <2>4. CASE role # target
      BY <2>1, <2>2, <2>4
    <2> QED  BY <2>3, <2>4
  <1> QED  BY <1>1, <1>2 DEF HeadersFor

LEMMA RolesOfRoutes ==
    ASSUME NEW route  PROVE RoleOf(route) \in {"agent", "pep", "workspace"}
  BY DEF RoleOf

LEMMA FoundIsEntitled ==
    ASSUME NEW request, NEW barred, NEW found, request.route \in DOMAIN Routes,
           \A k \in barred : k \in DOMAIN Keys /\ keyState[k] = "revoked",
           NEW role, role = RoleOf(request.route), NEW headers,
           headers = HeadersFor(Routes[request.route], request.headers),
           role \in DOMAIN headers, NEW jwks, found = Resolve(role, headers[role], jwks)
    PROVE  Entitled(request, barred, found)
  <1>1. PICK h \in DOMAIN request.headers : headers[role] = request.headers[h]
    BY HeadersAreSent
  <1>2. ASSUME NEW who \in found  PROVE Entitles(request.headers[h], role, barred, who)
    <2>1. who \in Resolve(role, request.headers[h], jwks)
      BY <1>1
    <2> QED  BY <2>1, RolesOfRoutes, ResolvedIsEntitled
  <1> QED  BY <1>2 DEF Entitled

LEMMA ScopeCallerIsEntitled ==
    ASSUME NEW request, NEW barred, request.route \in DOMAIN Routes,
           \A k \in barred : k \in DOMAIN Keys /\ keyState[k] = "revoked",
           Routes[request.route].keyed # "none", NEW jwks
    PROVE  Entitled(request, barred, ScopeCaller(Routes[request.route], request.headers, jwks))
  <1> DEFINE headers == HeadersFor(Routes[request.route], request.headers)
             role == RoleOf(request.route)
             found == ScopeCaller(Routes[request.route], request.headers, jwks)
  <1>1. Routes[request.route].keyed = role
    BY ActingRoutes
  <1>2. CASE role \in DOMAIN headers
    <2>1. found = Resolve(role, headers[role], jwks)
      BY <1>1, <1>2 DEF ScopeCaller
    <2> HIDE DEF headers, role, found
    <2>2. headers = HeadersFor(Routes[request.route], request.headers) /\ role = RoleOf(request.route)
      BY DEF headers, role
    <2>3. Entitled(request, barred, found)
      BY <1>2, <2>1, <2>2, FoundIsEntitled
    <2> QED  BY <2>3 DEF found
  <1>3. CASE role \notin DOMAIN headers
    BY <1>1, <1>3 DEF ScopeCaller, Entitled
  <1> QED  BY <1>2, <1>3

LEMMA CallerIsEntitled ==
    ASSUME NEW request, NEW barred, request.route \in DOMAIN Routes,
           \A k \in barred : k \in DOMAIN Keys /\ keyState[k] = "revoked",
           Acting(request.route), NEW jwks
    PROVE  Entitled(request, barred, Caller(Routes[request.route], request.headers, jwks))
  <1> DEFINE headers == HeadersFor(Routes[request.route], request.headers)
             role == RoleOf(request.route)
             found == Caller(Routes[request.route], request.headers, jwks)
             usable == Tried(Routes[request.route], headers)
  <1>1. Routes[request.route].roles = {role} /\ Routes[request.route].target # "auditor"
    BY ActingRoutes
  <1>2. usable = {role} \cap DOMAIN headers
    BY <1>1 DEF Tried
  <1>3. CASE role \in DOMAIN headers
    <2>1. found = Resolve(role, headers[role], jwks)
      BY <1>2, <1>3 DEF Caller
    <2> HIDE DEF headers, role, found
    <2>2. headers = HeadersFor(Routes[request.route], request.headers) /\ role = RoleOf(request.route)
      BY DEF headers, role
    <2>3. Entitled(request, barred, found)
      BY <1>3, <2>1, <2>2, FoundIsEntitled
    <2> QED  BY <2>3 DEF found
  <1>4. CASE role \notin DOMAIN headers
    <2>1. usable = {}
      BY <1>2, <1>4
    <2>2. found = {}
      BY <2>1 DEF Caller
    <2> QED  BY <2>2 DEF Entitled
  <1> QED  BY <1>3, <1>4

(***************************************************************************)
(* One lemma per kind of step.                                             *)
(***************************************************************************)
LEMMA RefusedStep ==
    ASSUME GatewayInv, NEW t \in Threads, NEW status, thread' = Answered(t, status, FALSE), UNCHANGED keyState
    PROVE  GatewayInv'
  <1>1. PICK acted : acted = FALSE /\ thread' = Answered(t, status, acted)
    OBVIOUS
  <1>2. acted \in BOOLEAN /\ ~acted
    BY <1>1
  <1> QED  BY <1>1, <1>2, ServedStep

\* A thread that has not answered has not acted.
LEMMA NotYetActed ==
    ASSUME GatewayInv, NEW t \in Threads, thread[t].pc # "done"
    PROVE  thread[t].acted = FALSE
  BY DEF GatewayInv, Fits

LEMMA MovedStep ==
    ASSUME GatewayInv, NEW t \in Threads, NEW pc \in {"route", "record", "auth"}, thread' = Moved(t, pc),
           UNCHANGED keyState, thread[t].pc # "done", pc = "auth" => thread[t].request.route \in DOMAIN Routes
    PROVE  GatewayInv'
  <1>1. /\ OnlyMoves(t) /\ SameRequest(t) /\ thread'[t].pc = pc /\ thread'[t].acted = FALSE
    BY MovedFields, NotYetActed
  <1> QED  BY <1>1, HarmlessStep

LEMMA ArriveStep ==
    ASSUME GatewayInv, NEW t \in Threads, Arrive(t)
    PROVE  GatewayInv'
  <1>1. thread = [u \in Threads |-> thread[u]] /\ UNCHANGED keyState
    BY DEF GatewayInv, Arrive
  <1>2. PICK request, barred, valid, stamp :
          /\ barred = {k \in DOMAIN Keys : keyState[k] = "revoked"}
          /\ thread' = [thread EXCEPT ![t] = [Waiting EXCEPT !.pc = "gate", !.request = request,
                                                             !.stamp = stamp, !.barred = barred, !.valid = valid]]
    BY DEF Arrive
  <1>3. PICK r : r = [Waiting EXCEPT !.pc = "gate", !.request = request, !.stamp = stamp, !.barred = barred, !.valid = valid]
    OBVIOUS
  <1>4. DOMAIN Waiting = Fields /\ Waiting.acted = FALSE
    BY DEF Waiting, Fields
  <1>5. thread' = [thread EXCEPT ![t] = r]
    BY <1>2, <1>3, Zenon
  <1>6. DOMAIN r = Fields /\ r.pc = "gate" /\ r.acted = FALSE /\ r.barred = barred
    BY <1>3, <1>4, Zenon DEF Fields
  <1>7. OnlyMoves(t) /\ thread'[t] = r
    BY <1>1, <1>5, <1>6 DEF OnlyMoves
  <1>8. Fits(thread'[t])
    BY <1>6, <1>7 DEF Fits
  <1>9. BarredAreRevoked(thread'[t])
    BY <1>2, <1>6, <1>7 DEF BarredAreRevoked
  <1> QED  BY <1>7, <1>8, <1>9, ThreadMoves

LEMMA GateStep ==
    ASSUME GatewayInv, NEW t \in Threads, Gate(t) \/ FailOpen(t)
    PROVE  GatewayInv'
  <1>1. UNCHANGED keyState /\ thread[t].pc # "done"
    BY DEF Gate, FailOpen, worldVars
  <1>2. thread' = Moved(t, "route") \/ thread' = Answered(t, 429, FALSE)
    BY DEF Gate, FailOpen
  <1>3. CASE thread' = Moved(t, "route")
    BY <1>1, <1>3, MovedStep
  <1>4. CASE thread' = Answered(t, 429, FALSE)
    BY <1>1, <1>4, RefusedStep
  <1> QED  BY <1>2, <1>3, <1>4

LEMMA EnterStep ==
    ASSUME GatewayInv, NEW t \in Threads, EnterHandler(t)
    PROVE  GatewayInv'
  <1>1. PICK pc : /\ thread' = [thread EXCEPT ![t].stamp = time, ![t].pc = pc]
                  /\ pc \in {"scope", "auth"}
                  /\ pc = "scope" => Routes[thread[t].request.route].keyed # "none"
    <2>1. PICK pc : pc = (IF IsKeyed(thread[t].request) THEN "scope" ELSE "auth")
      OBVIOUS
    <2>2. thread' = [thread EXCEPT ![t].stamp = time, ![t].pc = pc]
      BY <2>1 DEF EnterHandler
    <2>3. pc \in {"scope", "auth"} /\ (pc = "scope" => Routes[thread[t].request.route].keyed # "none")
      BY <2>1 DEF IsKeyed
    <2> QED  BY <2>2, <2>3, Zenon
  <1>2. UNCHANGED keyState /\ thread[t].pc # "done" /\ thread[t].request.route \in DOMAIN Routes
    BY DEF EnterHandler, worldVars
  <1>3. thread = [u \in Threads |-> thread[u]] /\ DOMAIN thread[t] = Fields /\ thread[t].acted = FALSE
    BY <1>2, NotYetActed DEF GatewayInv, Fits
  <1>4. OnlyMoves(t) /\ SameRequest(t) /\ thread'[t].pc = pc /\ thread'[t].acted = thread[t].acted
    BY <1>1, <1>2, <1>3, Zenon DEF OnlyMoves, SameRequest, Fields
  <1> QED  BY <1>1, <1>2, <1>3, <1>4, HarmlessStep

\* The caller is found.
LEMMA FoundFields ==
    ASSUME GatewayInv, NEW t \in Threads, NEW pc, NEW found,
           thread' = [Moved(t, pc) EXCEPT ![t].caller = found], UNCHANGED keyState
    PROVE  /\ OnlyMoves(t) /\ SameRequest(t) /\ thread'[t].caller = found
           /\ thread'[t].pc = pc /\ thread'[t].acted = thread[t].acted
  <1>1. thread = [u \in Threads |-> thread[u]] /\ DOMAIN thread[t] = Fields
    BY DEF GatewayInv, Fits
  <1> QED  BY <1>1, Zenon DEF Moved, OnlyMoves, SameRequest, Fields

LEMMA ResolveScopeStep ==
    ASSUME GatewayInv, NEW t \in Threads, ResolveScope(t)
    PROVE  GatewayInv'
  <1>1. UNCHANGED keyState /\ thread[t].pc = "scope"
    BY DEF ResolveScope, worldVars
  <1>2. PICK request, barred, found :
          /\ request = thread[t].request /\ barred = thread[t].barred
          /\ \E jwks \in BOOLEAN :
              /\ found = ScopeCaller(Routes[request.route], request.headers, jwks)
              /\ thread' = IF found = {} THEN Moved(t, "auth")
                           ELSE IF BadBody(request) THEN Answered(t, 400, FALSE)
                           ELSE [Moved(t, "execute") EXCEPT ![t].caller = found]
    BY Zenon DEF ResolveScope
  <1>3. /\ request.route \in DOMAIN Routes /\ Routes[request.route].keyed # "none"
        /\ \A k \in barred : k \in DOMAIN Keys /\ keyState[k] = "revoked"
    BY <1>1, <1>2 DEF GatewayInv, Fits, BarredAreRevoked
  <1>4. Entitled(request, barred, found)
    BY <1>2, <1>3, ScopeCallerIsEntitled
  <1>5. \/ thread' = Moved(t, "auth") \/ thread' = Answered(t, 400, FALSE)
        \/ thread' = [Moved(t, "execute") EXCEPT ![t].caller = found]
    BY <1>2, Zenon
  <1>6. CASE thread' = Moved(t, "auth")
    BY <1>1, <1>2, <1>3, <1>6, MovedStep
  <1>7. CASE thread' = Answered(t, 400, FALSE)
    BY <1>1, <1>7, RefusedStep
  <1>8. CASE thread' = [Moved(t, "execute") EXCEPT ![t].caller = found]
    <2>1. /\ OnlyMoves(t) /\ SameRequest(t) /\ thread'[t].caller = found
          /\ thread'[t].pc = "execute" /\ thread'[t].acted = thread[t].acted
      BY <1>1, <1>8, FoundFields
    <2>2. thread'[t].acted = FALSE
      BY <1>1, <2>1, NotYetActed
    <2> QED  BY <1>2, <1>3, <1>4, <2>1, <2>2, CallerKnownStep
  <1> QED  BY <1>5, <1>6, <1>7, <1>8

LEMMA AuthenticateStep ==
    ASSUME GatewayInv, NEW t \in Threads, Authenticate(t)
    PROVE  GatewayInv'
  <1>1. UNCHANGED keyState /\ thread[t].pc = "auth"
    BY DEF Authenticate, worldVars
  <1>2. PICK request, barred, found :
          /\ request = thread[t].request /\ barred = thread[t].barred
          /\ \E jwks \in BOOLEAN :
              /\ found = Caller(Routes[request.route], request.headers, jwks)
              /\ thread' = IF found = {}
                           THEN IF Routes[request.route].surface # "none" THEN Moved(t, "record")
                                ELSE Answered(t, 401, FALSE)
                           ELSE IF request.shape = "method" THEN Answered(t, 405, FALSE)
                           ELSE IF request.shape = "path" THEN Answered(t, 404, FALSE)
                           ELSE IF BadBody(request) THEN Answered(t, 400, FALSE)
                           ELSE [Moved(t, "work") EXCEPT ![t].caller = found]
    BY Zenon DEF Authenticate
  <1>3. /\ request.route \in DOMAIN Routes
        /\ \A k \in barred : k \in DOMAIN Keys /\ keyState[k] = "revoked"
    BY <1>1, <1>2 DEF GatewayInv, Fits, BarredAreRevoked
  <1>4. Acting(request.route) => Entitled(request, barred, found)
    BY <1>2, <1>3, CallerIsEntitled
  <1>5. \/ thread' = Moved(t, "record") \/ \E status : thread' = Answered(t, status, FALSE)
        \/ thread' = [Moved(t, "work") EXCEPT ![t].caller = found]
    <2>1. CASE found = {}
      BY <1>2, <2>1, Zenon
    <2>2. CASE found # {}
      <3>1. thread' = (IF request.shape = "method" THEN Answered(t, 405, FALSE)
                       ELSE IF request.shape = "path" THEN Answered(t, 404, FALSE)
                       ELSE IF BadBody(request) THEN Answered(t, 400, FALSE)
                       ELSE [Moved(t, "work") EXCEPT ![t].caller = found])
        BY <1>2, <2>2, Zenon
      <3>2. \/ thread' = Answered(t, 405, FALSE) \/ thread' = Answered(t, 404, FALSE)
            \/ thread' = Answered(t, 400, FALSE) \/ thread' = [Moved(t, "work") EXCEPT ![t].caller = found]
        BY <3>1, Zenon
      <3> QED  BY <3>2, Zenon
    <2> QED  BY <2>1, <2>2, Zenon
  <1>6. CASE thread' = Moved(t, "record")
    BY <1>1, <1>6, MovedStep
  <1>7. CASE \E status : thread' = Answered(t, status, FALSE)
    BY <1>1, <1>7, RefusedStep
  <1>8. CASE thread' = [Moved(t, "work") EXCEPT ![t].caller = found]
    <2>1. /\ OnlyMoves(t) /\ SameRequest(t) /\ thread'[t].caller = found
          /\ thread'[t].pc = "work" /\ thread'[t].acted = thread[t].acted
      BY <1>1, <1>8, FoundFields
    <2>2. thread'[t].acted = FALSE
      BY <1>1, <2>1, NotYetActed
    <2> QED  BY <1>2, <1>3, <1>4, <2>1, <2>2, CallerKnownStep
  <1> QED  BY <1>5, <1>6, <1>7, <1>8

LEMMA RecordSteps ==
    ASSUME GatewayInv, NEW t \in Threads, CountFailure(t) \/ WriteFailureEvent(t)
    PROVE  GatewayInv'
  <1>1. UNCHANGED keyState /\ thread[t].pc \in {"record", "emit"}
    BY DEF CountFailure, WriteFailureEvent, worldVars
  <1>2. \/ thread' = Answered(t, 401, FALSE)
        \/ \E events : thread' = [Moved(t, "emit") EXCEPT ![t].events = events]
        \/ thread[t].pc = "emit" /\ \E events : thread' = [thread EXCEPT ![t].events = events]
    <2>1. CASE CountFailure(t)
      BY <2>1, Zenon DEF CountFailure
    <2>2. CASE WriteFailureEvent(t)
      BY <2>2, Zenon DEF WriteFailureEvent
    <2> QED  BY <2>1, <2>2, Zenon
  <1>3. CASE thread' = Answered(t, 401, FALSE)
    BY <1>1, <1>3, RefusedStep
  <1>4. thread = [u \in Threads |-> thread[u]] /\ DOMAIN thread[t] = Fields /\ thread[t].acted = FALSE
    BY <1>1, NotYetActed DEF GatewayInv, Fits
  <1>5. CASE \E events : thread' = [Moved(t, "emit") EXCEPT ![t].events = events]
    <2>1. PICK events : thread' = [Moved(t, "emit") EXCEPT ![t].events = events]
      BY <1>5, Zenon
    <2>2. OnlyMoves(t) /\ SameRequest(t) /\ thread'[t].pc = "emit" /\ thread'[t].acted = thread[t].acted
      BY <1>1, <1>4, <2>1, Zenon DEF Moved, OnlyMoves, SameRequest, Fields
    <2> QED  BY <1>4, <2>2, HarmlessStep
  <1>6. CASE thread[t].pc = "emit" /\ \E events : thread' = [thread EXCEPT ![t].events = events]
    <2>1. PICK events : thread' = [thread EXCEPT ![t].events = events]
      BY <1>6, Zenon
    <2>2. /\ OnlyMoves(t) /\ SameRequest(t)
          /\ thread'[t].pc = thread[t].pc /\ thread'[t].acted = thread[t].acted
      BY <1>1, <1>4, <2>1, Zenon DEF OnlyMoves, SameRequest, Fields
    <2> QED  BY <1>4, <1>6, <2>2, HarmlessStep
  <1> QED  BY <1>2, <1>3, <1>5, <1>6, Zenon

\* The service is called for a caller who may have it act.
LEMMA CalledStep ==
    ASSUME GatewayInv, NEW t \in Threads, NEW outcome, NEW status, OutcomeFits(outcome),
           thread' = Answered(t, status, outcome.acts), UNCHANGED keyState,
           \/ thread[t].pc = "execute"
           \/ thread[t].pc = "work" /\ (outcome.acts = TRUE => Acting(thread[t].request.route))
    PROVE  GatewayInv'
  <1>1. PICK acted : acted = outcome.acts /\ thread' = Answered(t, status, acted)
    OBVIOUS
  <1>2. acted = TRUE \/ acted = FALSE
    BY <1>1 DEF OutcomeFits
  <1>3. Fits(thread[t])
    BY DEF GatewayInv
  <1>4. acted = TRUE => Entitled(thread[t].request, thread[t].barred, thread[t].caller)
    BY <1>1, <1>3 DEF Fits
  <1>5. acted \in BOOLEAN /\ (acted => Entitled(thread[t].request, thread[t].barred, thread[t].caller))
    BY <1>2, <1>4
  <1> QED  BY <1>1, <1>5, ServedStep

LEMMA WorkStep ==
    ASSUME GatewayInv, NEW t \in Threads, Work(t)
    PROVE  GatewayInv'
  <1>1. UNCHANGED keyState /\ thread[t].pc = "work"
    BY DEF Work, worldVars
  <1>2. PICK route, outcomes : route = thread[t].request.route /\ outcomes = Routes[route].outcomes
    OBVIOUS
  <1>3. route \in DOMAIN Routes
    BY <1>1, <1>2 DEF GatewayInv, Fits
  <1>4. PICK outcome \in outcomes \cup LostOutcomes(outcomes) :
            thread' = Answered(t, outcome.status, outcome.acts)
    BY <1>2 DEF Work
  <1>5. \A o \in outcomes : OutcomeFits(o)
    BY <1>2, <1>3, ActingRoutes
  <1>6. OutcomeFits(outcome) /\ (outcome.acts = TRUE => \E o \in outcomes : o.acts = TRUE)
    BY <1>5, LostActs
  <1>7. outcome.acts = TRUE => Acting(route)
    BY <1>2, <1>6 DEF Acting
  <1> QED  BY <1>1, <1>2, <1>4, <1>6, <1>7, CalledStep

LEMMA ExecuteStep ==
    ASSUME GatewayInv, NEW t \in Threads, Execute(t)
    PROVE  GatewayInv'
  <1>1. UNCHANGED keyState /\ thread[t].pc = "execute"
    BY DEF Execute, worldVars
  <1>2. PICK route, outcomes : route = thread[t].request.route /\ outcomes = Routes[route].outcomes
    OBVIOUS
  <1>3. route \in DOMAIN Routes
    BY <1>1, <1>2 DEF GatewayInv, Fits
  <1>4. PICK outcome \in outcomes : \E status : thread' = Answered(t, status, outcome.acts)
    BY <1>2 DEF Execute
  <1>5. OutcomeFits(outcome)
    BY <1>2, <1>3, ActingRoutes
  <1> QED  BY <1>1, <1>4, <1>5, CalledStep

LEMMA RefusedThread ==
    ASSUME NEW t,
           AnswerOpen(t) \/ RefuseUnread(t) \/ LoseBackend(t) \/ RefuseKeyed(t) \/ Replay(t)
    PROVE  \E status : thread' = Answered(t, status, FALSE)
  <1>1. CASE AnswerOpen(t)
    <2>1. PICK statuses : statuses = (IF thread[t].request.route \notin DOMAIN OpenRoutes THEN {404, 503}
                                     ELSE IF thread[t].request.shape = "ok"
                                          THEN OpenRoutes[thread[t].request.route]
                                     ELSE {405})
      OBVIOUS
    <2>2. \E status \in statuses : thread' = Answered(t, status, FALSE)
      BY <1>1, <2>1, Zenon DEF AnswerOpen
    <2> QED  BY <2>2, Zenon
  <1>2. CASE RefuseUnread(t)
    BY <1>2, Zenon DEF RefuseUnread
  <1>3. CASE LoseBackend(t)
    BY <1>3, Zenon DEF LoseBackend
  <1>4. CASE RefuseKeyed(t)
    <2>1. PICK status : status = (IF UnusableKey(thread[t].request.idem) THEN 400 ELSE 503)
      OBVIOUS
    <2>2. thread' = Answered(t, status, FALSE)
      BY <1>4, <2>1, Zenon DEF RefuseKeyed
    <2> QED  BY <2>2, Zenon
  <1>5. CASE Replay(t)
    BY <1>5, Zenon DEF Replay
  <1> QED  BY <1>1, <1>2, <1>3, <1>4, <1>5, Zenon

LEMMA RefusedSteps ==
    ASSUME GatewayInv, NEW t \in Threads,
           AnswerOpen(t) \/ RefuseUnread(t) \/ LoseBackend(t) \/ RefuseKeyed(t) \/ Replay(t)
    PROVE  GatewayInv'
  <1>1. UNCHANGED keyState
    BY DEF AnswerOpen, RefuseUnread, LoseBackend, RefuseKeyed, Replay, worldVars
  <1>2. PICK status : thread' = Answered(t, status, FALSE)
    BY RefusedThread, Zenon
  <1> QED  BY <1>1, <1>2, RefusedStep

(***************************************************************************)
(* Keys change under the threads: a key that was revoked stays so.         *)
(***************************************************************************)
LEMMA KeysMove ==
    ASSUME GatewayInv, UNCHANGED thread, keyState' \in [DOMAIN Keys -> {"unissued", "active", "revoked"}],
           SuccessorsWait', \A k \in DOMAIN Keys : keyState[k] = "revoked" => keyState'[k] = "revoked"
    PROVE  GatewayInv'
  <1>1. \A t \in Threads : BarredAreRevoked(thread[t])'
    BY DEF GatewayInv, BarredAreRevoked
  <1>2. \A t \in Threads : Fits(thread[t])'
    BY DEF GatewayInv, Fits, Entitled, Entitles, Acting
  <1> QED  BY <1>1, <1>2 DEF GatewayInv

LEMMA RotateStep ==
    ASSUME GatewayInv, NEW k \in DOMAIN Successor, RotateKey(k)
    PROVE  GatewayInv'
  <1>1. /\ UNCHANGED thread /\ keyState[k] = "active"
        /\ keyState' = [keyState EXCEPT ![k] = "revoked", ![Successor[k]] = "active"]
    BY DEF RotateKey
  <1>2. /\ keyState \in [DOMAIN Keys -> {"unissued", "active", "revoked"}]
        /\ keyState[Successor[k]] = "unissued" /\ Successor[k] # k
    BY <1>1 DEF GatewayInv, SuccessorsWait
  <1>3. k \in DOMAIN Keys /\ Successor[k] \in DOMAIN Keys
    BY GatewayAssumption
  <1>4. /\ keyState' \in [DOMAIN Keys -> {"unissued", "active", "revoked"}]
        /\ keyState'[k] = "revoked" /\ keyState'[Successor[k]] = "active"
        /\ \A j \in DOMAIN Keys \ {k, Successor[k]} : keyState'[j] = keyState[j]
    BY <1>1, <1>2, <1>3
  <1>5. \A j \in DOMAIN Keys : keyState[j] = "revoked" => keyState'[j] = "revoked"
    BY <1>1, <1>2, <1>4
  <1>6. ASSUME NEW j \in DOMAIN Successor, keyState'[j] \in {"active", "unissued"}
        PROVE  keyState'[Successor[j]] = "unissued"
    <2>1. j # k /\ j \in DOMAIN Keys /\ Successor[j] \in DOMAIN Keys /\ Successor[j] # Successor[k]
      BY <1>4, <1>6, GatewayAssumption
    <2>2. keyState[j] \in {"active", "unissued"}
      BY <1>2, <1>4, <1>6, <2>1
    <2>3. keyState[Successor[j]] = "unissued"
      BY <2>2 DEF GatewayInv, SuccessorsWait
    <2> QED  BY <1>1, <1>4, <2>1, <2>3
  <1>7. SuccessorsWait'
    BY <1>6 DEF SuccessorsWait
  <1> QED  BY <1>1, <1>4, <1>5, <1>7, KeysMove

LEMMA RevokeStep ==
    ASSUME GatewayInv, NEW k \in DOMAIN Keys, RevokeKey(k)
    PROVE  GatewayInv'
  <1>1. /\ UNCHANGED thread /\ keyState[k] = "active" /\ keyState' = [keyState EXCEPT ![k] = "revoked"]
    BY DEF RevokeKey
  <1>2. keyState \in [DOMAIN Keys -> {"unissued", "active", "revoked"}]
    BY DEF GatewayInv
  <1>3. /\ keyState' \in [DOMAIN Keys -> {"unissued", "active", "revoked"}]
        /\ keyState'[k] = "revoked" /\ \A j \in DOMAIN Keys \ {k} : keyState'[j] = keyState[j]
    BY <1>1, <1>2
  <1>4. \A j \in DOMAIN Keys : keyState[j] = "revoked" => keyState'[j] = "revoked"
    BY <1>3
  <1>5. ASSUME NEW j \in DOMAIN Successor, keyState'[j] \in {"active", "unissued"}
        PROVE  keyState'[Successor[j]] = "unissued"
    <2>1. j # k /\ j \in DOMAIN Keys /\ Successor[j] \in DOMAIN Keys
      BY <1>3, <1>5, GatewayAssumption
    <2>2. keyState[Successor[j]] = "unissued"
      BY <1>3, <1>5, <2>1 DEF GatewayInv, SuccessorsWait
    <2> QED  BY <1>1, <1>3, <2>1, <2>2
  <1>6. SuccessorsWait'
    BY <1>5 DEF SuccessorsWait
  <1> QED  BY <1>1, <1>3, <1>4, <1>6, KeysMove

LEMMA GatewayStarts ==
    GatewayInit => GatewayInv
  <1> SUFFICES ASSUME GatewayInit  PROVE GatewayInv
    OBVIOUS
  <1>1. thread = [t \in Threads |-> Waiting]
    BY DEF GatewayInit
  <1>2. DOMAIN Waiting = Fields /\ Waiting.acted = FALSE /\ Waiting.pc = "idle" /\ Waiting.barred = {}
    BY DEF Waiting, Fields
  <1>3. \A t \in Threads : Fits(thread[t]) /\ BarredAreRevoked(thread[t])
    BY <1>1, <1>2 DEF Fits, BarredAreRevoked
  <1>4. keyState \in [DOMAIN Keys -> {"unissued", "active", "revoked"}] /\ SuccessorsWait
    BY GatewayAssumption DEF GatewayInit, SuccessorsWait
  <1> QED  BY <1>1, <1>3, <1>4 DEF GatewayInv

LEMMA GatewayNextHolds ==
    ASSUME GatewayInv, [GatewayNext]_gatewayVars
    PROVE  GatewayInv'
  <1>1. CASE UNCHANGED <<thread, keyState>>
    BY <1>1, KeysMove DEF GatewayInv, SuccessorsWait
  <1>2. ASSUME NEW t \in Threads, Serve(t)  PROVE GatewayInv'
    BY <1>2, ArriveStep, GateStep, EnterStep, ResolveScopeStep, AuthenticateStep, RecordSteps, WorkStep,
       ExecuteStep, RefusedSteps DEF Serve
  <1>3. ASSUME NEW k \in DOMAIN Successor, RotateKey(k)  PROVE GatewayInv'
    BY <1>3, RotateStep
  <1>4. ASSUME NEW k \in DOMAIN Keys, RevokeKey(k)  PROVE GatewayInv'
    BY <1>4, RevokeStep
  <1>5. CASE Tick \/ UNCHANGED gatewayVars
    BY <1>1, <1>5 DEF Tick, gatewayVars
  <1> QED  BY <1>2, <1>3, <1>4, <1>5 DEF GatewayNext

(***************************************************************************)
(* Whoever makes the service act presented a credential for it: an agent's *)
(* key, a PEP's, a workspace's or an operator's token of that workspace,   *)
(* and no key that had been revoked before the request arrived - for any   *)
(* keys, tokens and requests, and whatever is rotated or revoked between a *)
(* handler's look at a key and its call.                                   *)
(***************************************************************************)
THEOREM ActorsAreAuthorized == GatewaySpec => []ActionsAreAuthorized
  <1>1. GatewayInv => ActionsAreAuthorized
    BY DEF GatewayInv, Fits, Entitled, Entitles, RoleOf, ActionsAreAuthorized
  <1> QED  BY <1>1, GatewayStarts, GatewayNextHolds, PTL DEF GatewaySpec
-----------------------------------------------------------------------------
(***************************************************************************)
(* Adding up: a sum of numbers is the number of elements of their units.   *)
(***************************************************************************)
LEMMA UnitsOfOne ==
    ASSUME NEW d, NEW n \in Nat
    PROVE  IsFiniteSet({d} \X (1..n)) /\ Cardinality({d} \X (1..n)) = n
  <1>1. IsFiniteSet({d}) /\ Cardinality({d}) = 1
    BY FS_Singleton
  <1>2. IsFiniteSet(1..n) /\ Cardinality(1..n) = n
    BY FS_Interval
  <1>3. IsFiniteSet({d} \X (1..n)) /\ Cardinality({d} \X (1..n)) = Cardinality({d}) * Cardinality(1..n)
    BY <1>1, <1>2, FS_Product, Zenon
  <1> QED  BY <1>1, <1>2, <1>3

LEMMA UnitsAreFinite ==
    ASSUME NEW S, IsFiniteSet(S), NEW f, \A x \in S : f[x] \in Nat
    PROVE  IsFiniteSet(Units(f, S)) /\ Cardinality(Units(f, S)) \in Nat
  <1> DEFINE family == {{x} \X (1..f[x]) : x \in S}
             g == [x \in S |-> {x} \X (1..f[x])]
  <1>1. g \in Surjection(S, family)
    BY DEF Surjection
  <1>2. IsFiniteSet(family)
    BY <1>1, FS_Surjection DEF ExistsSurjection
  <1>3. ASSUME NEW T \in family  PROVE IsFiniteSet(T)
    <2>1. PICK x \in S : T = {x} \X (1..f[x])
      OBVIOUS
    <2>2. PICK n \in Nat : n = f[x]
      OBVIOUS
    <2>3. IsFiniteSet({x} \X (1..n))
      BY UnitsOfOne
    <2> QED  BY <2>1, <2>2, <2>3
  <1>4. IsFiniteSet(UNION family)
    BY <1>2, <1>3, FS_UNION
  <1> QED  BY <1>4, FS_CardinalityType DEF Units

\* The units of one element and those of the rest.
LEMMA UnitsSplit ==
    ASSUME NEW S, IsFiniteSet(S), NEW f, \A x \in S : f[x] \in Nat, NEW d \in S
    PROVE  Cardinality(Units(f, S)) = Cardinality(Units(f, S \ {d})) + f[d]
  <1> DEFINE rest == Units(f, S \ {d})
             own == {d} \X (1..f[d])
  <1>1. IsFiniteSet(S \ {d})
    BY FS_Difference
  <1>2. IsFiniteSet(rest) /\ Cardinality(rest) \in Nat
    BY <1>1, UnitsAreFinite
  <1>3. IsFiniteSet(own) /\ Cardinality(own) = f[d]
    BY UnitsOfOne
  <1>4. Units(f, S) = rest \cup own
    BY DEF Units
  <1>5. rest \cap own = {}
    BY DEF Units
  <1> HIDE DEF rest, own
  <1>6. Cardinality(rest \cup own) = Cardinality(rest) + Cardinality(own) - Cardinality(rest \cap own)
    BY <1>2, <1>3, FS_Union
  <1>7. Cardinality(rest \cap own) = 0
    BY <1>5, FS_EmptySet
  <1>8. Cardinality(rest \cup own) = Cardinality(rest) + f[d]
    BY <1>2, <1>3, <1>6, <1>7
  <1> QED  BY <1>4, <1>8 DEF rest

LEMMA UnitsChange ==
    ASSUME NEW S, IsFiniteSet(S), NEW f, NEW g, \A x \in S : f[x] \in Nat /\ g[x] \in Nat,
           NEW d \in S, \A x \in S \ {d} : g[x] = f[x]
    PROVE  Cardinality(Units(g, S)) - g[d] = Cardinality(Units(f, S)) - f[d]
  <1>1. Units(g, S \ {d}) = Units(f, S \ {d})
    BY DEF Units
  <1>2. Cardinality(Units(f, S)) = Cardinality(Units(f, S \ {d})) + f[d]
    BY UnitsSplit
  <1>3. Cardinality(Units(g, S)) = Cardinality(Units(g, S \ {d})) + g[d]
    BY UnitsSplit
  <1>4. IsFiniteSet(S \ {d})
    BY FS_Difference
  <1>5. Cardinality(Units(f, S \ {d})) \in Nat
    BY <1>4, UnitsAreFinite
  <1> QED  BY <1>1, <1>2, <1>3, <1>5

LEMMA NoUnits ==
    ASSUME NEW S, NEW f, \A x \in S : f[x] = 0
    PROVE  Cardinality(Units(f, S)) = 0
  <1>1. Units(f, S) = {}
    BY DEF Units
  <1> QED  BY <1>1, FS_EmptySet

LEMMA FewerUnits ==
    ASSUME NEW S, IsFiniteSet(S), NEW f, \A x \in S : f[x] \in Nat, NEW T \in SUBSET S
    PROVE  Cardinality(Units(f, T)) <= Cardinality(Units(f, S))
  <1>1. Units(f, T) \in SUBSET Units(f, S)
    BY DEF Units
  <1> QED  BY <1>1, UnitsAreFinite, FS_Subset

-----------------------------------------------------------------------------
(***************************************************************************)
(* The gateway: the limiter and the failures it accounts for.              *)
(*                                                                         *)
(* A window of the limiter has counted no more requests than were admitted *)
(* from its source since it started; and what the log says of a surface's  *)
(* failures, what the open window holds and what the threads still have to *)
(* write add up to the failures there were.                                *)
(***************************************************************************)
SurfaceOf(r) == Routes[r.request.route].surface

Timely == [kind |-> "timely", count |-> 1]

EventsFit(events) ==
    \/ events = <<Timely>>
    \/ /\ events = <<[kind |-> "summary", count |-> events[1].count], Timely>>
       /\ events[1].count \in Nat \ {0}

\* What the log lacks until a thread has written its events.
Owes(r, s) ==
    IF r.pc = "emit" /\ SurfaceOf(r) = s
    THEN IF Len(r.events) = 2 THEN r.events[1].count ELSE 1
    ELSE 0

Debts(s) == [t \in Threads |-> Owes(thread[t], s)]
Owed(s) == Cardinality(Units(Debts(s), Threads))

NoFailures == [failures |-> 0, timely |-> 0, summaries |-> 0, counted |-> 0, lost |-> 0]

\* What the log says of closed windows, and what it lacks of them.
Shown(entry) == entry.counted + (entry.timely - entry.summaries) + entry.lost

FailuresBalance(s) ==
    IF s \in DOMAIN failing
    THEN Accounted(s, failing[s].count) + tally[s].lost + Owed(s) = tally[s].failures
    ELSE tally[s] = NoFailures /\ \A t \in Threads : Owes(thread[t], s) = 0

ThrottleInv ==
    /\ tally \in [Surfaces -> [failures : Nat, timely : Nat, summaries : Nat, counted : Nat, lost : Nat]]
    /\ failing = [s \in DOMAIN failing |-> failing[s]]
    /\ \A s \in DOMAIN failing :
         s \in Surfaces /\ failing[s] \in [start : Nat, last : Nat, count : Nat \ {0}]
    /\ \A s \in Surfaces : FailuresBalance(s)

Since(moment) == {n \in 0..MaxTime : n >= moment}
PassedIn(passed, who, moment) == Cardinality(Units(passed[who], Since(moment)))
PassedSince(who, moment) == PassedIn(admitted, who, moment)

LimiterInv ==
    /\ admitted \in [Senders -> [0..MaxTime -> Nat]]
    /\ sources = [s \in DOMAIN sources |-> sources[s]]
    /\ \A s \in DOMAIN sources :
         /\ sources[s] \in [start : Nat, count : Nat] /\ sources[s].start <= time
         /\ \A r \in mix.requests : Source(r.origin) = s =>
              sources[s].count <= PassedSince(r.origin.sender, sources[s].start)

Earned(r) == PassedSince(r.request.origin.sender, r.stamp - Window + 1) >= MaxRequests

Sound(r) ==
    /\ r.stamp \in Nat /\ r.stamp <= time
    /\ r.pc # "idle" => r.request \in mix.requests
    /\ r.pc \in {"record", "emit"} => SurfaceOf(r) \in Surfaces
    /\ r.pc = "emit" => EventsFit(r.events)
    /\ r.status = 429 => r.pc = "done" /\ Earned(r)

WorldTyped == time \in 0..MaxTime /\ mix \in Mixes

AnswersStored == \A k \in DOMAIN terminal : terminal[k].status # 429

LimitInv ==
    /\ WorldTyped /\ LimiterInv /\ ThrottleInv /\ AnswersStored
    /\ \A t \in Threads : Sound(thread[t])

\* A thread that only answers or goes on, as far as the limiter and the throttle can see.
Quiet(t) ==
    /\ OnlyMoves(t) /\ thread[t].pc # "emit" /\ thread'[t].pc # "emit"
    /\ UNCHANGED <<sources, failing, tally, admitted, mix, time>>

LEMMA SoundStays ==
    ASSUME NEW t \in Threads, Sound(thread'[t]), UNCHANGED <<admitted, mix, time>>
    PROVE  Sound(thread[t])'
  BY DEF Sound, SurfaceOf, EventsFit, Timely, Earned, PassedSince, PassedIn, Units, Since

LEMMA LimiterStays ==
    ASSUME LimiterInv, UNCHANGED <<sources, admitted, mix, time>>
    PROVE  LimiterInv'
  BY DEF LimiterInv, PassedSince, PassedIn, Units, Since

LEMMA ThrottleStays ==
    ASSUME ThrottleInv, NEW t \in Threads, OnlyMoves(t), thread[t].pc # "emit", thread'[t].pc # "emit",
           UNCHANGED <<failing, tally>>
    PROVE  ThrottleInv'
  <1>1. ASSUME NEW s \in Surfaces  PROVE FailuresBalance(s)'
    <2>1. FailuresBalance(s)
      BY DEF ThrottleInv
    <2>2. \A u \in Threads : Owes(thread[u], s)' = Owes(thread[u], s)
      BY DEF OnlyMoves, Owes, SurfaceOf
    <2>3. Owed(s)' = Owed(s)
      <3>1. Debts(s)' = Debts(s)
        BY <2>2 DEF Debts
      <3> QED  BY <3>1 DEF Owed, Units
    <2> QED  BY <2>1, <2>2, <2>3 DEF FailuresBalance, Accounted
  <1> QED  BY <1>1 DEF ThrottleInv

LEMMA QuietLimits ==
    ASSUME GatewayInv, LimitInv, NEW t \in Threads, Quiet(t), Sound(thread'[t]), AnswersStored'
    PROVE  LimitInv'
  <1>1. ASSUME NEW u \in Threads  PROVE Sound(thread[u])'
    <2>1. Sound(thread'[u])
      BY DEF Quiet, OnlyMoves, LimitInv
    <2> QED  BY <2>1, SoundStays DEF Quiet
  <1>2. ThrottleInv'
    BY ThrottleStays DEF LimitInv, Quiet
  <1>3. LimiterInv' /\ WorldTyped'
    BY LimiterStays DEF LimitInv, WorldTyped, Quiet
  <1> QED  BY <1>1, <1>2, <1>3 DEF LimitInv

LEMMA AnsweredLimits ==
    ASSUME GatewayInv, NEW t \in Threads, NEW status, NEW acted, thread' = Answered(t, status, acted)
    PROVE  thread'[t].stamp = thread[t].stamp /\ thread'[t].status = status
  <1>1. thread = [u \in Threads |-> thread[u]] /\ DOMAIN thread[t] = Fields
    BY DEF GatewayInv, Fits
  <1> QED  BY <1>1, Zenon DEF Answered, Fields

LEMMA MovedLimits ==
    ASSUME GatewayInv, NEW t \in Threads, NEW pc, thread' = Moved(t, pc)
    PROVE  thread'[t].stamp = thread[t].stamp /\ thread'[t].status = thread[t].status
  <1>1. thread = [u \in Threads |-> thread[u]] /\ DOMAIN thread[t] = Fields
    BY DEF GatewayInv, Fits
  <1> QED  BY <1>1, Zenon DEF Moved, Fields

\* The thread answers with this status, whether or not the service acted.
Answers(t, status) == \E acted : thread' = Answered(t, status, acted)

LEMMA RefusalAnswers ==
    ASSUME NEW t, NEW status, thread' = Answered(t, status, FALSE)
    PROVE  Answers(t, status)
  BY Zenon DEF Answers

LEMMA ActionAnswers ==
    ASSUME NEW t, NEW status, NEW acted, thread' = Answered(t, status, acted)
    PROVE  Answers(t, status)
  BY Zenon DEF Answers

LEMMA AnsweredQuietly ==
    ASSUME GatewayInv, LimitInv, NEW t \in Threads, NEW status, Answers(t, status),
           status # 429, thread[t].pc \notin {"idle", "emit"}, AnswersStored',
           UNCHANGED <<sources, failing, tally, admitted, mix, time, keyState>>
    PROVE  LimitInv'
  <1>0. PICK acted : thread' = Answered(t, status, acted)
    BY DEF Answers
  <1>1. /\ OnlyMoves(t) /\ SameRequest(t) /\ thread'[t].pc = "done"
        /\ thread'[t].stamp = thread[t].stamp /\ thread'[t].status = status
    BY <1>0, AnsweredFields, AnsweredLimits
  <1>2. Sound(thread[t])
    BY DEF LimitInv
  <1>3. Sound(thread'[t])
    BY <1>1, <1>2 DEF Sound, SameRequest
  <1> QED  BY <1>1, <1>3, QuietLimits DEF Quiet

LEMMA RefusedQuietly ==
    ASSUME GatewayInv, LimitInv, NEW t \in Threads, NEW status, Answers(t, status), status # 429,
           thread[t].pc \notin {"idle", "emit"},
           UNCHANGED <<sources, failing, tally, admitted, mix, time, keyState, terminal>>
    PROVE  LimitInv'
  <1>1. AnswersStored'
    BY DEF LimitInv, AnswersStored
  <1> QED  BY <1>1, AnsweredQuietly

LEMMA MovesQuietly ==
    ASSUME GatewayInv, LimitInv, NEW t \in Threads, OnlyMoves(t), SameRequest(t),
           thread'[t].stamp \in {thread[t].stamp, time}, thread'[t].status = thread[t].status,
           thread[t].pc \notin {"idle", "emit", "done"}, thread'[t].pc # "emit",
           thread'[t].pc = "record" => SurfaceOf(thread[t]) \in Surfaces,
           UNCHANGED <<sources, failing, tally, admitted, mix, time, terminal>>
    PROVE  LimitInv'
  <1>1. Sound(thread[t]) /\ thread[t].status # 429
    BY DEF LimitInv, Sound
  <1>2. time \in Nat
    BY GatewayAssumption DEF LimitInv, WorldTyped
  <1>3. Sound(thread'[t])
    BY <1>1, <1>2 DEF Sound, SameRequest, SurfaceOf
  <1>4. AnswersStored'
    BY DEF LimitInv, AnswersStored
  <1> QED  BY <1>3, <1>4, QuietLimits DEF Quiet

(***************************************************************************)
(* One lemma per kind of step.                                             *)
(***************************************************************************)
LEMMA ArriveLimits ==
    ASSUME GatewayInv, LimitInv, NEW t \in Threads, Arrive(t)
    PROVE  LimitInv'
  <1>1. /\ thread = [u \in Threads |-> thread[u]]
        /\ UNCHANGED <<sources, failing, tally, admitted, mix, time, keyState, terminal>>
        /\ thread[t].pc # "emit"
    BY DEF GatewayInv, Arrive
  <1>0. PICK barred, valid : /\ barred = {k \in DOMAIN Keys : keyState[k] = "revoked"}
                             /\ valid = {k \in DOMAIN Keys : keyState[k] = "active"}
    OBVIOUS
  <1>2. PICK request \in mix.requests :
          thread' = [thread EXCEPT ![t] = [Waiting EXCEPT !.pc = "gate", !.request = request,
                                                          !.stamp = time, !.barred = barred, !.valid = valid]]
    BY <1>0 DEF Arrive
  <1>3. PICK r : r = [Waiting EXCEPT !.pc = "gate", !.request = request, !.stamp = time, !.barred = barred, !.valid = valid]
    OBVIOUS
  <1>4. DOMAIN Waiting = Fields /\ Waiting.status = 0
    BY DEF Waiting, Fields
  <1>5. thread' = [thread EXCEPT ![t] = r]
    BY <1>2, <1>3, Zenon
  <1>6. DOMAIN r = Fields /\ r.pc = "gate" /\ r.status = 0 /\ r.request = request /\ r.stamp = time
    BY <1>3, <1>4, Zenon DEF Fields
  <1>7. OnlyMoves(t) /\ thread'[t] = r
    BY <1>1, <1>5, <1>6 DEF OnlyMoves
  <1>8. time \in Nat
    BY GatewayAssumption DEF LimitInv, WorldTyped
  <1>9. Sound(thread'[t])
    BY <1>6, <1>7, <1>8 DEF Sound
  <1>10. AnswersStored'
    BY <1>1 DEF LimitInv, AnswersStored
  <1> QED  BY <1>1, <1>6, <1>7, <1>9, <1>10, QuietLimits DEF Quiet

LEMMA RefusedLimits ==
    ASSUME GatewayInv, LimitInv, NEW t \in Threads,
           AnswerOpen(t) \/ RefuseUnread(t) \/ LoseBackend(t) \/ RefuseKeyed(t)
    PROVE  LimitInv'
  <1>1. /\ UNCHANGED <<sources, failing, tally, admitted, mix, time, keyState, terminal>>
        /\ thread[t].pc \in {"route", "scope", "auth", "execute"}
    BY DEF AnswerOpen, RefuseUnread, LoseBackend, RefuseKeyed, limitVars, worldVars, storeVars
  <1>2. \E status : Answers(t, status) /\ status # 429
    <2>1. CASE AnswerOpen(t)
      <3>1. PICK statuses : statuses = (IF thread[t].request.route \notin DOMAIN OpenRoutes THEN {404, 503}
                                       ELSE IF thread[t].request.shape = "ok"
                                            THEN OpenRoutes[thread[t].request.route]
                                       ELSE {405})
        OBVIOUS
      <3>2. PICK status \in statuses : thread' = Answered(t, status, FALSE)
        BY <2>1, <3>1, Zenon DEF AnswerOpen
      <3>3. \A path \in DOMAIN OpenRoutes : OpenRoutes[path] \subseteq {200, 404, 503}
        BY DEF OpenRoutes, HealthOutcomes, ReadinessOutcomes, MetricsOutcomes
      <3>4. status # 429
        BY <3>1, <3>3
      <3>5. Answers(t, status)
        BY <3>2, RefusalAnswers
      <3> QED  BY <3>4, <3>5
    <2>2. CASE RefuseUnread(t)
      <3>1. PICK request : request = thread[t].request
        OBVIOUS
      <3>2. PICK status \in Refusals(request) : thread' = Answered(t, status, FALSE)
        BY <2>2, <3>1, Zenon DEF RefuseUnread
      <3>3. status # 429
        BY <3>2 DEF Refusals
      <3>4. Answers(t, status)
        BY <3>2, RefusalAnswers
      <3> QED  BY <3>3, <3>4
    <2>3. CASE LoseBackend(t)
      <3>1. Answers(t, 503)
        BY <2>3, RefusalAnswers DEF LoseBackend
      <3> QED  BY <3>1
    <2>4. CASE RefuseKeyed(t)
      <3>1. PICK status : status = (IF UnusableKey(thread[t].request.idem) THEN 400 ELSE 503)
        OBVIOUS
      <3>2. thread' = Answered(t, status, FALSE)
        BY <2>4, <3>1, Zenon DEF RefuseKeyed
      <3>3. Answers(t, status)
        BY <3>2, RefusalAnswers
      <3>4. status # 429
        BY <3>1
      <3> QED  BY <3>3, <3>4
    <2> QED  BY <2>1, <2>2, <2>3, <2>4
  <1>3. PICK status : Answers(t, status) /\ status # 429
    BY <1>2
  <1> QED  BY <1>1, <1>3, RefusedQuietly

LEMMA ReplayLimits ==
    ASSUME GatewayInv, LimitInv, NEW t \in Threads, Replay(t)
    PROVE  LimitInv'
  <1>1. /\ UNCHANGED <<sources, failing, tally, admitted, mix, time, keyState, terminal>>
        /\ thread[t].pc = "execute" /\ Scope(t) \in DOMAIN terminal
    BY DEF Replay, Remembered, limitVars, worldVars, storeVars
  <1>2. terminal[Scope(t)].status # 429
    BY <1>1 DEF LimitInv, AnswersStored
  <1>3. PICK status : status = (IF terminal[Scope(t)].fingerprint = thread[t].request.fingerprint
                                THEN terminal[Scope(t)].status ELSE 409)
    OBVIOUS
  <1>4. thread' = Answered(t, status, FALSE)
    BY <1>3, Zenon DEF Replay
  <1>5. Answers(t, status)
    BY <1>4, RefusalAnswers
  <1>6. status # 429
    BY <1>2, <1>3
  <1> QED  BY <1>1, <1>5, <1>6, RefusedQuietly

LEMMA EnterLimits ==
    ASSUME GatewayInv, LimitInv, NEW t \in Threads, EnterHandler(t)
    PROVE  LimitInv'
  <1>1. PICK pc \in {"scope", "auth"} : thread' = [thread EXCEPT ![t].stamp = time, ![t].pc = pc]
    <2>1. PICK pc : pc = (IF IsKeyed(thread[t].request) THEN "scope" ELSE "auth")
      OBVIOUS
    <2>2. thread' = [thread EXCEPT ![t].stamp = time, ![t].pc = pc]
      BY <2>1 DEF EnterHandler
    <2> QED  BY <2>1, <2>2, Zenon
  <1>2. /\ UNCHANGED <<sources, failing, tally, admitted, mix, time, keyState, terminal>>
        /\ thread[t].pc = "route"
    BY DEF EnterHandler, limitVars, worldVars, storeVars
  <1>3. thread = [u \in Threads |-> thread[u]] /\ DOMAIN thread[t] = Fields
    BY DEF GatewayInv, Fits
  <1>4. /\ OnlyMoves(t) /\ SameRequest(t) /\ thread'[t].pc = pc
        /\ thread'[t].stamp = time /\ thread'[t].status = thread[t].status
    BY <1>1, <1>2, <1>3, Zenon DEF OnlyMoves, SameRequest, Fields
  <1> QED  BY <1>2, <1>4, MovesQuietly

LEMMA FoundLimits ==
    ASSUME GatewayInv, LimitInv, NEW t \in Threads, NEW pc \in {"execute", "work"}, NEW found,
           thread' = [Moved(t, pc) EXCEPT ![t].caller = found], thread[t].pc \in {"scope", "auth"},
           UNCHANGED <<sources, failing, tally, admitted, mix, time, keyState, terminal>>
    PROVE  LimitInv'
  <1>1. thread = [u \in Threads |-> thread[u]] /\ DOMAIN thread[t] = Fields
    BY DEF GatewayInv, Fits
  <1>2. /\ OnlyMoves(t) /\ SameRequest(t) /\ thread'[t].pc = pc
        /\ thread'[t].stamp = thread[t].stamp /\ thread'[t].status = thread[t].status
    BY <1>1, Zenon DEF Moved, OnlyMoves, SameRequest, Fields
  <1> QED  BY <1>2, MovesQuietly

LEMMA MovedQuietly ==
    ASSUME GatewayInv, LimitInv, NEW t \in Threads, NEW pc \in {"route", "auth", "record"},
           thread' = Moved(t, pc), thread[t].pc \in {"gate", "scope", "auth"},
           pc = "record" => SurfaceOf(thread[t]) \in Surfaces,
           UNCHANGED <<sources, failing, tally, admitted, mix, time, keyState, terminal>>
    PROVE  LimitInv'
  <1>1. /\ OnlyMoves(t) /\ SameRequest(t) /\ thread'[t].pc = pc
        /\ thread'[t].stamp = thread[t].stamp /\ thread'[t].status = thread[t].status
    BY MovedFields, MovedLimits
  <1> QED  BY <1>1, MovesQuietly

LEMMA ResolveScopeLimits ==
    ASSUME GatewayInv, LimitInv, NEW t \in Threads, ResolveScope(t)
    PROVE  LimitInv'
  <1>1. /\ UNCHANGED <<sources, failing, tally, admitted, mix, time, keyState, terminal>>
        /\ thread[t].pc = "scope"
    BY DEF ResolveScope, limitVars, worldVars, storeVars
  <1>3. PICK found : thread' = (IF found = {} THEN Moved(t, "auth")
                   ELSE IF BadBody(thread[t].request) THEN Answered(t, 400, FALSE)
                   ELSE [Moved(t, "execute") EXCEPT ![t].caller = found])
    BY Zenon DEF ResolveScope
  <1>4. CASE thread' = Moved(t, "auth")
    BY <1>1, <1>4, MovedQuietly
  <1>5. CASE thread' = Answered(t, 400, FALSE)
    <2>1. Answers(t, 400)
      BY <1>5, RefusalAnswers
    <2> QED  BY <1>1, <2>1, RefusedQuietly
  <1>6. CASE thread' = [Moved(t, "execute") EXCEPT ![t].caller = found]
    BY <1>1, <1>6, FoundLimits
  <1> QED  BY <1>3, <1>4, <1>5, <1>6, Zenon

LEMMA AuthenticateLimits ==
    ASSUME GatewayInv, LimitInv, NEW t \in Threads, Authenticate(t)
    PROVE  LimitInv'
  <1>1. /\ UNCHANGED <<sources, failing, tally, admitted, mix, time, keyState, terminal>>
        /\ thread[t].pc = "auth"
    BY DEF Authenticate, limitVars, worldVars, storeVars
  <1>3. PICK found : thread' = (IF found = {}
                   THEN IF SurfaceOf(thread[t]) # "none" THEN Moved(t, "record")
                        ELSE Answered(t, 401, FALSE)
                   ELSE IF thread[t].request.shape = "method" THEN Answered(t, 405, FALSE)
                   ELSE IF thread[t].request.shape = "path" THEN Answered(t, 404, FALSE)
                   ELSE IF BadBody(thread[t].request) THEN Answered(t, 400, FALSE)
                   ELSE [Moved(t, "work") EXCEPT ![t].caller = found])
    BY Zenon DEF Authenticate, SurfaceOf
  <1>4. CASE thread' = Moved(t, "record") /\ SurfaceOf(thread[t]) # "none"
    <2>1. thread[t].request.route \in DOMAIN Routes
      BY <1>1 DEF GatewayInv, Fits
    <2>2. SurfaceOf(thread[t]) \in Surfaces
      BY <1>4, <2>1, SurfacesAssumption DEF SurfaceOf
    <2> QED  BY <1>1, <1>4, <2>2, MovedQuietly
  <1>5. \A status : Answers(t, status) /\ status # 429 => LimitInv'
    BY <1>1, RefusedQuietly
  <1>6. CASE thread' = [Moved(t, "work") EXCEPT ![t].caller = found]
    BY <1>1, <1>6, FoundLimits
  <1>7. /\ thread' = Answered(t, 400, FALSE) => LimitInv'
        /\ thread' = Answered(t, 401, FALSE) => LimitInv'
        /\ thread' = Answered(t, 404, FALSE) => LimitInv'
        /\ thread' = Answered(t, 405, FALSE) => LimitInv'
    <2>1. thread' = Answered(t, 400, FALSE) => Answers(t, 400)
      BY RefusalAnswers
    <2>2. thread' = Answered(t, 401, FALSE) => Answers(t, 401)
      BY RefusalAnswers
    <2>3. thread' = Answered(t, 404, FALSE) => Answers(t, 404)
      BY RefusalAnswers
    <2>4. thread' = Answered(t, 405, FALSE) => Answers(t, 405)
      BY RefusalAnswers
    <2>5. (Answers(t, 400) \/ Answers(t, 401) \/ Answers(t, 404) \/ Answers(t, 405)) => LimitInv'
      BY <1>5
    <2> QED  BY <2>1, <2>2, <2>3, <2>4, <2>5, Zenon
  <1> QED  BY <1>3, <1>4, <1>6, <1>7, Zenon

LEMMA WorkLimits ==
    ASSUME GatewayInv, LimitInv, NEW t \in Threads, Work(t)
    PROVE  LimitInv'
  <1>1. /\ UNCHANGED <<sources, failing, tally, admitted, mix, time, keyState, terminal>>
        /\ thread[t].pc = "work"
    BY DEF Work, limitVars, worldVars, storeVars
  <1>2. PICK route, outcomes : route = thread[t].request.route /\ outcomes = Routes[route].outcomes
    OBVIOUS
  <1>3. \A o \in outcomes : OutcomeFits(o)
    BY <1>1, <1>2, ActingRoutes DEF GatewayInv, Fits
  <1>4. PICK outcome \in outcomes \cup LostOutcomes(outcomes) : Answers(t, outcome.status)
    BY <1>2, Zenon DEF Work, Answers
  <1>5. OutcomeFits(outcome)
    BY <1>3, LostActs
  <1>6. outcome.status # 429
    BY <1>5, Zenon DEF OutcomeFits
  <1> QED  BY <1>1, <1>4, <1>6, RefusedQuietly

LEMMA ExecuteLimits ==
    ASSUME GatewayInv, LimitInv, NEW t \in Threads, Execute(t)
    PROVE  LimitInv'
  <1>1. /\ UNCHANGED <<sources, failing, tally, admitted, mix, time, keyState>>
        /\ thread[t].pc = "execute"
    BY DEF Execute, limitVars, worldVars
  <1>2. PICK route, outcomes : route = thread[t].request.route /\ outcomes = Routes[route].outcomes
    OBVIOUS
  <1>3. \A o \in outcomes : OutcomeFits(o)
    BY <1>1, <1>2, ActingRoutes DEF GatewayInv, Fits
  <1>4. PICK outcome \in outcomes :
          /\ \E until : terminal' = With(terminal, Scope(t), [fingerprint |-> thread[t].request.fingerprint,
                                                              status |-> outcome.status, until |-> until])
          /\ \E status \in {outcome.status, 503} : thread' = Answered(t, status, outcome.acts)
    BY <1>2, Zenon DEF Execute
  <1>5. outcome.status # 429
    BY <1>3, <1>4 DEF OutcomeFits
  <1>6. AnswersStored'
    <2>0. PICK until : terminal' = With(terminal, Scope(t), [fingerprint |-> thread[t].request.fingerprint,
                                                            status |-> outcome.status, until |-> until])
      BY <1>4, Zenon
    <2>1. PICK answer : answer = [fingerprint |-> thread[t].request.fingerprint, status |-> outcome.status,
                                  until |-> until]
      OBVIOUS
    <2>2. answer.status # 429
      BY <1>5, <2>1
    <2>3. PICK scopeKey : terminal' = With(terminal, scopeKey, answer)
      BY <2>0, <2>1, Zenon
    <2>4. /\ DOMAIN terminal' = DOMAIN terminal \cup {scopeKey} /\ terminal'[scopeKey] = answer
          /\ \A k \in DOMAIN terminal : k # scopeKey => terminal'[k] = terminal[k]
      <3>1. /\ DOMAIN With(terminal, scopeKey, answer) = DOMAIN terminal \cup {scopeKey}
            /\ With(terminal, scopeKey, answer)[scopeKey] = answer
            /\ \A k \in DOMAIN terminal : k # scopeKey => With(terminal, scopeKey, answer)[k] = terminal[k]
        BY SMT DEF With
      <3> QED  BY <2>3, <3>1, Zenon
    <2>5. \A k \in DOMAIN terminal : terminal[k].status # 429
      BY DEF LimitInv, AnswersStored
    <2> QED  BY <2>2, <2>4, <2>5 DEF AnswersStored
  <1>7. PICK status \in {outcome.status, 503} : Answers(t, status)
    <2>1. PICK status \in {outcome.status, 503} : thread' = Answered(t, status, outcome.acts)
      BY <1>4, Zenon
    <2>2. Answers(t, status)
      BY <2>1, ActionAnswers
    <2> QED  BY <2>1, <2>2
  <1>8. status # 429
    BY <1>5, <1>7
  <1> QED  BY <1>1, <1>6, <1>7, <1>8, AnsweredQuietly

-----------------------------------------------------------------------------
(***************************************************************************)
(* The steps of the throttle.                                              *)
(***************************************************************************)
LEMMA OwesFit ==
    ASSUME NEW r, r.pc = "emit" => EventsFit(r.events), NEW s
    PROVE  Owes(r, s) \in Nat
  <1>1. CASE r.pc = "emit" /\ SurfaceOf(r) = s /\ Len(r.events) = 2
    <2>1. CASE r.events = <<Timely>>
      <3>1. Len(r.events) = 1
        BY <2>1
      <3> QED  BY <1>1, <3>1
    <2>2. CASE r.events[1].count \in Nat \ {0}
      BY <1>1, <2>2 DEF Owes
    <2> QED  BY <1>1, <2>1, <2>2 DEF EventsFit
  <1>2. CASE ~(r.pc = "emit" /\ SurfaceOf(r) = s /\ Len(r.events) = 2)
    BY <1>2 DEF Owes
  <1> QED  BY <1>1, <1>2

LEMMA OwedIsNat ==
    ASSUME LimitInv, NEW s
    PROVE  Owed(s) \in Nat /\ \A u \in Threads : Owes(thread[u], s) \in Nat
  <1>1. ASSUME NEW u \in Threads  PROVE Owes(thread[u], s) \in Nat
    BY OwesFit DEF LimitInv, Sound
  <1>2. \A u \in Threads : Debts(s)[u] \in Nat
    BY <1>1 DEF Debts
  <1>3. IsFiniteSet(Threads)
    BY GatewayAssumption
  <1> QED  BY <1>1, <1>2, <1>3, UnitsAreFinite DEF Owed

LEMMA OwedChange ==
    ASSUME LimitInv, NEW t \in Threads, OnlyMoves(t), NEW s,
           thread'[t].pc = "emit" => EventsFit(thread'[t].events)
    PROVE  Owed(s)' = Owed(s) - Owes(thread[t], s) + Owes(thread'[t], s)
  <1>1. PICK f : f = [u \in Threads |-> Owes(thread[u], s)]
    OBVIOUS
  <1>2. PICK g : g = [u \in Threads |-> Owes(thread'[u], s)]
    OBVIOUS
  <1>3. \A u \in Threads : f[u] \in Nat
    BY <1>1, OwedIsNat
  <1>4. \A u \in Threads \ {t} : g[u] = f[u]
    BY <1>1, <1>2 DEF OnlyMoves
  <1>5. g[t] \in Nat
    BY <1>2, OwesFit
  <1>6. \A u \in Threads : f[u] \in Nat /\ g[u] \in Nat
    BY <1>3, <1>4, <1>5
  <1>7. IsFiniteSet(Threads)
    BY GatewayAssumption
  <1>8. Cardinality(Units(g, Threads)) - g[t] = Cardinality(Units(f, Threads)) - f[t]
    BY <1>4, <1>6, <1>7, UnitsChange
  <1>9. Cardinality(Units(g, Threads)) \in Nat /\ Cardinality(Units(f, Threads)) \in Nat
    BY <1>6, <1>7, UnitsAreFinite
  <1>10. Owed(s) = Cardinality(Units(f, Threads))
    BY <1>1 DEF Owed, Debts
  <1>11. Owed(s)' = Cardinality(Units(g, Threads))
    BY <1>2 DEF Owed, Debts, Units, Owes, SurfaceOf
  <1>12. f[t] = Owes(thread[t], s) /\ g[t] = Owes(thread'[t], s)
    BY <1>1, <1>2
  <1> QED  BY <1>3, <1>5, <1>8, <1>9, <1>10, <1>11, <1>12

LEMMA BalanceElsewhere ==
    ASSUME LimitInv, NEW t \in Threads, OnlyMoves(t), SameRequest(t), NEW s \in Surfaces, s # SurfaceOf(thread[t]),
           thread'[t].pc = "emit" => EventsFit(thread'[t].events),
           tally'[s] = tally[s], s \in DOMAIN failing' <=> s \in DOMAIN failing,
           s \in DOMAIN failing => failing'[s] = failing[s]
    PROVE  FailuresBalance(s)'
  <1>1. Owes(thread[t], s) = 0 /\ Owes(thread'[t], s) = 0
    BY DEF Owes, SurfaceOf, SameRequest
  <1>2. Owed(s)' = Owed(s)
    BY <1>1, OwedChange, OwedIsNat
  <1>3. \A u \in Threads : Owes(thread[u], s) = 0 => Owes(thread'[u], s) = 0
    BY <1>1 DEF OnlyMoves
  <1>4. \A u \in Threads : Owes(thread[u], s)' = Owes(thread'[u], s)
    BY DEF Owes, SurfaceOf
  <1>5. FailuresBalance(s)
    BY DEF LimitInv, ThrottleInv
  <1> QED  BY <1>2, <1>3, <1>4, <1>5 DEF FailuresBalance, Accounted

\* The account of one surface after a step that changes it.
LEMMA BalanceHere ==
    ASSUME LimitInv, NEW t \in Threads, OnlyMoves(t), NEW s,
           thread'[t].pc = "emit" => EventsFit(thread'[t].events), s \in DOMAIN failing',
           Accounted(s, failing[s].count)' + tally'[s].lost + (Owed(s) - Owes(thread[t], s) + Owes(thread'[t], s))
             = tally'[s].failures
    PROVE  FailuresBalance(s)'
  BY OwedChange DEF FailuresBalance

LEMMA FailureStep ==
    ASSUME GatewayInv, LimitInv, NEW t \in Threads, OnlyMoves(t), SameRequest(t),
           thread'[t].stamp = thread[t].stamp, thread'[t].status \in {thread[t].status, 401},
           thread[t].pc \in {"record", "emit"}, thread'[t].pc \in {"emit", "done"},
           thread'[t].pc = "emit" => EventsFit(thread'[t].events), ThrottleInv',
           UNCHANGED <<sources, admitted, mix, time, terminal>>
    PROVE  LimitInv'
  <1>1. Sound(thread[t]) /\ thread[t].status # 429
    BY DEF LimitInv, Sound
  <1>2. Sound(thread'[t])
    BY <1>1 DEF Sound, SameRequest, SurfaceOf
  <1>3. ASSUME NEW u \in Threads  PROVE Sound(thread[u])'
    <2>1. Sound(thread'[u])
      BY <1>2 DEF OnlyMoves, LimitInv
    <2> QED  BY <2>1, SoundStays
  <1>4. LimiterInv' /\ WorldTyped' /\ AnswersStored'
    BY LimiterStays DEF LimitInv, WorldTyped, AnswersStored
  <1> QED  BY <1>3, <1>4 DEF LimitInv

LEMMA CountedTally ==
    ASSUME ThrottleInv, NEW s \in Surfaces, tally' = [tally EXCEPT ![s].failures = @ + 1]
    PROVE  /\ tally' \in [Surfaces -> [failures : Nat, timely : Nat, summaries : Nat, counted : Nat, lost : Nat]]
           /\ \A x \in Surfaces \ {s} : tally'[x] = tally[x]
           /\ tally'[s].failures = tally[s].failures + 1 /\ tally'[s].timely = tally[s].timely
           /\ tally'[s].summaries = tally[s].summaries /\ tally'[s].counted = tally[s].counted
           /\ tally'[s].lost = tally[s].lost
  <1>1. tally \in [Surfaces -> [failures : Nat, timely : Nat, summaries : Nat, counted : Nat, lost : Nat]]
    BY DEF ThrottleInv
  <1> QED  BY <1>1

LEMMA CountedFailing ==
    ASSUME ThrottleInv, NEW s \in Surfaces, NEW now \in Nat, RecordFailure(s, now)
    PROVE  /\ failing' = [x \in DOMAIN failing' |-> failing'[x]] /\ DOMAIN failing' = DOMAIN failing \cup {s}
           /\ \A x \in DOMAIN failing \ {s} : failing'[x] = failing[x]
           /\ failing'[s] \in [start : Nat, last : Nat, count : Nat \ {0}]
           /\ failing'[s].count = IF InWindow(s, now) THEN failing[s].count + 1 ELSE 1
  <1>1. CASE InWindow(s, now)
    <2>1. s \in DOMAIN failing
      BY <1>1 DEF InWindow
    <2>2. failing[s] \in [start : Nat, last : Nat, count : Nat \ {0}] /\ failing = [x \in DOMAIN failing |-> failing[x]]
      BY <2>1 DEF ThrottleInv
    <2>3. failing' = [failing EXCEPT ![s].count = @ + 1, ![s].last = now]
      BY <1>1 DEF RecordFailure
    <2>4. PICK entry : entry = [failing[s] EXCEPT !.count = @ + 1, !.last = now]
      OBVIOUS
    <2>5. entry \in [start : Nat, last : Nat, count : Nat \ {0}] /\ entry.count = failing[s].count + 1
      <3>1. PICK e \in [start : Nat, last : Nat, count : Nat \ {0}] : e = failing[s]
        BY <2>2
      <3>2. entry = [start |-> e.start, last |-> now, count |-> e.count + 1]
        BY <2>4, <3>1
      <3>3. e.start \in Nat /\ e.count \in Nat /\ e.count + 1 \in Nat \ {0}
        BY <3>1
      <3> QED  BY <3>1, <3>2, <3>3
    <2>6. failing' = [x \in DOMAIN failing |-> IF x = s THEN entry ELSE failing[x]]
      <3>1. failing' = [failing EXCEPT ![s] = entry]
        BY <2>1, <2>2, <2>3, <2>4, Zenon
      <3> QED  BY <2>2, <3>1
    <2> QED  BY <1>1, <2>1, <2>5, <2>6
  <1>2. CASE ~InWindow(s, now)
    <2>1. PICK entry : entry = [start |-> now, last |-> now, count |-> 1]
      OBVIOUS
    <2>2. failing' = [x \in DOMAIN failing \cup {s} |-> IF x = s THEN entry ELSE failing[x]]
      BY <1>2, <2>1 DEF RecordFailure, With
    <2>3. entry \in [start : Nat, last : Nat, count : Nat \ {0}] /\ entry.count = 1
      BY <2>1
    <2> QED  BY <1>2, <2>2, <2>3
  <1> QED  BY <1>1, <1>2

LEMMA OwesNothing ==
    ASSUME NEW r, NEW s, r.pc # "emit"
    PROVE  Owes(r, s) = 0
  BY DEF Owes

LEMMA OwesOne ==
    ASSUME NEW r, NEW s, r.pc = "emit", SurfaceOf(r) = s, r.events = <<Timely>>
    PROVE  Owes(r, s) = 1
  <1>1. Len(r.events) = 1
    OBVIOUS
  <1> QED  BY <1>1 DEF Owes

LEMMA OwesSummary ==
    ASSUME NEW r, NEW s, NEW c, r.pc = "emit", SurfaceOf(r) = s,
           r.events = <<[kind |-> "summary", count |-> c], Timely>>
    PROVE  Owes(r, s) = c
  <1>1. Len(r.events) = 2 /\ r.events[1].count = c
    OBVIOUS
  <1> QED  BY <1>1 DEF Owes

\* What the thread is left with: an answer, or the events of a closed window.
LEMMA CountedThread ==
    ASSUME GatewayInv, LimitInv, NEW t \in Threads, CountFailure(t), NEW s, s = SurfaceOf(thread[t])
    PROVE  /\ OnlyMoves(t) /\ SameRequest(t) /\ thread'[t].stamp = thread[t].stamp
           /\ \/ /\ InWindow(s, thread[t].stamp)
                 /\ thread'[t].pc = "done" /\ thread'[t].status = 401
              \/ /\ ~InWindow(s, thread[t].stamp) /\ SummaryDue(s)
                 /\ thread'[t].pc = "emit" /\ thread'[t].status = thread[t].status
                 /\ thread'[t].events = <<[kind |-> "summary", count |-> failing[s].count], Timely>>
              \/ /\ ~InWindow(s, thread[t].stamp) /\ ~SummaryDue(s)
                 /\ thread'[t].pc = "emit" /\ thread'[t].status = thread[t].status
                 /\ thread'[t].events = <<Timely>>
  <1>1. PICK events : events = FailureEvents(s, thread[t].stamp)
    OBVIOUS
  <1>2. UNCHANGED keyState
    BY DEF CountFailure, worldVars
  <1>3. thread' = IF events = <<>> THEN Answered(t, 401, FALSE)
                  ELSE [Moved(t, "emit") EXCEPT ![t].events = events]
    BY <1>1, Zenon DEF CountFailure, SurfaceOf
  <1>4. thread = [u \in Threads |-> thread[u]] /\ DOMAIN thread[t] = Fields
    BY DEF GatewayInv, Fits
  <1>5. ASSUME thread' = [Moved(t, "emit") EXCEPT ![t].events = events]
        PROVE  /\ OnlyMoves(t) /\ SameRequest(t) /\ thread'[t].stamp = thread[t].stamp
               /\ thread'[t].pc = "emit" /\ thread'[t].status = thread[t].status /\ thread'[t].events = events
    BY <1>2, <1>4, <1>5, Zenon DEF Moved, OnlyMoves, SameRequest, Fields
  <1>6. CASE InWindow(s, thread[t].stamp)
    <2>1. events = <<>>
      BY <1>1, <1>6 DEF FailureEvents
    <2>2. PICK acted : thread' = Answered(t, 401, acted)
      BY <1>3, <2>1, Zenon
    <2>3. OnlyMoves(t) /\ SameRequest(t) /\ thread'[t].pc = "done"
      BY <1>2, <2>2, AnsweredFields
    <2>4. thread'[t].stamp = thread[t].stamp /\ thread'[t].status = 401
      BY <2>2, AnsweredLimits
    <2> QED  BY <1>6, <2>3, <2>4
  <1>7. CASE ~InWindow(s, thread[t].stamp) /\ SummaryDue(s)
    <2>1. events = <<[kind |-> "summary", count |-> failing[s].count], Timely>>
      BY <1>1, <1>7 DEF FailureEvents, Timely
    <2>2. events # <<>>
      BY <2>1
    <2>3. thread' = [Moved(t, "emit") EXCEPT ![t].events = events]
      BY <1>3, <2>2, Zenon
    <2> QED  BY <1>5, <1>7, <2>1, <2>3
  <1>8. CASE ~InWindow(s, thread[t].stamp) /\ ~SummaryDue(s)
    <2>1. events = <<Timely>>
      BY <1>1, <1>8 DEF FailureEvents, Timely
    <2>2. events # <<>>
      BY <2>1
    <2>3. thread' = [Moved(t, "emit") EXCEPT ![t].events = events]
      BY <1>3, <2>2, Zenon
    <2> QED  BY <1>5, <1>8, <2>1, <2>3
  <1> QED  BY <1>6, <1>7, <1>8

LEMMA CountFailureLimits ==
    ASSUME GatewayInv, LimitInv, NEW t \in Threads, CountFailure(t)
    PROVE  LimitInv'
  <1>1. PICK s, now : s = SurfaceOf(thread[t]) /\ now = thread[t].stamp
    OBVIOUS
  <1>2. thread[t].pc = "record" /\ UNCHANGED <<sources, admitted, mix, time, terminal>>
    BY DEF CountFailure, worldVars, storeVars
  <1>3. s \in Surfaces /\ now \in Nat
    BY <1>1, <1>2 DEF LimitInv, Sound
  <1>4. RecordFailure(s, now)
    BY <1>1 DEF CountFailure, SurfaceOf
  <1>5. ThrottleInv /\ FailuresBalance(s)
    BY <1>3 DEF LimitInv, ThrottleInv
  <1>6. tally' = [tally EXCEPT ![s].failures = @ + 1]
    BY <1>4 DEF RecordFailure
  <1>7. /\ tally' \in [Surfaces -> [failures : Nat, timely : Nat, summaries : Nat, counted : Nat, lost : Nat]]
        /\ \A x \in Surfaces \ {s} : tally'[x] = tally[x]
        /\ tally'[s].failures = tally[s].failures + 1 /\ tally'[s].timely = tally[s].timely
        /\ tally'[s].summaries = tally[s].summaries /\ tally'[s].counted = tally[s].counted
        /\ tally'[s].lost = tally[s].lost
    BY <1>3, <1>5, <1>6, CountedTally
  <1>8. /\ failing' = [x \in DOMAIN failing' |-> failing'[x]] /\ DOMAIN failing' = DOMAIN failing \cup {s}
        /\ \A x \in DOMAIN failing \ {s} : failing'[x] = failing[x]
        /\ failing'[s] \in [start : Nat, last : Nat, count : Nat \ {0}]
        /\ failing'[s].count = IF InWindow(s, now) THEN failing[s].count + 1 ELSE 1
    BY <1>3, <1>4, <1>5, CountedFailing
  <1>9. /\ OnlyMoves(t) /\ SameRequest(t) /\ thread'[t].stamp = now
        /\ \/ /\ InWindow(s, now)
              /\ thread'[t].pc = "done" /\ thread'[t].status = 401
           \/ /\ ~InWindow(s, now) /\ SummaryDue(s)
              /\ thread'[t].pc = "emit" /\ thread'[t].status = thread[t].status
              /\ thread'[t].events = <<[kind |-> "summary", count |-> failing[s].count], Timely>>
           \/ /\ ~InWindow(s, now) /\ ~SummaryDue(s)
              /\ thread'[t].pc = "emit" /\ thread'[t].status = thread[t].status
              /\ thread'[t].events = <<Timely>>
    BY <1>1, CountedThread
  <1>10. s \in DOMAIN failing => failing[s].count \in Nat \ {0}
    BY <1>5 DEF ThrottleInv
  <1>11. SurfaceOf(thread'[t]) = s
    BY <1>1, <1>9 DEF SurfaceOf, SameRequest
  <1>12. thread'[t].pc = "emit" => EventsFit(thread'[t].events)
    <2>1. CASE thread'[t].events = <<[kind |-> "summary", count |-> failing[s].count], Timely>> /\ SummaryDue(s)
      <3>1. failing[s].count \in Nat \ {0}
        BY <2>1, <1>10 DEF SummaryDue
      <3>2. thread'[t].events[1].count = failing[s].count
        BY <2>1
      <3> QED  BY <2>1, <3>1, <3>2 DEF EventsFit
    <2>2. CASE thread'[t].events = <<Timely>>
      BY <2>2 DEF EventsFit
    <2> QED  BY <1>9, <2>1, <2>2
  <1>13. Owes(thread[t], s) = 0 /\ Owed(s) \in Nat
    BY <1>2, OwesNothing, OwedIsNat
  <1>14. tally[s].counted \in Nat /\ tally[s].timely \in Nat /\ tally[s].summaries \in Nat /\ tally[s].failures \in Nat
         /\ tally[s].lost \in Nat
    BY <1>3, <1>5 DEF ThrottleInv
  <1>15. Accounted(s, failing[s].count)'
           = tally[s].counted + (tally[s].timely - tally[s].summaries - 1) + failing'[s].count
    BY <1>7 DEF Accounted
  <1>16. s \in DOMAIN failing =>
           tally[s].counted + (tally[s].timely - tally[s].summaries - 1) + failing[s].count + tally[s].lost + Owed(s)
             = tally[s].failures
    BY <1>5 DEF FailuresBalance, Accounted
  <1>17. Accounted(s, failing[s].count)' + tally'[s].lost + (Owed(s) - Owes(thread[t], s) + Owes(thread'[t], s)) = tally'[s].failures
    <2>1. CASE InWindow(s, now)
      <3>1. s \in DOMAIN failing /\ failing'[s].count = failing[s].count + 1
        BY <1>8, <2>1 DEF InWindow
      <3>2. Owes(thread'[t], s) = 0
        BY <1>9, <2>1, OwesNothing
      <3> QED  BY <3>1, <3>2, <1>7, <1>10, <1>13, <1>14, <1>15, <1>16
    <2>2. CASE ~InWindow(s, now) /\ SummaryDue(s)
      <3>1. s \in DOMAIN failing /\ failing'[s].count = 1
        BY <1>8, <2>2 DEF SummaryDue
      <3>2. Owes(thread'[t], s) = failing[s].count
        BY <1>9, <1>11, <2>2, OwesSummary
      <3> QED  BY <3>1, <3>2, <1>7, <1>10, <1>13, <1>14, <1>15, <1>16
    <2>3. CASE ~InWindow(s, now) /\ ~SummaryDue(s)
      <3>1. failing'[s].count = 1 /\ Owes(thread'[t], s) = 1
        BY <1>8, <1>9, <1>11, <2>3, OwesOne
      <3>2. CASE s \in DOMAIN failing
        <4>1. failing[s].count = 1
          BY <1>10, <2>3, <3>2 DEF SummaryDue
        <4> QED  BY <3>1, <3>2, <4>1, <1>7, <1>10, <1>13, <1>14, <1>15, <1>16
      <3>3. CASE s \notin DOMAIN failing
        <4>1. tally[s] = NoFailures /\ \A u \in Threads : Owes(thread[u], s) = 0
          BY <1>5, <3>3 DEF FailuresBalance
        <4>2. tally[s].failures = 0 /\ tally[s].timely = 0 /\ tally[s].summaries = 0 /\ tally[s].counted = 0
              /\ tally[s].lost = 0
          BY <4>1 DEF NoFailures
        <4>3. \A u \in Threads : Debts(s)[u] = 0
          BY <4>1 DEF Debts
        <4>4. Owed(s) = 0
          BY <4>3, NoUnits DEF Owed
        <4> QED  BY <3>1, <4>2, <4>4, <1>7, <1>13, <1>15
      <3> QED  BY <3>2, <3>3
    <2> QED  BY <2>1, <2>2, <2>3
  <1>18. FailuresBalance(s)'
    BY <1>8, <1>9, <1>12, <1>17, BalanceHere
  <1>19. ASSUME NEW x \in Surfaces, x # s  PROVE FailuresBalance(x)'
    <2>1. x \in DOMAIN failing' <=> x \in DOMAIN failing
      BY <1>8, <1>19
    <2> QED  BY <1>1, <1>7, <1>8, <1>9, <1>12, <1>19, <2>1, BalanceElsewhere
  <1>20. \A x \in DOMAIN failing' : x \in Surfaces /\ failing'[x] \in [start : Nat, last : Nat, count : Nat \ {0}]
    BY <1>3, <1>5, <1>8 DEF ThrottleInv
  <1>21. ThrottleInv'
    <2>1. \A x \in Surfaces : FailuresBalance(x)'
      BY <1>18, <1>19
    <2> QED  BY <1>7, <1>8, <1>20, <2>1 DEF ThrottleInv
  <1> QED  BY <1>1, <1>2, <1>9, <1>12, <1>21, FailureStep

LEMMA EmittedTally ==
    ASSUME ThrottleInv, NEW s \in Surfaces, NEW event, NEW written \in BOOLEAN, EmitFailure(s, event, written),
           event.kind \in {"timely", "summary"}, event.kind = "summary" => event.count \in Nat \ {0}
    PROVE  /\ tally' \in [Surfaces -> [failures : Nat, timely : Nat, summaries : Nat, counted : Nat, lost : Nat]]
           /\ \A x \in Surfaces \ {s} : tally'[x] = tally[x]
           /\ tally'[s].failures = tally[s].failures
           /\ Shown(tally'[s]) = Shown(tally[s]) + Carried(event) /\ Carried(event) \in Nat
  <1>1. tally \in [Surfaces -> [failures : Nat, timely : Nat, summaries : Nat, counted : Nat, lost : Nat]]
    BY DEF ThrottleInv
  <1>2. PICK e \in [failures : Nat, timely : Nat, summaries : Nat, counted : Nat, lost : Nat] : e = tally[s]
    BY <1>1
  <1>3. e.failures \in Nat /\ e.timely \in Nat /\ e.summaries \in Nat /\ e.counted \in Nat /\ e.lost \in Nat
    BY <1>2
  <1>4. Carried(event) \in Nat
    BY DEF Carried
  <1>5. PICK a, b, c, d :
          /\ a = (IF written /\ event.kind = "timely" THEN e.timely + 1 ELSE e.timely)
          /\ b = (IF written /\ event.kind = "summary" THEN e.summaries + 1 ELSE e.summaries)
          /\ c = (IF written /\ event.kind = "summary" THEN e.counted + event.count ELSE e.counted)
          /\ d = (IF written THEN e.lost ELSE e.lost + Carried(event))
    OBVIOUS
  <1>6. a \in Nat /\ b \in Nat /\ c \in Nat /\ d \in Nat
    BY <1>3, <1>4, <1>5
  <1>7. c + (a - b) + d = e.counted + (e.timely - e.summaries) + e.lost + Carried(event)
    <2>1. CASE event.kind = "timely"
      BY <1>3, <1>5, <2>1 DEF Carried
    <2>2. CASE event.kind = "summary"
      BY <1>3, <1>5, <2>2 DEF Carried
    <2> QED  BY <2>1, <2>2
  <1>8. tally' = [tally EXCEPT ![s].timely = a, ![s].summaries = b, ![s].counted = c, ![s].lost = d]
    BY <1>1, <1>2, <1>5 DEF EmitFailure
  <1>9. PICK mid : mid = [tally EXCEPT ![s].timely = a, ![s].summaries = b]
    OBVIOUS
  <1>10. /\ mid \in [Surfaces -> [failures : Nat, timely : Nat, summaries : Nat, counted : Nat, lost : Nat]]
         /\ \A x \in Surfaces \ {s} : mid[x] = tally[x]
         /\ mid[s].failures = e.failures /\ mid[s].timely = a /\ mid[s].summaries = b
    BY <1>1, <1>2, <1>6, <1>9
  <1>11. tally' = [mid EXCEPT ![s].counted = c, ![s].lost = d]
    BY <1>8, <1>9, Zenon
  <1>12. /\ tally' \in [Surfaces -> [failures : Nat, timely : Nat, summaries : Nat, counted : Nat, lost : Nat]]
         /\ \A x \in Surfaces \ {s} : tally'[x] = tally[x]
         /\ tally'[s].failures = e.failures /\ tally'[s].timely = a /\ tally'[s].summaries = b
         /\ tally'[s].counted = c /\ tally'[s].lost = d
    BY <1>6, <1>10, <1>11
  <1>13. Shown(tally'[s]) = Shown(e) + Carried(event)
    BY <1>3, <1>4, <1>6, <1>7, <1>12 DEF Shown
  <1> QED  BY <1>2, <1>4, <1>12, <1>13

\* The thread after its event: answered, or with the timely event still to write.
LEMMA WrittenThread ==
    ASSUME GatewayInv, LimitInv, NEW t \in Threads, WriteFailureEvent(t)
    PROVE  /\ OnlyMoves(t) /\ SameRequest(t) /\ thread'[t].stamp = thread[t].stamp
           /\ \/ /\ thread[t].events = <<Timely>> /\ Head(thread[t].events) = Timely
                 /\ thread'[t].pc = "done" /\ thread'[t].status = 401
              \/ \E c \in Nat \ {0} :
                    /\ thread[t].events = <<[kind |-> "summary", count |-> c], Timely>>
                    /\ Head(thread[t].events) = [kind |-> "summary", count |-> c]
                    /\ thread'[t].pc = "emit" /\ thread'[t].status = thread[t].status
                    /\ thread'[t].events = <<Timely>>
  <1>1. thread[t].pc = "emit" /\ UNCHANGED keyState
    BY DEF WriteFailureEvent, worldVars
  <1>2. EventsFit(thread[t].events)
    BY <1>1 DEF LimitInv, Sound
  <1>3. thread = [u \in Threads |-> thread[u]] /\ DOMAIN thread[t] = Fields
    BY DEF GatewayInv, Fits
  <1>4. CASE thread[t].events = <<Timely>>
    <2>1. Len(thread[t].events) = 1 /\ Head(thread[t].events) = Timely
      BY <1>4
    <2>2. PICK acted : thread' = Answered(t, 401, acted)
      BY <2>1, Zenon DEF WriteFailureEvent
    <2>3. OnlyMoves(t) /\ SameRequest(t) /\ thread'[t].pc = "done"
      BY <1>1, <2>2, AnsweredFields
    <2>4. thread'[t].stamp = thread[t].stamp /\ thread'[t].status = 401
      BY <2>2, AnsweredLimits
    <2> QED  BY <1>4, <2>1, <2>3, <2>4
  <1>5. CASE thread[t].events # <<Timely>>
    <2>1. PICK c \in Nat \ {0} : thread[t].events = <<[kind |-> "summary", count |-> c], Timely>>
      BY <1>2, <1>5 DEF EventsFit
    <2>2. /\ Len(thread[t].events) # 1 /\ Head(thread[t].events) = [kind |-> "summary", count |-> c]
          /\ Tail(thread[t].events) = <<Timely>>
      BY <2>1
    <2>3. thread' = [thread EXCEPT ![t].events = Tail(@)]
      BY <2>2, Zenon DEF WriteFailureEvent
    <2>4. PICK rest : rest = Tail(thread[t].events)
      OBVIOUS
    <2>5. thread' = [thread EXCEPT ![t].events = rest]
      BY <2>3, <2>4
    <2>6. /\ OnlyMoves(t) /\ SameRequest(t) /\ thread'[t].stamp = thread[t].stamp
          /\ thread'[t].pc = thread[t].pc /\ thread'[t].status = thread[t].status /\ thread'[t].events = rest
      BY <1>1, <1>3, <2>5, Zenon DEF OnlyMoves, SameRequest, Fields
    <2> QED  BY <1>1, <2>1, <2>2, <2>4, <2>6
  <1> QED  BY <1>4, <1>5

LEMMA WriteFailureLimits ==
    ASSUME GatewayInv, LimitInv, NEW t \in Threads, WriteFailureEvent(t)
    PROVE  LimitInv'
  <1>1. PICK s, event : s = SurfaceOf(thread[t]) /\ event = Head(thread[t].events)
    OBVIOUS
  <1>2. thread[t].pc = "emit" /\ UNCHANGED <<sources, admitted, mix, time, terminal>>
    BY DEF WriteFailureEvent, worldVars, storeVars
  <1>3. s \in Surfaces
    BY <1>1, <1>2 DEF LimitInv, Sound
  <1>4. PICK written \in BOOLEAN : EmitFailure(s, event, written) /\ UNCHANGED failing
    BY <1>1, Zenon DEF WriteFailureEvent, SurfaceOf, EmitFailure
  <1>5. ThrottleInv /\ FailuresBalance(s)
    BY <1>3 DEF LimitInv, ThrottleInv
  <1>6. OnlyMoves(t) /\ SameRequest(t) /\ thread'[t].stamp = thread[t].stamp
    BY WrittenThread
  <1>7. PICK left \in Nat, owed \in Nat \ {0} :
          /\ Owes(thread[t], s) = owed /\ Owes(thread'[t], s) = left
          /\ thread'[t].pc \in {"emit", "done"} /\ thread'[t].status \in {thread[t].status, 401}
          /\ thread'[t].pc = "emit" => EventsFit(thread'[t].events)
          /\ event.kind \in {"timely", "summary"} /\ (event.kind = "summary" => event.count \in Nat \ {0})
          /\ owed = left + Carried(event)
    <2>1. SurfaceOf(thread'[t]) = s
      BY <1>1, <1>6 DEF SurfaceOf, SameRequest
    <2>2. CASE /\ thread[t].events = <<Timely>> /\ Head(thread[t].events) = Timely
               /\ thread'[t].pc = "done" /\ thread'[t].status = 401
      <3>1. event.kind = "timely"
        BY <1>1, <2>2 DEF Timely
      <3>2. Owes(thread[t], s) = 1
        BY <1>1, <1>2, <2>2, OwesOne
      <3>3. Owes(thread'[t], s) = 0
        BY <2>2, OwesNothing
      <3>4. Carried(event) = 1
        BY <3>1 DEF Carried
      <3> QED  BY <2>2, <3>1, <3>2, <3>3, <3>4
    <2>3. CASE \E c \in Nat \ {0} :
                    /\ thread[t].events = <<[kind |-> "summary", count |-> c], Timely>>
                    /\ Head(thread[t].events) = [kind |-> "summary", count |-> c]
                    /\ thread'[t].pc = "emit" /\ thread'[t].status = thread[t].status
                    /\ thread'[t].events = <<Timely>>
      <3>1. PICK c \in Nat \ {0} :
                    /\ thread[t].events = <<[kind |-> "summary", count |-> c], Timely>>
                    /\ Head(thread[t].events) = [kind |-> "summary", count |-> c]
                    /\ thread'[t].pc = "emit" /\ thread'[t].status = thread[t].status
                    /\ thread'[t].events = <<Timely>>
        BY <2>3
      <3>2. event.kind = "summary" /\ event.count = c
        BY <1>1, <3>1
      <3>3. Owes(thread[t], s) = c
        BY <1>1, <1>2, <3>1, OwesSummary
      <3>4. Owes(thread'[t], s) = 1 /\ EventsFit(thread'[t].events)
        BY <2>1, <3>1, OwesOne DEF EventsFit
      <3>5. c = 1 + Carried(event)
        BY <3>2 DEF Carried
      <3> QED  BY <3>1, <3>2, <3>3, <3>4, <3>5
    <2> QED  BY <2>2, <2>3, WrittenThread
  <1>8. /\ tally' \in [Surfaces -> [failures : Nat, timely : Nat, summaries : Nat, counted : Nat, lost : Nat]]
        /\ \A x \in Surfaces \ {s} : tally'[x] = tally[x]
        /\ tally'[s].failures = tally[s].failures
        /\ Shown(tally'[s]) = Shown(tally[s]) + Carried(event) /\ Carried(event) \in Nat
    BY <1>3, <1>4, <1>5, <1>7, EmittedTally
  <1>9. s \in DOMAIN failing
    BY <1>5, <1>7 DEF FailuresBalance
  <1>10. failing[s].count \in Nat /\ Owed(s) \in Nat
    BY <1>5, <1>9, OwedIsNat DEF ThrottleInv
  <1>11. tally[s].counted \in Nat /\ tally[s].timely \in Nat /\ tally[s].summaries \in Nat /\ tally[s].failures \in Nat
         /\ tally[s].lost \in Nat
    BY <1>3, <1>5 DEF ThrottleInv
  <1>12. tally[s].counted + (tally[s].timely - tally[s].summaries - 1) + failing[s].count + tally[s].lost + Owed(s)
             = tally[s].failures
    BY <1>5, <1>9 DEF FailuresBalance, Accounted
  <1>13. Accounted(s, failing[s].count)'
           = tally'[s].counted + (tally'[s].timely - tally'[s].summaries - 1) + failing[s].count
    BY <1>4 DEF Accounted
  <1>14. Accounted(s, failing[s].count)' + tally'[s].lost + (Owed(s) - Owes(thread[t], s) + Owes(thread'[t], s)) = tally'[s].failures
    <2>1. /\ tally'[s].counted \in Nat /\ tally'[s].timely \in Nat /\ tally'[s].summaries \in Nat
          /\ tally'[s].lost \in Nat
      BY <1>3, <1>8
    <2> QED  BY <1>7, <1>8, <1>10, <1>11, <1>12, <1>13, <2>1 DEF Shown
  <1>15. FailuresBalance(s)'
    BY <1>4, <1>6, <1>7, <1>9, <1>14, BalanceHere
  <1>16. ASSUME NEW x \in Surfaces, x # s  PROVE FailuresBalance(x)'
    BY <1>1, <1>4, <1>6, <1>7, <1>8, <1>16, BalanceElsewhere
  <1>17. ThrottleInv'
    <2>1. \A x \in Surfaces : FailuresBalance(x)'
      BY <1>15, <1>16
    <2> QED  BY <1>4, <1>5, <1>8, <2>1 DEF ThrottleInv
  <1> QED  BY <1>2, <1>6, <1>7, <1>17, FailureStep

-----------------------------------------------------------------------------
(***************************************************************************)
(* The steps of the limiter.                                               *)
(***************************************************************************)
\* Requests that count in one window are one sender's.
LEMMA SameSource ==
    ASSUME NEW m \in Mixes, NEW r \in m.requests, NEW q \in m.requests, Source(r.origin) = Source(q.origin)
    PROVE  r.origin.sender = q.origin.sender
  <1>1. ASSUME NEW p \in m.requests
        PROVE  /\ p.origin.peer \notin TrustedProxies =>
                     p.origin.sender = p.origin.peer /\ Source(p.origin) = p.origin.peer
               /\ p.origin.peer \in TrustedProxies /\ NamesClient(p.origin) =>
                     p.origin.sender \notin TrustedProxies /\ Source(p.origin) = p.origin.sender
               /\ p.origin.peer \in TrustedProxies /\ ~NamesClient(p.origin) =>
                     /\ Source(p.origin) = p.origin.peer
                     /\ \A o \in m.requests : o.origin.peer = p.origin.peer /\ ~NamesClient(o.origin)
                                                => o.origin.sender = p.origin.sender
    BY SendersAssumption DEF Source
  <1>2. CASE r.origin.peer \notin TrustedProxies
    BY <1>1, <1>2
  <1>3. CASE r.origin.peer \in TrustedProxies /\ NamesClient(r.origin)
    BY <1>1, <1>3
  <1>4. CASE r.origin.peer \in TrustedProxies /\ ~NamesClient(r.origin)
    BY <1>1, <1>4
  <1> QED  BY <1>2, <1>3, <1>4

LEMMA SinceFinite ==
    ASSUME NEW moment
    PROVE  IsFiniteSet(Since(moment)) /\ Since(moment) \in SUBSET (0..MaxTime)
  <1>1. IsFiniteSet(0..MaxTime)
    BY GatewayAssumption, FS_Interval
  <1>2. Since(moment) \in SUBSET (0..MaxTime)
    BY DEF Since
  <1> QED  BY <1>1, <1>2, FS_Subset

LEMMA PassedFit ==
    ASSUME LimiterInv, NEW who \in Senders, NEW moment
    PROVE  PassedIn(admitted, who, moment) \in Nat /\ \A n \in Since(moment) : admitted[who][n] \in Nat
  <1>1. \A n \in Since(moment) : admitted[who][n] \in Nat
    BY SinceFinite DEF LimiterInv
  <1> QED  BY <1>1, SinceFinite, UnitsAreFinite DEF PassedIn

LEMMA Admission ==
    ASSUME LimiterInv, WorldTyped, NEW w \in Senders, admitted' = [admitted EXCEPT ![w][time] = @ + 1]
    PROVE  /\ admitted' \in [Senders -> [0..MaxTime -> Nat]]
           /\ \A n \in 0..MaxTime : n # time => admitted'[w][n] = admitted[w][n]
           /\ admitted'[w][time] = admitted[w][time] + 1
           /\ \A who \in Senders \ {w} : admitted'[who] = admitted[who]
  <1>1. admitted \in [Senders -> [0..MaxTime -> Nat]] /\ time \in 0..MaxTime
    BY DEF LimiterInv, WorldTyped
  <1>2. PICK Times : Times = 0..MaxTime
    OBVIOUS
  <1>3. PICK row : row = [admitted[w] EXCEPT ![time] = @ + 1]
    OBVIOUS
  <1>4. admitted \in [Senders -> [Times -> Nat]] /\ admitted[w] \in [Times -> Nat] /\ time \in Times
    BY <1>1, <1>2
  <1>5. /\ row \in [Times -> Nat] /\ row[time] = admitted[w][time] + 1
        /\ \A n \in Times : n # time => row[n] = admitted[w][n]
    BY <1>3, <1>4
  <1>6. admitted' = [admitted EXCEPT ![w] = row]
    BY <1>3
  <1>7. admitted' \in [Senders -> [Times -> Nat]] /\ admitted'[w] = row /\ \A who \in Senders \ {w} : admitted'[who] = admitted[who]
    BY <1>4, <1>5, <1>6
  <1> QED  BY <1>2, <1>5, <1>7

LEMMA AdmissionCounts ==
    ASSUME LimiterInv, WorldTyped, NEW w \in Senders, admitted' = [admitted EXCEPT ![w][time] = @ + 1],
           NEW who \in Senders, NEW moment \in Int
    PROVE  /\ PassedIn(admitted', who, moment) \in Nat
           /\ PassedIn(admitted', who, moment) >= PassedIn(admitted, who, moment)
           /\ who = w /\ moment <= time => PassedIn(admitted', who, moment) = PassedIn(admitted, who, moment) + 1
  <1>1. PICK f, g, S : f = admitted[who] /\ g = admitted'[who] /\ S = Since(moment)
    OBVIOUS
  <1>2. PassedIn(admitted, who, moment) = Cardinality(Units(f, S))
    BY <1>1 DEF PassedIn
  <1>3. PassedIn(admitted', who, moment) = Cardinality(Units(g, S))
    BY <1>1 DEF PassedIn
  <1>4. IsFiniteSet(S) /\ S \in SUBSET (0..MaxTime) /\ (\A n \in 0..MaxTime : n \in S <=> n >= moment)
    BY <1>1, SinceFinite DEF Since
  <1>5. \A n \in 0..MaxTime : f[n] \in Nat /\ g[n] \in Nat
    <2>1. admitted \in [Senders -> [0..MaxTime -> Nat]] /\ admitted' \in [Senders -> [0..MaxTime -> Nat]]
      BY Admission DEF LimiterInv
    <2>2. f \in [0..MaxTime -> Nat] /\ g \in [0..MaxTime -> Nat]
      BY <1>1, <2>1
    <2> QED  BY <2>2
  <1>6. \A n \in S : f[n] \in Nat /\ g[n] \in Nat
    BY <1>4, <1>5
  <1>7. Cardinality(Units(f, S)) \in Nat /\ Cardinality(Units(g, S)) \in Nat
    BY <1>4, <1>6, UnitsAreFinite
  <1>8. time \in 0..MaxTime /\ time \in Int
    BY GatewayAssumption DEF WorldTyped
  <1>9. CASE who = w /\ moment <= time
    <2>1. time \in S
      BY <1>4, <1>8, <1>9
    <2>2. \A n \in S \ {time} : g[n] = f[n]
      BY <1>1, <1>4, <1>9, Admission
    <2>3. g[time] = f[time] + 1
      BY <1>1, <1>9, Admission
    <2>4. Cardinality(Units(g, S)) - g[time] = Cardinality(Units(f, S)) - f[time]
      BY <1>4, <1>6, <2>1, <2>2, UnitsChange
    <2>5. f[time] \in Nat
      BY <1>6, <2>1
    <2> QED  BY <1>2, <1>3, <1>7, <2>3, <2>4, <2>5
  <1>10. CASE ~(who = w /\ moment <= time)
    <2>1. \A n \in S : g[n] = f[n]
      <3>1. CASE who # w
        BY <1>1, <3>1, Admission
      <3>2. CASE who = w
        <4>1. time \notin S
          BY <1>4, <1>8, <1>10, <3>2
        <4> QED  BY <1>1, <1>4, <3>2, <4>1, Admission
      <3> QED  BY <3>1, <3>2
    <2>2. Units(g, S) = Units(f, S)
      BY <2>1 DEF Units
    <2> QED  BY <1>2, <1>3, <1>7, <1>10, <2>2
  <1> QED  BY <1>9, <1>10

\* What earned one thread its 429 is not taken back.
LEMMA EarnedStays ==
    ASSUME LimiterInv, WorldTyped, NEW w \in Senders, admitted' = [admitted EXCEPT ![w][time] = @ + 1],
           NEW r, r.request.origin.sender \in Senders, r.stamp \in Nat, Earned(r)
    PROVE  PassedIn(admitted', r.request.origin.sender, r.stamp - Window + 1) >= MaxRequests
  <1>1. PICK who \in Senders, moment \in Int : who = r.request.origin.sender /\ moment = r.stamp - Window + 1
    BY LimitsAssumption
  <1>2. PassedIn(admitted, who, moment) \in Nat /\ PassedIn(admitted, who, moment) >= MaxRequests
    BY <1>1, PassedFit DEF Earned, PassedSince
  <1>3. PassedIn(admitted', who, moment) \in Nat /\ PassedIn(admitted', who, moment) >= PassedIn(admitted, who, moment)
    BY AdmissionCounts
  <1>4. PassedIn(admitted', who, moment) >= MaxRequests
    BY <1>2, <1>3, LimitsAssumption
  <1> QED  BY <1>1, <1>4

\* allow() keeps only windows that are still running, as they are.
LEMMA LiveFit ==
    ASSUME LimiterInv, NEW now \in Nat, NEW live, live = LiveSources(now)
    PROVE  /\ live = [x \in DOMAIN live |-> live[x]] /\ DOMAIN live \in SUBSET DOMAIN sources
           /\ \A x \in DOMAIN live : live[x] = sources[x] /\ sources[x].start >= now - Window + 1
  <1>1. DOMAIN live = {x \in DOMAIN sources : ~Expired(sources[x], now)} /\ \A x \in DOMAIN live : live[x] = sources[x]
    BY DEF LiveSources, Restrict
  <1>2. live = [x \in DOMAIN live |-> live[x]]
    BY DEF LiveSources, Restrict
  <1>3. ASSUME NEW x \in DOMAIN live  PROVE sources[x].start >= now - Window + 1
    <2>1. sources[x] \in [start : Nat, count : Nat] /\ ~Expired(sources[x], now)
      BY <1>1 DEF LimiterInv
    <2>2. sources[x].start \in Nat /\ ~(now - sources[x].start >= Window)
      BY <2>1 DEF Expired
    <2> QED  BY <2>2, LimitsAssumption
  <1> QED  BY <1>1, <1>2, <1>3

\* The entry of a source is in order: it started, and counted no request that did not pass.
EntryFits(s, entry, passed) ==
    /\ entry \in [start : Nat, count : Nat] /\ entry.start <= time
    /\ \A r \in mix.requests : Source(r.origin) = s => entry.count <= PassedIn(passed, r.origin.sender, entry.start)

LEMMA SenderKnown ==
    ASSUME WorldTyped, NEW r \in mix.requests
    PROVE  r.origin.sender \in Senders
  BY DEF WorldTyped, Senders

\* Entries that are kept stay in order when a request is admitted.
LEMMA EntryStays ==
    ASSUME LimiterInv, WorldTyped, NEW w \in Senders, admitted' = [admitted EXCEPT ![w][time] = @ + 1],
           UNCHANGED <<mix, time>>, NEW s, NEW entry, EntryFits(s, entry, admitted)
    PROVE  EntryFits(s, entry, admitted')
  <1>1. entry.start \in Int /\ entry.count \in Nat
    BY DEF EntryFits
  <1>2. ASSUME NEW r \in mix.requests, Source(r.origin) = s
        PROVE  entry.count <= PassedIn(admitted', r.origin.sender, entry.start)
    <2>1. PICK who \in Senders : who = r.origin.sender
      BY SenderKnown
    <2>2. entry.count <= PassedIn(admitted, who, entry.start) /\ PassedIn(admitted, who, entry.start) \in Nat
      BY <1>2, <2>1, PassedFit DEF EntryFits
    <2>3. PassedIn(admitted', who, entry.start) \in Nat /\ PassedIn(admitted', who, entry.start) >= PassedIn(admitted, who, entry.start)
      BY <1>1, AdmissionCounts
    <2>4. entry.count <= PassedIn(admitted', who, entry.start)
      BY <1>1, <2>2, <2>3
    <2> QED  BY <2>1, <2>4
  <1> QED  BY <1>2 DEF EntryFits

\* The limiter lets a request pass: its entry may be new, or one more than it was.
LEMMA EntryAdmits ==
    ASSUME LimiterInv, WorldTyped, NEW q \in mix.requests,
           admitted' = [admitted EXCEPT ![q.origin.sender][time] = @ + 1], UNCHANGED <<mix, time>>,
           NEW s, s = Source(q.origin), NEW entry, entry \in [start : Nat, count : Nat], entry.start <= time,
           entry.count <= PassedIn(admitted, q.origin.sender, entry.start) + 1
    PROVE  EntryFits(s, entry, admitted')
  <1>1. entry.start \in Int /\ entry.count \in Nat
    OBVIOUS
  <1>2. PICK w \in Senders : w = q.origin.sender
    BY SenderKnown
  <1>3. admitted' = [admitted EXCEPT ![w][time] = @ + 1]
    BY <1>2
  <1>4. PassedIn(admitted', w, entry.start) \in Nat /\ PassedIn(admitted', w, entry.start) = PassedIn(admitted, w, entry.start) + 1
    BY <1>1, <1>3, AdmissionCounts
  <1>5. ASSUME NEW r \in mix.requests, Source(r.origin) = s
        PROVE  entry.count <= PassedIn(admitted', r.origin.sender, entry.start)
    <2>1. r.origin.sender = w
      BY <1>2, <1>5, SameSource DEF WorldTyped
    <2>2. entry.count <= PassedIn(admitted', w, entry.start)
      BY <1>1, <1>2, <1>4
    <2> QED  BY <2>1, <2>2
  <1> QED  BY <1>5 DEF EntryFits

LEMMA LimiterFits ==
    ASSUME LimiterInv
    PROVE  \A s \in DOMAIN sources : EntryFits(s, sources[s], admitted)
  BY DEF LimiterInv, EntryFits, PassedSince

LEMMA TableFits ==
    ASSUME UNCHANGED <<mix, time>>, admitted' \in [Senders -> [0..MaxTime -> Nat]], sources' = [x \in DOMAIN sources' |-> sources'[x]],
           \A x \in DOMAIN sources' : EntryFits(x, sources'[x], admitted')
    PROVE  LimiterInv'
  BY DEF LimiterInv, EntryFits, PassedSince, PassedIn, Units, Since

\* What the limiter leaves when it lets a request pass.
LEMMA AdmittedTable ==
    ASSUME LimiterInv, WorldTyped, NEW q \in mix.requests, NEW now \in Nat, now <= time,
           Allow(Source(q.origin), now).ok, sources' = Allow(Source(q.origin), now).table,
           admitted' = [admitted EXCEPT ![q.origin.sender][time] = @ + 1], UNCHANGED <<mix, time>>
    PROVE  LimiterInv'
  <1>1. PICK live, s : live = LiveSources(now) /\ s = Source(q.origin)
    OBVIOUS
  <1>2. /\ live = [x \in DOMAIN live |-> live[x]] /\ DOMAIN live \in SUBSET DOMAIN sources
        /\ \A x \in DOMAIN live : live[x] = sources[x]
    BY <1>1, LiveFit
  <1>3. PICK w \in Senders : w = q.origin.sender
    BY SenderKnown
  <1>4. admitted' = [admitted EXCEPT ![w][time] = @ + 1]
    BY <1>3
  <1>5. admitted' \in [Senders -> [0..MaxTime -> Nat]]
    BY <1>4, Admission
  <1>6. ASSUME NEW x \in DOMAIN live  PROVE EntryFits(x, live[x], admitted) /\ EntryFits(x, live[x], admitted')
    <2>1. PICK entry : entry = live[x]
      OBVIOUS
    <2>2. EntryFits(x, entry, admitted)
      BY <1>2, <2>1, LimiterFits
    <2>3. EntryFits(x, entry, admitted')
      BY <1>4, <2>2, EntryStays
    <2> QED  BY <2>1, <2>2, <2>3
  <1>7. CASE s \notin DOMAIN live /\ Cardinality(DOMAIN live) >= MaxSources
    <2>1. sources' = live
      BY <1>1, <1>7 DEF Allow
    <2> QED  BY <1>2, <1>5, <1>6, <2>1, TableFits
  <1>8. CASE s \notin DOMAIN live /\ ~(Cardinality(DOMAIN live) >= MaxSources)
    <2>1. PICK entry : entry = [start |-> now, count |-> 1]
      OBVIOUS
    <2>2. sources' = With(live, s, entry)
      BY <1>1, <1>8, <2>1 DEF Allow
    <2>3. PassedIn(admitted, w, now) \in Nat
      BY PassedFit
    <2>4. EntryFits(s, entry, admitted')
      <3>1. entry \in [start : Nat, count : Nat] /\ entry.start = now /\ entry.count = 1
        BY <2>1
      <3>2. entry.start <= time /\ entry.count <= PassedIn(admitted, q.origin.sender, entry.start) + 1
        BY <1>3, <2>3, <3>1
      <3> QED  BY <1>1, <3>1, <3>2, EntryAdmits
    <2>5. sources' = [x \in DOMAIN live \cup {s} |-> IF x = s THEN entry ELSE live[x]]
      BY <2>2 DEF With
    <2>6. ASSUME NEW x \in DOMAIN sources'  PROVE EntryFits(x, sources'[x], admitted')
      BY <1>6, <2>4, <2>5
    <2>7. sources' = [x \in DOMAIN sources' |-> sources'[x]]
      BY <2>5
    <2> QED  BY <1>5, <2>6, <2>7, TableFits
  <1>9. CASE s \in DOMAIN live
    <2>1. sources' = [live EXCEPT ![s].count = @ + 1]
      <3>1. live[s].count < MaxRequests
        BY <1>1, <1>9 DEF Allow
      <3> QED  BY <1>1, <1>9, <3>1 DEF Allow
    <2>2. EntryFits(s, live[s], admitted)
      BY <1>6, <1>9
    <2>3. PICK e \in [start : Nat, count : Nat] : e = live[s]
      BY <2>2 DEF EntryFits
    <2>4. PICK entry : entry = [e EXCEPT !.count = @ + 1]
      OBVIOUS
    <2>5. entry \in [start : Nat, count : Nat] /\ entry.start = e.start /\ entry.count = e.count + 1
      BY <2>3, <2>4
    <2>6. e.start <= time /\ e.count <= PassedIn(admitted, q.origin.sender, e.start)
      BY <1>1, <2>2, <2>3 DEF EntryFits
    <2>7. PassedIn(admitted, w, e.start) \in Nat
      BY PassedFit
    <2>8. entry.start <= time /\ entry.count <= PassedIn(admitted, q.origin.sender, entry.start) + 1
      BY <1>3, <2>3, <2>5, <2>6, <2>7
    <2>9. EntryFits(s, entry, admitted')
      BY <1>1, <2>5, <2>8, EntryAdmits
    <2>10. sources' = [live EXCEPT ![s] = entry]
      BY <2>1, <2>3, <2>4, Zenon
    <2>11. sources' = [x \in DOMAIN live |-> IF x = s THEN entry ELSE live[x]]
      BY <1>2, <2>10
    <2>12. ASSUME NEW x \in DOMAIN sources'  PROVE EntryFits(x, sources'[x], admitted')
      BY <1>6, <2>9, <2>11
    <2>13. sources' = [x \in DOMAIN sources' |-> sources'[x]]
      BY <2>11
    <2> QED  BY <1>5, <2>12, <2>13, TableFits
  <1> QED  BY <1>7, <1>8, <1>9

LEMMA RefusedTable ==
    ASSUME LimiterInv, WorldTyped, NEW q \in mix.requests, NEW now \in Nat,
           ~Allow(Source(q.origin), now).ok, sources' = Allow(Source(q.origin), now).table,
           UNCHANGED <<admitted, mix, time>>
    PROVE  /\ LimiterInv'
           /\ PassedIn(admitted, q.origin.sender, now - Window + 1) >= MaxRequests
  <1>1. PICK live, s : live = LiveSources(now) /\ s = Source(q.origin)
    OBVIOUS
  <1>2. /\ live = [x \in DOMAIN live |-> live[x]] /\ DOMAIN live \in SUBSET DOMAIN sources
        /\ \A x \in DOMAIN live : live[x] = sources[x] /\ sources[x].start >= now - Window + 1
    BY <1>1, LiveFit
  <1>3. s \in DOMAIN live /\ ~(live[s].count < MaxRequests) /\ sources' = live
    <2>1. s \in DOMAIN live
      BY <1>1 DEF Allow
    <2>2. ~(live[s].count < MaxRequests)
      BY <1>1, <2>1 DEF Allow
    <2> QED  BY <1>1, <2>1, <2>2 DEF Allow
  <1>4. ASSUME NEW x \in DOMAIN live  PROVE EntryFits(x, live[x], admitted)
    BY <1>2, LimiterFits
  <1>5. LimiterInv'
    <2>1. admitted' \in [Senders -> [0..MaxTime -> Nat]]
      BY DEF LimiterInv
    <2>2. ASSUME NEW x \in DOMAIN sources'  PROVE EntryFits(x, sources'[x], admitted')
      BY <1>3, <1>4
    <2> QED  BY <1>2, <1>3, <2>1, <2>2, TableFits
  <1>6. PassedIn(admitted, q.origin.sender, now - Window + 1) >= MaxRequests
    <2>1. PICK who \in Senders, moment \in Int : who = q.origin.sender /\ moment = now - Window + 1
      BY SenderKnown, LimitsAssumption
    <2>2. PICK e \in [start : Nat, count : Nat] : e = live[s]
      BY <1>3, <1>4 DEF EntryFits
    <2>3. e.count >= MaxRequests /\ e.start >= moment
      BY <1>2, <1>3, <2>1, <2>2, LimitsAssumption
    <2>4. e.count <= PassedIn(admitted, who, e.start)
      BY <1>1, <1>3, <1>4, <2>1, <2>2 DEF EntryFits
    <2>5. Since(e.start) \in SUBSET Since(moment)
      BY <2>1, <2>2, <2>3, GatewayAssumption DEF Since
    <2>6. IsFiniteSet(Since(moment)) /\ \A n \in Since(moment) : admitted[who][n] \in Nat
      BY SinceFinite, PassedFit
    <2>7. PassedIn(admitted, who, e.start) <= PassedIn(admitted, who, moment)
      BY <2>5, <2>6, FewerUnits DEF PassedIn
    <2>8. PassedIn(admitted, who, e.start) \in Nat /\ PassedIn(admitted, who, moment) \in Nat
      BY PassedFit
    <2>9. PassedIn(admitted, who, moment) >= MaxRequests
      BY <2>2, <2>3, <2>4, <2>7, <2>8, LimitsAssumption
    <2> QED  BY <2>1, <2>9
  <1> QED  BY <1>5, <1>6

\* Every thread's account after a step of the limiter.
LEMMA SoundAdmits ==
    ASSUME LimiterInv, WorldTyped, NEW w \in Senders, admitted' = [admitted EXCEPT ![w][time] = @ + 1],
           UNCHANGED <<mix, time>>, NEW u \in Threads, Sound(thread'[u])
    PROVE  Sound(thread[u])'
  <1>1. PICK r : r = thread'[u]
    OBVIOUS
  <1>2. r.status = 429 => r.pc = "done" /\ PassedIn(admitted', r.request.origin.sender, r.stamp - Window + 1) >= MaxRequests
    <2>1. ASSUME r.status = 429
          PROVE  r.pc = "done" /\ PassedIn(admitted', r.request.origin.sender, r.stamp - Window + 1) >= MaxRequests
      <3>1. r.stamp \in Nat /\ r.pc = "done" /\ r.request \in mix.requests /\ Earned(r)
        BY <1>1, <2>1 DEF Sound
      <3>2. r.request.origin.sender \in Senders
        BY <3>1, SenderKnown
      <3> QED  BY <3>1, <3>2, EarnedStays
    <2> QED  BY <2>1
  <1> QED  BY <1>1, <1>2 DEF Sound, SurfaceOf, EventsFit, Timely, Earned, PassedSince, PassedIn, Units, Since

LEMMA GateLimits ==
    ASSUME GatewayInv, LimitInv, NEW t \in Threads, Gate(t)
    PROVE  LimitInv'
  <1>1. PICK q, now : q = thread[t].request /\ now = thread[t].stamp
    OBVIOUS
  <1>2. /\ thread[t].pc = "gate" /\ UNCHANGED <<failing, tally, mix, time, keyState, terminal>>
    BY DEF Gate, storeVars, worldVars
  <1>3. Sound(thread[t]) /\ LimiterInv /\ WorldTyped /\ ThrottleInv /\ AnswersStored
    BY DEF LimitInv
  <1>4. q \in mix.requests /\ now \in Nat /\ now <= time /\ thread[t].status # 429
    BY <1>1, <1>2, <1>3 DEF Sound
  <1>5. WorldTyped' /\ AnswersStored'
    BY <1>2, <1>3 DEF WorldTyped, AnswersStored
  <1>6. CASE ~mix.limited \/ Exempt(q)
    <2>1. thread' = Moved(t, "route") /\ UNCHANGED <<sources, admitted>>
      BY <1>1, <1>6 DEF Gate
    <2> QED  BY <1>2, <2>1, MovedQuietly
  <1>7. CASE ~(~mix.limited \/ Exempt(q)) /\ Allow(Source(q.origin), now).ok
    <2>1. /\ thread' = Moved(t, "route") /\ sources' = Allow(Source(q.origin), now).table
          /\ admitted' = [admitted EXCEPT ![q.origin.sender][time] = @ + 1]
      BY <1>1, <1>7 DEF Gate
    <2>2. LimiterInv'
      BY <1>2, <1>3, <1>4, <1>7, <2>1, AdmittedTable
    <2>3. OnlyMoves(t) /\ SameRequest(t) /\ thread'[t].pc = "route"
      BY <1>2, <2>1, MovedFields
    <2>4. thread'[t].stamp = now /\ thread'[t].status = thread[t].status
      BY <1>1, <2>1, MovedLimits
    <2>5. ThrottleInv'
      BY <1>2, <1>3, <2>3, ThrottleStays
    <2>6. Sound(thread'[t])
      BY <1>1, <1>4, <2>3, <2>4 DEF Sound, SameRequest
    <2>7. PICK w \in Senders : w = q.origin.sender
      BY <1>3, <1>4, SenderKnown
    <2>8. ASSUME NEW u \in Threads  PROVE Sound(thread[u])'
      <3>1. Sound(thread'[u])
        BY <2>3, <2>6 DEF OnlyMoves, LimitInv
      <3>2. admitted' = [admitted EXCEPT ![w][time] = @ + 1]
        BY <2>1, <2>7
      <3> QED  BY <1>2, <1>3, <3>1, <3>2, SoundAdmits
    <2> QED  BY <1>5, <2>2, <2>5, <2>8 DEF LimitInv
  <1>8. CASE ~(~mix.limited \/ Exempt(q)) /\ ~Allow(Source(q.origin), now).ok
    <2>1. /\ thread' = Answered(t, 429, FALSE) /\ sources' = Allow(Source(q.origin), now).table
          /\ UNCHANGED admitted
      BY <1>1, <1>8 DEF Gate
    <2>2. LimiterInv' /\ PassedIn(admitted, q.origin.sender, now - Window + 1) >= MaxRequests
      BY <1>2, <1>3, <1>4, <1>8, <2>1, RefusedTable
    <2>3. PICK acted : thread' = Answered(t, 429, acted)
      BY <2>1, Zenon
    <2>4. OnlyMoves(t) /\ SameRequest(t) /\ thread'[t].pc = "done"
      BY <1>2, <2>3, AnsweredFields
    <2>5. thread'[t].stamp = now /\ thread'[t].status = 429
      BY <1>1, <2>3, AnsweredLimits
    <2>6. ThrottleInv'
      BY <1>2, <1>3, <2>4, ThrottleStays
    <2>7. thread'[t].request = q
      BY <1>1, <2>4 DEF SameRequest
    <2>8. Earned(thread'[t])
      BY <2>2, <2>5, <2>7 DEF Earned, PassedSince
    <2>9. Sound(thread'[t])
      BY <1>4, <2>4, <2>5, <2>7, <2>8 DEF Sound
    <2>10. ASSUME NEW u \in Threads  PROVE Sound(thread[u])'
      <3>1. Sound(thread'[u])
        BY <2>4, <2>9 DEF OnlyMoves, LimitInv
      <3> QED  BY <1>2, <2>1, <3>1, SoundStays
    <2> QED  BY <1>5, <2>2, <2>6, <2>10 DEF LimitInv
  <1> QED  BY <1>6, <1>7, <1>8

LEMMA FailOpenLimits ==
    ASSUME GatewayInv, LimitInv, NEW t \in Threads, FailOpen(t)
    PROVE  LimitInv'
  <1>1. /\ thread[t].pc = "gate" /\ thread' = Moved(t, "route")
        /\ UNCHANGED <<sources, failing, tally, admitted, mix, time, keyState, terminal>>
    BY DEF FailOpen, limitVars, storeVars, worldVars
  <1> QED  BY <1>1, MovedQuietly

-----------------------------------------------------------------------------
(***************************************************************************)
(* The limiter's invariant holds.                                          *)
(***************************************************************************)
\* Time passes, or keys change, or nothing happens.
LEMMA IdleLimits ==
    ASSUME LimitInv, time' \in {time, time + 1}, time' \in 0..MaxTime,
           UNCHANGED <<sources, failing, tally, mix, thread, admitted, terminal>>
    PROVE  LimitInv'
  <1>1. WorldTyped' /\ AnswersStored'
    BY DEF LimitInv, WorldTyped, AnswersStored
  <1>2. time \in Nat /\ time' \in Nat /\ time <= time'
    BY GatewayAssumption DEF LimitInv, WorldTyped
  <1>3. LimiterInv'
    <2>1. LimiterInv
      BY DEF LimitInv
    <2>2. ASSUME NEW s \in DOMAIN sources  PROVE sources[s].start <= time'
      <3>1. sources[s].start \in Nat /\ sources[s].start <= time
        BY <2>1 DEF LimiterInv
      <3> QED  BY <1>2, <3>1
    <2> QED  BY <2>1, <2>2 DEF LimiterInv, PassedSince, PassedIn, Units, Since
  <1>4. ThrottleInv'
    BY DEF LimitInv, ThrottleInv, FailuresBalance, Accounted, Owed, Debts, Owes, SurfaceOf, Units
  <1>5. ASSUME NEW t \in Threads  PROVE Sound(thread[t])'
    <2>1. Sound(thread[t]) /\ thread'[t] = thread[t]
      BY DEF LimitInv
    <2>2. thread[t].stamp <= time'
      BY <1>2, <2>1 DEF Sound
    <2> QED  BY <2>1, <2>2 DEF Sound, SurfaceOf, EventsFit, Timely, Earned, PassedSince, PassedIn, Units, Since
  <1> QED  BY <1>1, <1>3, <1>4, <1>5 DEF LimitInv

LEMMA LimitsStart ==
    GatewayInit => LimitInv
  <1> SUFFICES ASSUME GatewayInit  PROVE LimitInv
    OBVIOUS
  <1>1. thread = [t \in Threads |-> Waiting]
    BY DEF GatewayInit
  <1>2. Waiting.status = 0 /\ Waiting.pc = "idle" /\ Waiting.stamp = 0
    BY DEF Waiting
  <1>3. time = 0 /\ WorldTyped
    BY GatewayAssumption DEF GatewayInit, WorldTyped
  <1>4. \A t \in Threads : Sound(thread[t])
    BY <1>1, <1>2, <1>3 DEF Sound
  <1>5. DOMAIN sources = {} /\ sources = [s \in DOMAIN sources |-> sources[s]]
    BY DEF GatewayInit, LimitsInit, Empty
  <1>6. admitted \in [Senders -> [0..MaxTime -> Nat]]
    BY DEF GatewayInit
  <1>7. LimiterInv
    BY <1>5, <1>6 DEF LimiterInv
  <1>8. AnswersStored
    BY DEF GatewayInit, AnswersStored, Empty
  <1>9. DOMAIN failing = {} /\ failing = [s \in DOMAIN failing |-> failing[s]]
    BY DEF GatewayInit, LimitsInit, Empty
  <1>10. tally = [s \in Surfaces |-> NoFailures]
    BY DEF GatewayInit, LimitsInit, NoFailures
  <1>11. NoFailures \in [failures : Nat, timely : Nat, summaries : Nat, counted : Nat, lost : Nat]
    BY DEF NoFailures
  <1>12. \A s \in Surfaces, t \in Threads : Owes(thread[t], s) = 0
    BY <1>1, <1>2, OwesNothing
  <1>13. \A s \in Surfaces : FailuresBalance(s)
    BY <1>9, <1>10, <1>12 DEF FailuresBalance
  <1>14. ThrottleInv
    BY <1>9, <1>10, <1>11, <1>13 DEF ThrottleInv
  <1> QED  BY <1>3, <1>4, <1>7, <1>8, <1>14 DEF LimitInv

LEMMA LimitNextHolds ==
    ASSUME GatewayInv, LimitInv, [GatewayNext]_gatewayVars
    PROVE  LimitInv'
  <1>1. ASSUME NEW t \in Threads, Serve(t)  PROVE LimitInv'
    BY <1>1, ArriveLimits, GateLimits, FailOpenLimits, RefusedLimits, EnterLimits, ResolveScopeLimits, AuthenticateLimits,
       CountFailureLimits, WriteFailureLimits, WorkLimits, ReplayLimits, ExecuteLimits DEF Serve
  <1>2. time \in 0..MaxTime
    BY DEF LimitInv, WorldTyped
  <1>3. ASSUME NEW k, RotateKey(k) \/ RevokeKey(k)  PROVE LimitInv'
    BY <1>2, <1>3, IdleLimits DEF RotateKey, RevokeKey, limitVars, storeVars
  <1>4. CASE Tick
    <2>1. time' = time + 1 /\ time' \in 0..MaxTime
      BY <1>2, <1>4, GatewayAssumption DEF Tick
    <2> QED  BY <1>4, <2>1, IdleLimits DEF Tick, limitVars, storeVars
  <1>5. CASE UNCHANGED gatewayVars
    BY <1>2, <1>5, IdleLimits DEF gatewayVars
  <1> QED  BY <1>1, <1>3, <1>4, <1>5 DEF GatewayNext

LEMMA LimitsHold == GatewaySpec => [](GatewayInv /\ LimitInv)
  BY GatewayStarts, LimitsStart, GatewayNextHolds, LimitNextHolds, PTL DEF GatewaySpec

(***************************************************************************)
(* Who is refused has used up the limit: for any limit and window, any     *)
(* senders and forwarding headers, any number of threads that bring their  *)
(* clock values late, and although the table of sources has a bound, as    *)
(* many requests of the same sender as the limit allows were let pass      *)
(* since less than a window before the refused one arrived.                *)
(***************************************************************************)
THEOREM RefusedHaveSpent == GatewaySpec => []RefusalsAreEarned
  <1>1. LimitInv => RefusalsAreEarned
    <2> SUFFICES ASSUME LimitInv, NEW t \in Threads, thread[t].status = 429
                 PROVE  Cardinality(Units(admitted[thread[t].request.origin.sender],
                                          {n \in 0..MaxTime : n > thread[t].stamp - Window})) >= MaxRequests
      BY DEF RefusalsAreEarned
    <2>1. thread[t].stamp \in Nat /\ Earned(thread[t])
      BY DEF LimitInv, Sound
    <2>2. Since(thread[t].stamp - Window + 1) = {n \in 0..MaxTime : n > thread[t].stamp - Window}
      BY <2>1, LimitsAssumption, GatewayAssumption DEF Since
    <2> QED  BY <2>1, <2>2 DEF Earned, PassedSince, PassedIn
  <1> QED  BY <1>1, LimitsHold, PTL

(***************************************************************************)
(* Once no thread has an event of a surface left to write, the audit log   *)
(* accounts for every authentication failure of it but those that swallowed *)
(* writes carried, however many threads count failures while the events of *)
(* a closed window are being written.                                      *)
(***************************************************************************)
THEOREM FailuresAddUp == GatewaySpec => []FailuresAreCounted
  <1>1. LimitInv => FailuresAreCounted
    <2> SUFFICES ASSUME LimitInv, NEW s \in DOMAIN failing,
                        \A t \in Threads : thread[t].pc = "emit" => Routes[thread[t].request.route].surface # s
                 PROVE  Accounted(s, failing[s].count) + tally[s].lost = tally[s].failures
      BY DEF FailuresAreCounted
    <2>1. s \in Surfaces /\ failing[s].count \in Nat /\ FailuresBalance(s)
      BY DEF LimitInv, ThrottleInv
    <2>2. /\ tally[s].counted \in Nat /\ tally[s].timely \in Nat /\ tally[s].summaries \in Nat
          /\ tally[s].lost \in Nat
      BY <2>1 DEF LimitInv, ThrottleInv
    <2>3. \A t \in Threads : Debts(s)[t] = 0
      BY DEF Debts, Owes, SurfaceOf
    <2>4. Owed(s) = 0
      BY <2>3, NoUnits DEF Owed
    <2> QED  BY <2>1, <2>2, <2>4 DEF FailuresBalance, Accounted
  <1> QED  BY <1>1, LimitsHold, PTL

-----------------------------------------------------------------------------
(***************************************************************************)
(* The gateway: mutations with an Idempotency-Key.                         *)
(*                                                                         *)
(* Every stored effect lies in the time of the answer its scope has in the *)
(* store, or of an earlier one; and a handler that goes on without its key *)
(* found no caller, which for a key that was active when the request       *)
(* arrived means that it has been revoked for good.                        *)
(***************************************************************************)
ScopeOf(intent) ==
    [workspace |-> intent[1], principal |-> intent[2], operation |-> intent[3], key |-> intent[4]]

IsSequence(list) == \E S : list \in Seq(S)

KeyedEffects(list, answers) ==
    /\ IsSequence(list)
    /\ \A scope \in DOMAIN answers : answers[scope].until \in Nat
    /\ \A i \in DOMAIN list :
         /\ list[i].how # "beside"
         /\ list[i].how = "stored" =>
              /\ ScopeOf(list[i].intent) \in DOMAIN answers /\ list[i].until \in Nat
              /\ list[i].until <= answers[ScopeOf(list[i].intent)].until
    /\ \A j \in DOMAIN list : \A i \in 1..(j - 1) :
         list[i].intent = list[j].intent /\ list[i].how = "stored" /\ list[j].how = "stored"
             => list[i].until <= list[j].at

\* The credential that scopes a request's Idempotency-Key.
Presented(r) ==
    HeadersFor(Routes[r.request.route], r.request.headers)[Routes[r.request.route].keyed]

WereValid(r, states) == \A k \in r.valid : k \in DOMAIN Keys /\ states[k] \in {"active", "revoked"}

ThreadKeyed(r, states) ==
    /\ WereValid(r, states)
    /\ r.pc = "auth" /\ IsKeyed(r.request) /\ Trusted(r) => states[Presented(r)] = "revoked"
    /\ r.pc = "work" /\ IsKeyed(r.request) => ~Trusted(r)

KeyedInv ==
    /\ KeyedEffects(effects, terminal)
    /\ \A t \in Threads : ThreadKeyed(thread[t], keyState)

LEMMA Appended ==
    ASSUME NEW list, NEW S, list \in Seq(S), NEW e
    PROVE  /\ Append(list, e) \in Seq(S \cup {e})
           /\ Len(list) \in Nat /\ DOMAIN list = 1..Len(list)
           /\ DOMAIN Append(list, e) = 1..(Len(list) + 1) /\ Append(list, e)[Len(list) + 1] = e
           /\ \A i \in DOMAIN list : Append(list, e)[i] = list[i]
  <1>1. list \in Seq(S \cup {e})
    BY SeqDef
  <1> QED  BY <1>1

\* An effect the store knows nothing of, of a request nobody was found for.
LEMMA UnscopedEffect ==
    ASSUME NEW list, NEW answers, KeyedEffects(list, answers), NEW e, e.how = "unscoped"
    PROVE  KeyedEffects(Append(list, e), answers)
  <1>1. PICK S : list \in Seq(S)
    BY DEF KeyedEffects, IsSequence
  <1>2. PICK new : new = Append(list, e)
    OBVIOUS
  <1>3. /\ new \in Seq(S \cup {e}) /\ Len(list) \in Nat /\ DOMAIN list = 1..Len(list)
        /\ DOMAIN new = 1..(Len(list) + 1) /\ new[Len(list) + 1] = e
        /\ \A i \in DOMAIN list : new[i] = list[i]
    BY <1>1, <1>2, Appended
  <1>4. /\ \A i \in DOMAIN new : i \in DOMAIN list \/ new[i] = e
        /\ \A j \in DOMAIN new : \A i \in 1..(j - 1) : i \in DOMAIN list
    BY <1>3
  <1>5. IsSequence(new)
    BY <1>3, Zenon DEF IsSequence
  <1>6. KeyedEffects(new, answers)
    BY <1>3, <1>4, <1>5 DEF KeyedEffects
  <1> QED  BY <1>2, <1>6

\* Its answer is stored with the effect, in the place of one that has expired.
LEMMA StoredEffect ==
    ASSUME NEW list, NEW answers, KeyedEffects(list, answers), NEW now \in Nat, NEW scope,
           scope \in DOMAIN answers => answers[scope].until <= now,
           NEW answer, answer.until \in Nat, now <= answer.until, NEW new, NEW e,
           new = list \/ new = Append(list, e),
           e.how = "stored", ScopeOf(e.intent) = scope, e.at = now, e.until = answer.until
    PROVE  KeyedEffects(new, With(answers, scope, answer))
  <1>1. PICK S : list \in Seq(S)
    BY DEF KeyedEffects, IsSequence
  <1>2. PICK stored : stored = With(answers, scope, answer)
    OBVIOUS
  <1>3. /\ DOMAIN stored = DOMAIN answers \cup {scope} /\ stored[scope] = answer
        /\ \A k \in DOMAIN answers : k # scope => stored[k] = answers[k]
    BY <1>2 DEF With
  <1>4. \A k \in DOMAIN answers : answers[k].until \in Nat
    BY DEF KeyedEffects
  <1>5. /\ \A k \in DOMAIN stored : stored[k].until \in Nat
        /\ \A k \in DOMAIN answers : k \in DOMAIN stored /\ answers[k].until <= stored[k].until
    BY <1>3, <1>4
  <1>6. \A i \in DOMAIN list : list[i].how # "beside"
    BY DEF KeyedEffects
  <1>7. ASSUME NEW i \in DOMAIN list, list[i].how = "stored"
        PROVE  /\ ScopeOf(list[i].intent) \in DOMAIN stored /\ list[i].until \in Nat
               /\ list[i].until <= stored[ScopeOf(list[i].intent)].until
               /\ ScopeOf(list[i].intent) = scope => list[i].until <= now
    <2>1. PICK k : k = ScopeOf(list[i].intent)
      OBVIOUS
    <2>2. k \in DOMAIN answers /\ list[i].until \in Nat /\ list[i].until <= answers[k].until
      BY <1>7, <2>1 DEF KeyedEffects
    <2>3. k \in DOMAIN stored /\ stored[k].until \in Nat /\ answers[k].until \in Nat /\ answers[k].until <= stored[k].until
      BY <1>4, <1>5, <2>2
    <2>4. k = scope => list[i].until <= now
      BY <1>4, <2>2
    <2> QED  BY <2>1, <2>2, <2>3, <2>4
  <1>8. \A j \in DOMAIN list : \A i \in 1..(j - 1) :
          list[i].intent = list[j].intent /\ list[i].how = "stored" /\ list[j].how = "stored"
              => list[i].until <= list[j].at
    BY DEF KeyedEffects
  <1>9. CASE new = list
    <2>1. KeyedEffects(list, stored)
      BY <1>5, <1>6, <1>7, <1>8 DEF KeyedEffects
    <2> QED  BY <1>2, <1>9, <2>1
  <1>10. CASE new = Append(list, e)
    <2>1. /\ new \in Seq(S \cup {e}) /\ Len(list) \in Nat /\ DOMAIN list = 1..Len(list)
          /\ DOMAIN new = 1..(Len(list) + 1) /\ new[Len(list) + 1] = e
          /\ \A i \in DOMAIN list : new[i] = list[i]
      BY <1>1, <1>10, Appended
    <2>2. \A i \in DOMAIN new : i \in DOMAIN list \/ i = Len(list) + 1
      BY <2>1
    <2>3. ASSUME NEW i \in DOMAIN new
          PROVE  /\ new[i].how # "beside"
                 /\ new[i].how = "stored" =>
                      /\ ScopeOf(new[i].intent) \in DOMAIN stored /\ new[i].until \in Nat
                      /\ new[i].until <= stored[ScopeOf(new[i].intent)].until
      <3>1. CASE i \in DOMAIN list
        BY <1>6, <1>7, <2>1, <3>1
      <3>2. CASE i = Len(list) + 1
        BY <1>3, <2>1, <3>2
      <3> QED  BY <2>2, <3>1, <3>2
    <2>4. ASSUME NEW j \in DOMAIN new, NEW i \in 1..(j - 1), new[i].intent = new[j].intent,
                 new[i].how = "stored", new[j].how = "stored"
          PROVE  new[i].until <= new[j].at
      <3>1. i \in DOMAIN list /\ new[i] = list[i]
        BY <2>1, <2>4
      <3>2. CASE j \in DOMAIN list
        BY <1>8, <2>1, <2>4, <3>1, <3>2
      <3>3. CASE j = Len(list) + 1
        <4>1. new[j] = e /\ ScopeOf(list[i].intent) = scope
          BY <2>1, <2>4, <3>1, <3>3
        <4> QED  BY <1>7, <2>4, <3>1, <4>1
      <3> QED  BY <2>2, <3>2, <3>3
    <2>5. IsSequence(new)
      BY <2>1, Zenon DEF IsSequence
    <2>6. KeyedEffects(new, stored)
      BY <1>5, <2>3, <2>4, <2>5 DEF KeyedEffects
    <2> QED  BY <1>2, <2>6
  <1> QED  BY <1>9, <1>10

\* Nobody found for a key that was active on arrival: it has been revoked since.
LEMMA ScopeMissed ==
    ASSUME NEW r, NEW jwks, WereValid(r, keyState), Trusted(r),
           ScopeCaller(Routes[r.request.route], r.request.headers, jwks) = {}
    PROVE  keyState[Presented(r)] = "revoked"
  <1>1. PICK route, headers, role, c :
          /\ route = Routes[r.request.route] /\ headers = HeadersFor(route, r.request.headers)
          /\ role = route.keyed /\ c = headers[role]
    OBVIOUS
  <1>2. role \in DOMAIN headers /\ c \in r.valid /\ Keys[c].role = role
    BY <1>1 DEF Trusted
  <1>3. Resolve(role, c, jwks) = {}
    BY <1>1, <1>2 DEF ScopeCaller
  <1>4. LocalIdentity(role, c) = {}
    BY <1>3 DEF Resolve
  <1>5. c \in DOMAIN Keys /\ keyState[c] \in {"active", "revoked"}
    BY <1>2 DEF WereValid
  <1>6. keyState[c] # "active"
    <2> SUFFICES ASSUME keyState[c] = "active"  PROVE FALSE
      OBVIOUS
    <2>1. c \in {k \in DOMAIN Keys \cap {c} : keyState[k] = "active" /\ Keys[k].role = role}
      BY <1>2, <1>5
    <2>2. [workspace |-> Keys[c].workspace, name |-> Keys[c].owner] \in LocalIdentity(role, c)
      BY <2>1 DEF LocalIdentity
    <2> QED  BY <1>4, <2>2
  <1> QED  BY <1>1, <1>5, <1>6 DEF Presented

\* Nor is anybody found for it later.
LEMMA CallerMissed ==
    ASSUME NEW r, NEW jwks, WereValid(r, keyState), Trusted(r), IsKeyed(r.request),
           r.request.route \in DOMAIN Routes, keyState[Presented(r)] = "revoked"
    PROVE  Caller(Routes[r.request.route], r.request.headers, jwks) = {}
  <1>1. PICK route, headers, role, c :
          /\ route = Routes[r.request.route] /\ headers = HeadersFor(route, r.request.headers)
          /\ role = route.keyed /\ c = headers[role]
    OBVIOUS
  <1>2. role \in DOMAIN headers /\ c \in r.valid
    BY <1>1 DEF Trusted
  <1>3. c \in DOMAIN Keys /\ c \notin DOMAIN Tokens /\ keyState[c] = "revoked"
    BY <1>1, <1>2, GatewayAssumption DEF WereValid, Presented
  <1>4. Resolve(role, c, jwks) = {}
    BY <1>3 DEF Resolve, LocalIdentity, TokenIdentity
  <1>5. route.roles = {role} /\ route.target # "auditor"
    BY <1>1, ActingRoutes DEF IsKeyed
  <1>6. Tried(route, headers) = {role}
    BY <1>2, <1>5 DEF Tried
  <1>7. Caller(route, r.request.headers, jwks) = {}
    BY <1>1, <1>4, <1>6 DEF Caller
  <1> QED  BY <1>1, <1>7

LEMMA KeyedMoves ==
    ASSUME KeyedInv, NEW t \in Threads, OnlyMoves(t), ThreadKeyed(thread'[t], keyState),
           KeyedEffects(effects', terminal')
    PROVE  KeyedInv'
  <1>1. ASSUME NEW u \in Threads  PROVE ThreadKeyed(thread'[u], keyState')
    BY DEF KeyedInv, OnlyMoves
  <1> QED  BY <1>1 DEF KeyedInv

\* A step to where no caller is looked up and none has been found.
LEMMA AsideStep ==
    ASSUME KeyedInv, NEW t \in Threads, OnlyMoves(t), SameRequest(t), thread'[t].pc \notin {"auth", "work"},
           KeyedEffects(effects', terminal')
    PROVE  KeyedInv'
  <1>1. ThreadKeyed(thread[t], keyState)
    BY DEF KeyedInv
  <1>2. ThreadKeyed(thread'[t], keyState)
    BY <1>1 DEF ThreadKeyed, WereValid, SameRequest
  <1> QED  BY <1>2, KeyedMoves

LEMMA StoreStays ==
    ASSUME KeyedInv, UNCHANGED <<effects, terminal>>
    PROVE  KeyedEffects(effects', terminal')
  BY DEF KeyedInv

LEMMA ArriveKeyed ==
    ASSUME GatewayInv, KeyedInv, NEW t \in Threads, Arrive(t)
    PROVE  KeyedInv'
  <1>1. thread = [u \in Threads |-> thread[u]] /\ UNCHANGED <<keyState, effects, terminal>>
    BY DEF GatewayInv, Arrive
  <1>0. PICK barred, valid, stamp : /\ barred = {k \in DOMAIN Keys : keyState[k] = "revoked"}
                                    /\ valid = {k \in DOMAIN Keys : keyState[k] = "active"} /\ stamp = time
    OBVIOUS
  <1>2. PICK request : thread' = [thread EXCEPT ![t] =
          [Waiting EXCEPT !.pc = "gate", !.request = request, !.stamp = stamp, !.barred = barred, !.valid = valid]]
    BY <1>0, Zenon DEF Arrive
  <1>3. PICK r : r = [Waiting EXCEPT !.pc = "gate", !.request = request, !.stamp = stamp, !.barred = barred, !.valid = valid]
    OBVIOUS
  <1>4. DOMAIN Waiting = Fields
    BY DEF Waiting, Fields
  <1>5. thread' = [thread EXCEPT ![t] = r]
    BY <1>2, <1>3, Zenon
  <1>6. DOMAIN r = Fields /\ r.pc = "gate" /\ r.valid = valid
    BY <1>3, <1>4, Zenon DEF Fields
  <1>7. OnlyMoves(t) /\ thread'[t] = r
    BY <1>1, <1>5, <1>6 DEF OnlyMoves
  <1>8. ThreadKeyed(thread'[t], keyState)
    BY <1>0, <1>6, <1>7 DEF ThreadKeyed, WereValid
  <1> QED  BY <1>1, <1>7, <1>8, StoreStays, KeyedMoves

LEMMA EnterKeyed ==
    ASSUME GatewayInv, KeyedInv, NEW t \in Threads, EnterHandler(t)
    PROVE  KeyedInv'
  <1>1. PICK pc : /\ thread' = [thread EXCEPT ![t].stamp = time, ![t].pc = pc]
                  /\ pc = IF IsKeyed(thread[t].request) THEN "scope" ELSE "auth"
    BY DEF EnterHandler
  <1>2. UNCHANGED <<keyState, effects, terminal>>
    BY DEF EnterHandler, worldVars, storeVars
  <1>3. thread = [u \in Threads |-> thread[u]] /\ DOMAIN thread[t] = Fields
    BY DEF GatewayInv, Fits
  <1>4. OnlyMoves(t) /\ SameRequest(t) /\ thread'[t].pc = pc
    BY <1>1, <1>2, <1>3, Zenon DEF OnlyMoves, SameRequest, Fields
  <1>5. ThreadKeyed(thread[t], keyState)
    BY DEF KeyedInv
  <1>6. thread'[t].pc # "work" /\ (thread'[t].pc = "auth" => ~IsKeyed(thread'[t].request))
    BY <1>1, <1>4 DEF SameRequest
  <1>7. WereValid(thread'[t], keyState)
    BY <1>4, <1>5 DEF ThreadKeyed, WereValid, SameRequest
  <1>8. ThreadKeyed(thread'[t], keyState)
    BY <1>6, <1>7 DEF ThreadKeyed
  <1> QED  BY <1>2, <1>4, <1>8, StoreStays, KeyedMoves

\* A request is judged by what it brought.
LEMMA SameJudgement ==
    ASSUME NEW t \in Threads, SameRequest(t)
    PROVE  /\ Trusted(thread'[t]) <=> Trusted(thread[t])
           /\ Presented(thread'[t]) = Presented(thread[t])
           /\ WereValid(thread'[t], keyState) <=> WereValid(thread[t], keyState)
  BY DEF SameRequest, Trusted, Presented, WereValid

LEMMA ResolveScopeKeyed ==
    ASSUME GatewayInv, KeyedInv, NEW t \in Threads, ResolveScope(t)
    PROVE  KeyedInv'
  <1>1. UNCHANGED <<keyState, effects, terminal>> /\ KeyedEffects(effects', terminal')
    BY StoreStays DEF ResolveScope, worldVars, storeVars
  <1>2. PICK r, found, jwks :
          /\ r = thread[t] /\ found = ScopeCaller(Routes[r.request.route], r.request.headers, jwks)
          /\ thread' = IF found = {} THEN Moved(t, "auth")
                       ELSE IF BadBody(r.request) THEN Answered(t, 400, FALSE)
                       ELSE [Moved(t, "execute") EXCEPT ![t].caller = found]
    BY Zenon DEF ResolveScope
  <1>3. WereValid(r, keyState)
    BY <1>2 DEF KeyedInv, ThreadKeyed
  <1>4. CASE found = {}
    <2>1. thread' = Moved(t, "auth")
      BY <1>2, <1>4, Zenon
    <2>2. OnlyMoves(t) /\ SameRequest(t) /\ thread'[t].pc = "auth"
      BY <1>1, <2>1, MovedFields
    <2>3. Trusted(r) => keyState[Presented(r)] = "revoked"
      BY <1>2, <1>3, <1>4, ScopeMissed
    <2>4. ThreadKeyed(thread'[t], keyState)
      BY <1>2, <1>3, <2>2, <2>3, SameJudgement DEF ThreadKeyed
    <2> QED  BY <1>1, <2>2, <2>4, KeyedMoves
  <1>5. CASE found # {}
    <2>1. thread' = Answered(t, 400, FALSE) \/ thread' = [Moved(t, "execute") EXCEPT ![t].caller = found]
      BY <1>2, <1>5, Zenon
    <2>2. CASE thread' = Answered(t, 400, FALSE)
      <3>1. PICK acted : thread' = Answered(t, 400, acted)
        BY <2>2, Zenon
      <3>2. OnlyMoves(t) /\ SameRequest(t) /\ thread'[t].pc = "done"
        BY <1>1, <3>1, AnsweredFields
      <3> QED  BY <1>1, <3>2, AsideStep
    <2>3. CASE thread' = [Moved(t, "execute") EXCEPT ![t].caller = found]
      <3>1. OnlyMoves(t) /\ SameRequest(t) /\ thread'[t].pc = "execute"
        BY <1>1, <2>3, FoundFields
      <3> QED  BY <1>1, <3>1, AsideStep
    <2> QED  BY <2>1, <2>2, <2>3
  <1> QED  BY <1>4, <1>5

LEMMA AuthenticateKeyed ==
    ASSUME GatewayInv, KeyedInv, NEW t \in Threads, Authenticate(t)
    PROVE  KeyedInv'
  <1>1. /\ UNCHANGED <<keyState, effects, terminal>> /\ KeyedEffects(effects', terminal')
        /\ thread[t].pc = "auth"
    BY StoreStays DEF Authenticate, worldVars, storeVars
  <1>2. PICK r, found, jwks :
          /\ r = thread[t] /\ found = Caller(Routes[r.request.route], r.request.headers, jwks)
          /\ thread' = IF found = {}
                       THEN IF Routes[r.request.route].surface # "none" THEN Moved(t, "record")
                            ELSE Answered(t, 401, FALSE)
                       ELSE IF r.request.shape = "method" THEN Answered(t, 405, FALSE)
                       ELSE IF r.request.shape = "path" THEN Answered(t, 404, FALSE)
                       ELSE IF BadBody(r.request) THEN Answered(t, 400, FALSE)
                       ELSE [Moved(t, "work") EXCEPT ![t].caller = found]
    BY Zenon DEF Authenticate
  <1>3. \/ thread' = Moved(t, "record") \/ \E status, acted : thread' = Answered(t, status, acted)
        \/ found # {} /\ thread' = [Moved(t, "work") EXCEPT ![t].caller = found]
    <2>1. CASE found = {}
      BY <1>2, <2>1, Zenon
    <2>2. CASE found # {}
      <3>1. thread' = (IF r.request.shape = "method" THEN Answered(t, 405, FALSE)
                       ELSE IF r.request.shape = "path" THEN Answered(t, 404, FALSE)
                       ELSE IF BadBody(r.request) THEN Answered(t, 400, FALSE)
                       ELSE [Moved(t, "work") EXCEPT ![t].caller = found])
        BY <1>2, <2>2, Zenon
      <3>2. CASE r.request.shape = "method"
        BY <3>1, <3>2, Zenon
      <3>3. CASE r.request.shape # "method" /\ r.request.shape = "path"
        BY <3>1, <3>3, Zenon
      <3>4. CASE r.request.shape # "method" /\ r.request.shape # "path" /\ BadBody(r.request)
        BY <3>1, <3>4, Zenon
      <3>5. CASE r.request.shape # "method" /\ r.request.shape # "path" /\ ~BadBody(r.request)
        BY <2>2, <3>1, <3>5, Zenon
      <3> QED  BY <3>2, <3>3, <3>4, <3>5, Zenon
    <2> QED  BY <2>1, <2>2, Zenon
  <1>4. CASE thread' = Moved(t, "record")
    <2>1. OnlyMoves(t) /\ SameRequest(t) /\ thread'[t].pc = "record"
      BY <1>1, <1>4, MovedFields
    <2> QED  BY <1>1, <2>1, AsideStep
  <1>5. CASE \E status, acted : thread' = Answered(t, status, acted)
    <2>1. OnlyMoves(t) /\ SameRequest(t) /\ thread'[t].pc = "done"
      BY <1>1, <1>5, AnsweredFields
    <2> QED  BY <1>1, <2>1, AsideStep
  <1>6. CASE found # {} /\ thread' = [Moved(t, "work") EXCEPT ![t].caller = found]
    <2>1. OnlyMoves(t) /\ SameRequest(t) /\ thread'[t].pc = "work"
      BY <1>1, <1>6, FoundFields
    <2>2. r.pc = "auth" /\ r.request.route \in DOMAIN Routes /\ ThreadKeyed(r, keyState)
      BY <1>1, <1>2 DEF GatewayInv, Fits, KeyedInv
    <2>3. IsKeyed(r.request) => ~Trusted(r)
      BY <1>2, <1>6, <2>2, CallerMissed DEF ThreadKeyed
    <2>4. WereValid(thread'[t], keyState) /\ (IsKeyed(thread'[t].request) => ~Trusted(thread'[t]))
      <3>1. thread'[t].request = r.request
        BY <1>2, <2>1 DEF SameRequest
      <3>2. Trusted(thread'[t]) <=> Trusted(r)
        BY <1>2, <2>1, SameJudgement
      <3>3. WereValid(thread'[t], keyState)
        BY <1>2, <2>1, <2>2, SameJudgement DEF ThreadKeyed
      <3> QED  BY <2>3, <3>1, <3>2, <3>3
    <2>5. ThreadKeyed(thread'[t], keyState)
      BY <2>1, <2>4 DEF ThreadKeyed
    <2> QED  BY <1>1, <2>1, <2>5, KeyedMoves
  <1> QED  BY <1>3, <1>4, <1>5, <1>6

LEMMA WorkKeyed ==
    ASSUME GatewayInv, KeyedInv, NEW t \in Threads, Work(t)
    PROVE  KeyedInv'
  <1>1. UNCHANGED <<keyState, terminal>> /\ thread[t].pc = "work"
    BY DEF Work, worldVars
  <1>2. /\ \E status, acted : thread' = Answered(t, status, acted)
        /\ \/ effects' = effects
           \/ IsKeyed(thread[t].request) /\ effects' = Append(effects, Effect(t, Unstored(thread[t]), time))
    BY Zenon DEF Work
  <1>3. OnlyMoves(t) /\ SameRequest(t) /\ thread'[t].pc = "done"
    BY <1>1, <1>2, AnsweredFields
  <1>4. KeyedEffects(effects, terminal)
    BY DEF KeyedInv
  <1>5. KeyedEffects(effects', terminal')
    <2>1. CASE effects' = effects
      BY <1>1, <1>4, <2>1
    <2>2. CASE IsKeyed(thread[t].request) /\ effects' = Append(effects, Effect(t, Unstored(thread[t]), time))
      <3>1. ~Trusted(thread[t])
        BY <1>1, <2>2 DEF KeyedInv, ThreadKeyed
      <3>2. PICK list, answers, e :
              /\ list = effects /\ answers = terminal /\ e = Effect(t, Unstored(thread[t]), time)
        OBVIOUS
      <3>3. e.how = "unscoped"
        BY <3>1, <3>2 DEF Effect, Unstored
      <3>4. KeyedEffects(Append(list, e), answers)
        BY <1>4, <3>2, <3>3, UnscopedEffect
      <3> QED  BY <1>1, <2>2, <3>2, <3>4
    <2> QED  BY <1>2, <2>1, <2>2
  <1> QED  BY <1>3, <1>5, AsideStep

LEMMA ExecuteKeyed ==
    ASSUME GatewayInv, LimitInv, KeyedInv, NEW t \in Threads, Execute(t)
    PROVE  KeyedInv'
  <1>1. UNCHANGED keyState /\ ~Remembered(Scope(t))
    BY DEF Execute, worldVars
  <1>0. PICK outcome \in Routes[thread[t].request.route].outcomes : \E until \in Expiries(t, outcome) :
          /\ terminal' = With(terminal, Scope(t), [fingerprint |-> thread[t].request.fingerprint,
                                                   status |-> outcome.status, until |-> until])
          /\ effects' = IF outcome.acts THEN Append(effects, Effect(t, "stored", until)) ELSE effects
          /\ \E status \in {outcome.status, 503} : thread' = Answered(t, status, outcome.acts)
    BY Zenon DEF Execute
  <1>15. PICK until \in Expiries(t, outcome) :
          /\ terminal' = With(terminal, Scope(t), [fingerprint |-> thread[t].request.fingerprint,
                                                   status |-> outcome.status, until |-> until])
          /\ effects' = IF outcome.acts THEN Append(effects, Effect(t, "stored", until)) ELSE effects
          /\ \E status \in {outcome.status, 503} : thread' = Answered(t, status, outcome.acts)
    BY <1>0, Zenon
  <1>16. effects' = effects \/ effects' = Append(effects, Effect(t, "stored", until))
    BY <1>15
  <1>17. \E status : thread' = Answered(t, status, outcome.acts)
    BY <1>15, Zenon
  <1>18. PICK answer, e :
          /\ answer = [fingerprint |-> thread[t].request.fingerprint, status |-> outcome.status, until |-> until]
          /\ e = Effect(t, "stored", until)
    OBVIOUS
  <1>2.   /\ until \in Expiries(t, outcome)
          /\ answer = [fingerprint |-> thread[t].request.fingerprint, status |-> outcome.status, until |-> until]
          /\ terminal' = With(terminal, Scope(t), answer)
          /\ e = Effect(t, "stored", until) /\ (effects' = effects \/ effects' = Append(effects, e))
          /\ \E status : thread' = Answered(t, status, outcome.acts)
    BY <1>15, <1>16, <1>17, <1>18
  <1>3. time \in Nat /\ Retention \in Nat
    BY GatewayAssumption DEF LimitInv, WorldTyped
  <1>4. until \in Nat /\ time <= until
    BY <1>2, <1>3 DEF Expiries
  <1>5. PICK acted : \E status : thread' = Answered(t, status, acted)
    BY <1>2, Zenon
  <1>6. OnlyMoves(t) /\ SameRequest(t) /\ thread'[t].pc = "done"
    BY <1>1, <1>5, AnsweredFields
  <1>7. PICK list, answers, now, scope, new :
          list = effects /\ answers = terminal /\ now = time /\ scope = Scope(t) /\ new = effects'
    OBVIOUS
  <1>8. KeyedEffects(list, answers) /\ now \in Nat
    BY <1>3, <1>7 DEF KeyedInv
  <1>9. scope \in DOMAIN answers => answers[scope].until <= now
    <2>1. scope \in DOMAIN answers => answers[scope].until \in Nat
      BY <1>8 DEF KeyedEffects
    <2> QED  BY <1>1, <1>3, <1>7, <2>1 DEF Remembered
  <1>10. answer.until = until /\ answer.until \in Nat /\ now <= answer.until
    BY <1>2, <1>4, <1>7
  <1>11. e.how = "stored" /\ ScopeOf(e.intent) = scope /\ e.at = now /\ e.until = answer.until
    <2>1. ScopeOf(Intent(t)) = Scope(t)
      BY DEF ScopeOf, Intent, Scope
    <2> QED  BY <1>2, <1>7, <1>10, <2>1 DEF Effect
  <1>12. new = list \/ new = Append(list, e)
    BY <1>2, <1>7
  <1>13. KeyedEffects(new, With(answers, scope, answer))
    BY <1>8, <1>9, <1>10, <1>11, <1>12, StoredEffect
  <1>14. KeyedEffects(effects', terminal')
    BY <1>2, <1>7, <1>13
  <1> QED  BY <1>6, <1>14, AsideStep

LEMMA OtherKeyed ==
    ASSUME GatewayInv, LimitInv, KeyedInv, NEW t \in Threads,
           \/ Gate(t) \/ FailOpen(t) \/ AnswerOpen(t) \/ RefuseUnread(t) \/ LoseBackend(t) \/ RefuseKeyed(t)
           \/ Replay(t) \/ CountFailure(t) \/ WriteFailureEvent(t)
    PROVE  KeyedInv'
  <1>1. UNCHANGED <<keyState, effects, terminal>>
    BY DEF Gate, FailOpen, AnswerOpen, RefuseUnread, LoseBackend, RefuseKeyed, Replay, CountFailure,
       WriteFailureEvent, worldVars, storeVars
  <1>2. OnlyMoves(t) /\ SameRequest(t) /\ thread'[t].pc \in {"route", "done", "emit"}
    <2>1. CASE CountFailure(t)
      <3>1. PICK s : s = SurfaceOf(thread[t])
        OBVIOUS
      <3> QED  BY <2>1, <3>1, CountedThread
    <2>2. CASE WriteFailureEvent(t)
      BY <2>2, WrittenThread
    <2>3. CASE ~CountFailure(t) /\ ~WriteFailureEvent(t)
      <3>1. thread' = Moved(t, "route") \/ \E status, acted : thread' = Answered(t, status, acted)
        <4>1. CASE Gate(t)
          BY <4>1, Zenon DEF Gate
        <4>2. CASE FailOpen(t)
          BY <4>2, Zenon DEF FailOpen
        <4>3. CASE AnswerOpen(t) \/ RefuseUnread(t) \/ LoseBackend(t) \/ RefuseKeyed(t) \/ Replay(t)
          <5>1. PICK status : thread' = Answered(t, status, FALSE)
            BY <4>3, RefusedThread, Zenon
          <5> QED  BY <5>1, Zenon
        <4> QED  BY <2>3, <4>1, <4>2, <4>3, Zenon
      <3>2. CASE thread' = Moved(t, "route")
        BY <1>1, <3>2, MovedFields
      <3>3. CASE \E status, acted : thread' = Answered(t, status, acted)
        BY <1>1, <3>3, AnsweredFields
      <3> QED  BY <3>1, <3>2, <3>3
    <2> QED  BY <2>1, <2>2, <2>3
  <1> QED  BY <1>1, <1>2, StoreStays, AsideStep

\* A key once active stays so until it is revoked, and a revoked one stays revoked.
LEMMA KeysKeyed ==
    ASSUME KeyedInv, UNCHANGED <<thread, effects, terminal>>,
           \A k \in DOMAIN Keys : /\ keyState[k] \in {"active", "revoked"} => keyState'[k] \in {"active", "revoked"}
                                  /\ keyState[k] = "revoked" => keyState'[k] = "revoked"
    PROVE  KeyedInv'
  <1>1. ASSUME NEW t \in Threads  PROVE ThreadKeyed(thread[t], keyState')
    <2>1. PICK r : r = thread[t] /\ ThreadKeyed(r, keyState)
      BY DEF KeyedInv
    <2>2. WereValid(r, keyState')
      BY <2>1 DEF ThreadKeyed, WereValid
    <2>3. Trusted(r) => Presented(r) \in DOMAIN Keys
      BY <2>1 DEF ThreadKeyed, WereValid, Trusted, Presented
    <2> QED  BY <2>1, <2>2, <2>3 DEF ThreadKeyed
  <1> QED  BY <1>1, StoreStays DEF KeyedInv

LEMMA KeyedNextHolds ==
    ASSUME GatewayInv, LimitInv, KeyedInv, [GatewayNext]_gatewayVars
    PROVE  KeyedInv'
  <1>1. ASSUME NEW t \in Threads, Serve(t)  PROVE KeyedInv'
    BY <1>1, ArriveKeyed, EnterKeyed, ResolveScopeKeyed, AuthenticateKeyed, WorkKeyed, ExecuteKeyed, OtherKeyed
       DEF Serve
  <1>2. keyState \in [DOMAIN Keys -> {"unissued", "active", "revoked"}]
    BY DEF GatewayInv
  <1>3. ASSUME NEW k \in DOMAIN Successor, RotateKey(k)  PROVE KeyedInv'
    <2>1. /\ UNCHANGED <<thread, effects, terminal>> /\ keyState[k] = "active"
          /\ keyState' = [keyState EXCEPT ![k] = "revoked", ![Successor[k]] = "active"]
      BY <1>3 DEF RotateKey, storeVars
    <2>2. /\ keyState[Successor[k]] = "unissued" /\ Successor[k] # k
          /\ k \in DOMAIN Keys /\ Successor[k] \in DOMAIN Keys
      BY <2>1, GatewayAssumption DEF GatewayInv, SuccessorsWait
    <2>3. \A j \in DOMAIN Keys : j # Successor[k] => keyState'[j] \in {keyState[j], "revoked"}
      BY <1>2, <2>1, <2>2
    <2> QED  BY <2>1, <2>2, <2>3, KeysKeyed
  <1>4. ASSUME NEW k \in DOMAIN Keys, RevokeKey(k)  PROVE KeyedInv'
    <2>1. UNCHANGED <<thread, effects, terminal>> /\ keyState' = [keyState EXCEPT ![k] = "revoked"]
      BY <1>4 DEF RevokeKey, storeVars
    <2>2. \A j \in DOMAIN Keys : keyState'[j] \in {keyState[j], "revoked"}
      BY <1>2, <2>1
    <2> QED  BY <2>1, <2>2, KeysKeyed
  <1>5. CASE Tick \/ UNCHANGED gatewayVars
    <2>1. UNCHANGED <<thread, effects, terminal, keyState>>
      BY <1>5 DEF Tick, gatewayVars, storeVars
    <2> QED  BY <2>1, KeysKeyed
  <1> QED  BY <1>1, <1>3, <1>4, <1>5 DEF GatewayNext

(***************************************************************************)
(* A mutation sent again under its Idempotency-Key takes effect once in    *)
(* the time its answer is kept, and a request whose local key was active   *)
(* on arrival acts only with the store - for any number of concurrent      *)
(* handlers, any keys rotated or revoked meanwhile, and token verification *)
(* that fails at any time.                                                 *)
(***************************************************************************)
THEOREM KeyedMutationsHappenOnce == GatewaySpec => []KeyedActionsHappenOnce
  <1>1. GatewayInit => KeyedInv
    <2> SUFFICES ASSUME GatewayInit  PROVE KeyedInv
      OBVIOUS
    <2>1. effects = <<>> /\ DOMAIN terminal = {} /\ thread = [t \in Threads |-> Waiting]
      BY DEF GatewayInit, Empty
    <2>2. Waiting.pc = "idle" /\ Waiting.valid = {}
      BY DEF Waiting
    <2>3. IsSequence(effects) /\ DOMAIN effects = {}
      <3>1. effects \in Seq({}) /\ DOMAIN effects = {}
        BY <2>1
      <3> QED  BY <3>1, Zenon DEF IsSequence
    <2>4. KeyedEffects(effects, terminal)
      BY <2>1, <2>3 DEF KeyedEffects
    <2>5. \A t \in Threads : ThreadKeyed(thread[t], keyState)
      BY <2>1, <2>2 DEF ThreadKeyed, WereValid
    <2> QED  BY <2>4, <2>5 DEF KeyedInv
  <1>2. KeyedInv => KeyedActionsHappenOnce
    BY DEF KeyedInv, KeyedEffects, KeyedActionsHappenOnce
  <1> QED  BY <1>1, <1>2, LimitsHold, KeyedNextHolds, PTL DEF GatewaySpec

-----------------------------------------------------------------------------
(***************************************************************************)
(* Readiness: what an outage costs is bounded and accounted for, a cancel  *)
(* ends only the call it was meant for, and ready is never stale.          *)
(*                                                                         *)
(* The invariant follows each worker thread and each connection from the   *)
(* moment it is made: a thread is the current one or is counted, and a     *)
(* connection is in one call or parked.                                    *)
(***************************************************************************)
CallerStates == {"absent", "idle", "waiting", "ready", "late"}
WorkerRow ==
    [pc : Stages, idle : BOOLEAN, requested : BOOLEAN, counted : BOOLEAN, mine : BOOLEAN,
     conn : Conns \cup {0}, attempted : BOOLEAN, ready : BOOLEAN, reusable : BOOLEAN]
ProbeRow == [finished : BOOLEAN, ready : BOOLEAN, expired : BOOLEAN, seenUp : BOOLEAN]

Typed ==
    /\ up \in BOOLEAN /\ serving \in ServingStates /\ closed \in BOOLEAN /\ pgClosed \in BOOLEAN
    /\ caller \in [Callers -> CallerStates] /\ probe \in ProbeRow
    /\ current \in Workers \cup {0} /\ worker \in [Workers -> WorkerRow]
    /\ parked \in Conns \cup {0} /\ open \subseteq Conns /\ tainted \subseteq open

(***************************************************************************)
(* The workers: every thread is the current one or was counted as          *)
(* abandoned; close() leaves at most one that is neither.                  *)
(***************************************************************************)
Uncounted(w) == worker[w].pc # "none" /\ ~worker[w].counted

Crew ==
    /\ current # 0 => Uncounted(current)
    /\ \A w \in Workers : worker[w].pc = "none" => worker[w] = NoWorker
    /\ ~closed => \A w \in Workers : Uncounted(w) => w = current
    /\ \A v, w \in Workers : Uncounted(v) /\ Uncounted(w) => v = w

(***************************************************************************)
(* The connections: who has which, and which may be cancelled.             *)
(***************************************************************************)
Holding == {"query", "wedged", "checkin"}

Owners ==
    /\ \A w \in Workers : worker[w].conn # 0 => worker[w].pc \in Holding /\ worker[w].conn # parked
    /\ \A v, w \in Workers : v # w /\ worker[v].conn # 0 => worker[v].conn # worker[w].conn
    /\ \A c \in Conns : c \in open <=> c = parked \/ \E w \in Workers : worker[w].conn = c

Cancels ==
    /\ parked \notin tainted
    /\ \A w \in Workers : worker[w].conn \in tainted => worker[w].attempted

(***************************************************************************)
(* The bounds.  While a connection is parked, one worker fewer than there  *)
(* may be is in a call: the next call takes the parked connection.         *)
(***************************************************************************)
Counted == {w \in Workers : worker[w].counted}
InCall == {w \in Workers : worker[w].pc \in ActiveStages}

Bounded ==
    /\ abandoned = Cardinality(Counted) /\ abandoned <= MaxAbandoned
    /\ parked # 0 => Cardinality(InCall) <= MaxAbandoned

(***************************************************************************)
(* The answers.                                                            *)
(***************************************************************************)
Awaited == \E c \in Callers : caller[c] = "waiting"

Asking == {"check", "connect", "query", "wedged", "checkin", "serving", "done"}
Unready == {"none", "start", "wait", "woken", "check", "connect", "query", "wedged"}

\* A worker that has read the probe that is outstanding.
Answering(w) == ~probe.finished /\ worker[w].pc \in Asking /\ ~worker[w].idle

\* At most one worker has read it, the current one if there is one; a worker
\* that was abandoned and could not be replaced may still answer it.
Sole ==
    /\ \A v, w \in Workers : worker[v].mine /\ worker[w].mine => v = w
    /\ current # 0 => \A w \in Workers : worker[w].mine => w = current

Fresh ==
    /\ probe.ready => probe.finished /\ probe.seenUp /\ Awaited
    /\ ~probe.finished /\ up /\ Awaited => probe.seenUp
    /\ ~probe.finished /\ ~probe.expired => Awaited
    /\ \A w \in Workers : worker[w].mine => Answering(w)
    /\ \A w \in Workers : worker[w].mine /\ worker[w].ready /\ Awaited => probe.seenUp
    /\ \A w \in Workers : worker[w].pc \in Unready => ~worker[w].ready
    /\ Sole

IInv == Typed /\ Crew /\ Owners /\ Cancels /\ Bounded /\ Fresh

-----------------------------------------------------------------------------
(***************************************************************************)
(* How many there are.                                                     *)
(***************************************************************************)
Holders == {w \in Workers : worker[w].conn # 0}

LEMMA Finite ==
    ASSUME NEW S \in SUBSET Workers
    PROVE  IsFiniteSet(S) /\ Cardinality(S) \in Nat
  BY ReadinessAssumption, FS_Subset, FS_CardinalityType

LEMMA AliveBound ==
    ASSUME Typed, Crew, Bounded
    PROVE  /\ Cardinality(Alive) <= MaxAbandoned + 1
           /\ ~closed /\ (current = 0 \/ abandoned < MaxAbandoned) => Cardinality(Alive) <= MaxAbandoned
  <1>1. Alive \in SUBSET Workers /\ Counted \in SUBSET Workers
    BY DEF Alive, Counted
  <1>2. IsFiniteSet(Counted) /\ Cardinality(Alive) \in Nat /\ Cardinality(Counted) \in Nat
    BY <1>1, Finite
  <1>3. MaxAbandoned \in Nat /\ Cardinality(Counted) = abandoned /\ abandoned <= MaxAbandoned /\ 0 \notin Workers
    BY ReadinessAssumption DEF Bounded
  <1>4. CASE \A w \in Workers : ~Uncounted(w)
    <2>1. Alive \subseteq Counted
      BY <1>4 DEF Alive, Counted, Uncounted
    <2>2. Cardinality(Alive) <= Cardinality(Counted)
      BY <1>2, <2>1, FS_Subset
    <2> QED  BY <1>2, <1>3, <2>2
  <1>5. ASSUME NEW x \in Workers, Uncounted(x)
        PROVE  /\ Cardinality(Alive) <= MaxAbandoned + 1
               /\ ~closed /\ (current = 0 \/ abandoned < MaxAbandoned) => Cardinality(Alive) <= MaxAbandoned
    <2>1. Alive \subseteq Counted \cup {x}
      BY <1>5 DEF Alive, Counted, Uncounted, Crew
    <2>2. IsFiniteSet(Counted \cup {x}) /\ Cardinality(Counted \cup {x}) <= Cardinality(Counted) + 1
      BY <1>2, FS_AddElement
    <2>3. Cardinality(Counted \cup {x}) \in Nat
      BY <2>2, FS_CardinalityType
    <2>4. Cardinality(Alive) <= Cardinality(Counted \cup {x})
      BY <2>1, <2>2, FS_Subset
    <2>5. ~closed => current # 0
      BY <1>3, <1>5 DEF Crew
    <2> QED  BY <1>2, <1>3, <2>2, <2>3, <2>4, <2>5
  <1> QED  BY <1>4, <1>5

\* Another thread can be had.
LEMMA WorkerToStart ==
    ASSUME Typed, Crew, Bounded, ~closed, current = 0 \/ abandoned < MaxAbandoned
    PROVE  FreshWorker \in Workers /\ worker[FreshWorker].pc = "none"
  <1>1. Cardinality(Alive) <= MaxAbandoned
    BY AliveBound
  <1>2. Alive \in SUBSET Workers
    BY DEF Alive
  <1>3. Cardinality(Alive) \in Nat /\ Cardinality(Workers) \in Nat
    BY <1>2, Finite
  <1>4. Alive # Workers
    BY <1>1, <1>3, ReadinessAssumption
  <1>5. \E w \in Workers : w \notin Alive
    BY <1>2, <1>4
  <1>6. FreshWorker \in Workers /\ FreshWorker \notin Alive
    BY <1>5 DEF FreshWorker
  <1> QED  BY <1>6 DEF Alive

LEMMA CallBound ==
    ASSUME Typed, Crew, Bounded
    PROVE  /\ IsFiniteSet(InCall) /\ Cardinality(InCall) \in Nat
           /\ Cardinality(InCall) <= MaxAbandoned + (IF parked = 0 THEN 1 ELSE 0)
  <1>1. InCall \subseteq Alive /\ Alive \in SUBSET Workers /\ InCall \in SUBSET Workers
    BY DEF InCall, Alive, ActiveStages
  <1>2. IsFiniteSet(InCall) /\ Cardinality(InCall) \in Nat /\ IsFiniteSet(Alive) /\ Cardinality(Alive) \in Nat
    BY <1>1, Finite
  <1>3. Cardinality(InCall) <= Cardinality(Alive)
    BY <1>1, <1>2, FS_Subset
  <1>4. Cardinality(Alive) <= MaxAbandoned + 1 /\ MaxAbandoned \in Nat
    BY AliveBound, ReadinessAssumption
  <1>5. parked # 0 => Cardinality(InCall) <= MaxAbandoned
    BY DEF Bounded
  <1> QED  BY <1>2, <1>3, <1>4, <1>5

\* One connection per call, and the one that is parked.
LEMMA OpenCount ==
    ASSUME Typed, Owners
    PROVE  /\ IsFiniteSet(open) /\ Cardinality(open) \in Nat /\ Cardinality(Holders) \in Nat
           /\ Cardinality(open) <= Cardinality(Holders) + (IF parked = 0 THEN 0 ELSE 1)
  <1> DEFINE held == {worker[w].conn : w \in Holders}
             f == [w \in Holders |-> worker[w].conn]
  <1>1. Holders \in SUBSET Workers
    BY DEF Holders
  <1>2. IsFiniteSet(Holders) /\ Cardinality(Holders) \in Nat
    BY <1>1, Finite
  <1>3. f \in Surjection(Holders, held)
    BY DEF Surjection
  <1>4. IsFiniteSet(held) /\ Cardinality(held) <= Cardinality(Holders)
    BY <1>2, <1>3, FS_Surjection
  <1>5. Cardinality(held) \in Nat
    BY <1>4, FS_CardinalityType
  <1>6. open \subseteq held \cup ({parked} \ {0})
    BY ReadinessAssumption DEF Owners, Typed, Holders
  <1> HIDE DEF held, f
  <1>7. CASE parked = 0
    <2>1. open \subseteq held
      BY <1>6, <1>7
    <2>2. IsFiniteSet(open) /\ Cardinality(open) <= Cardinality(held)
      BY <1>4, <2>1, FS_Subset
    <2>3. Cardinality(open) \in Nat
      BY <2>2, FS_CardinalityType
    <2> QED  BY <1>2, <1>4, <1>5, <1>7, <2>2, <2>3
  <1>8. CASE parked # 0
    <2>1. open \subseteq held \cup {parked}
      BY <1>6
    <2>2. IsFiniteSet(held \cup {parked}) /\ Cardinality(held \cup {parked}) <= Cardinality(held) + 1
      <3>1. /\ IsFiniteSet(held \cup {parked})
            /\ Cardinality(held \cup {parked}) = IF parked \in held THEN Cardinality(held)
                                                 ELSE Cardinality(held) + 1
        BY <1>4, FS_AddElement
      <3> QED  BY <1>5, <3>1
    <2>3. Cardinality(held \cup {parked}) \in Nat
      BY <2>2, FS_CardinalityType
    <2>4. IsFiniteSet(open) /\ Cardinality(open) <= Cardinality(held \cup {parked})
      BY <2>1, <2>2, FS_Subset
    <2>5. Cardinality(open) \in Nat
      BY <2>4, FS_CardinalityType
    <2> QED  BY <1>2, <1>4, <1>5, <1>8, <2>2, <2>3, <2>4, <2>5
  <1> QED  BY <1>7, <1>8

LEMMA OpenBound ==
    ASSUME Typed, Crew, Owners, Bounded
    PROVE  Cardinality(open) <= MaxAbandoned + 1
  <1>1. Holders \subseteq InCall
    BY DEF Holders, InCall, Owners, Holding, ActiveStages
  <1>2. Cardinality(Holders) <= Cardinality(InCall) /\ Cardinality(InCall) \in Nat
    BY <1>1, CallBound, FS_Subset
  <1>3. Cardinality(InCall) <= MaxAbandoned + (IF parked = 0 THEN 1 ELSE 0) /\ MaxAbandoned \in Nat
    BY CallBound, ReadinessAssumption
  <1>4. /\ Cardinality(open) \in Nat /\ Cardinality(Holders) \in Nat
        /\ Cardinality(open) <= Cardinality(Holders) + (IF parked = 0 THEN 0 ELSE 1)
    BY OpenCount
  <1> QED  BY <1>2, <1>3, <1>4

\* Another connection can be had.
LEMMA ConnToOpen ==
    ASSUME Typed, Crew, Owners, Bounded, NEW w \in Workers, worker[w].pc = "connect"
    PROVE  FreshConn \in Conns /\ FreshConn \notin open
  <1>1. Holders \subseteq InCall \ {w} /\ w \in InCall
    BY DEF Holders, InCall, Owners, Holding, ActiveStages
  <1>2. /\ IsFiniteSet(InCall \ {w}) /\ Cardinality(InCall) \in Nat
        /\ Cardinality(InCall \ {w}) = Cardinality(InCall) - 1
    BY <1>1, CallBound, FS_RemoveElement
  <1>3. Cardinality(Holders) <= Cardinality(InCall) - 1
    BY <1>1, <1>2, FS_Subset
  <1>4. Cardinality(InCall) <= MaxAbandoned + (IF parked = 0 THEN 1 ELSE 0) /\ MaxAbandoned \in Nat
    BY CallBound, ReadinessAssumption
  <1>5. /\ Cardinality(open) \in Nat /\ Cardinality(Holders) \in Nat
        /\ Cardinality(open) <= Cardinality(Holders) + (IF parked = 0 THEN 0 ELSE 1)
    BY OpenCount
  <1>6. Cardinality(open) <= MaxAbandoned
    BY <1>2, <1>3, <1>4, <1>5
  <1>7. Cardinality(Conns) \in Nat /\ Cardinality(Conns) > MaxAbandoned
    BY ReadinessAssumption, FS_CardinalityType
  <1>8. open # Conns /\ open \subseteq Conns
    BY <1>4, <1>5, <1>6, <1>7 DEF Typed
  <1>9. \E c \in Conns : c \notin open
    BY <1>8
  <1> QED  BY <1>9 DEF FreshConn

-----------------------------------------------------------------------------
(***************************************************************************)
(* Steps that leave workers and connections alone.                         *)
(***************************************************************************)
LEMMA Standing ==
    ASSUME IInv, UNCHANGED <<current, worker, abandoned, parked, open, tainted, closed>>
    PROVE  Crew' /\ Owners' /\ Cancels' /\ Bounded'
  <1>1. Crew'
    BY DEF IInv, Crew, Uncounted
  <1>2. Owners'
    BY DEF IInv, Owners
  <1>3. Cancels'
    BY DEF IInv, Cancels
  <1>4. Bounded'
    BY DEF IInv, Bounded, Counted, InCall
  <1> QED  BY <1>1, <1>2, <1>3, <1>4

(***************************************************************************)
(* Steps of one worker.                                                    *)
(***************************************************************************)
LEMMA RowChange ==
    ASSUME Typed, NEW w \in Workers, NEW r \in WorkerRow, worker' = [worker EXCEPT ![w] = r]
    PROVE  /\ worker' \in [Workers -> WorkerRow] /\ worker'[w] = r
           /\ \A v \in Workers \ {w} : worker'[v] = worker[v]
  BY DEF Typed

LEMMA CrewStep ==
    ASSUME IInv, NEW w \in Workers, NEW r \in WorkerRow, worker' = [worker EXCEPT ![w] = r],
           worker[w].pc # "none", r.pc # "none", r.counted = worker[w].counted, UNCHANGED <<current, closed>>
    PROVE  Crew' /\ Counted' = Counted
  <1>1. /\ worker' \in [Workers -> WorkerRow] /\ worker'[w] = r
        /\ \A v \in Workers \ {w} : worker'[v] = worker[v]
    BY RowChange DEF IInv
  <1>2. \A v \in Workers : /\ worker'[v].pc = "none" <=> worker[v].pc = "none"
                           /\ worker'[v].counted = worker[v].counted
    BY <1>1
  <1>3. \A v \in Workers : Uncounted(v)' <=> Uncounted(v)
    BY <1>2 DEF Uncounted
  <1>4. \A v \in Workers : worker'[v].pc = "none" => worker'[v] = NoWorker
    BY <1>1 DEF IInv, Crew
  <1>5. current' = current /\ closed' = closed /\ current \in Workers \cup {0}
    BY DEF IInv, Typed
  <1>6. Counted' = Counted
    BY <1>2 DEF Counted
  <1> QED  BY <1>3, <1>4, <1>5, <1>6 DEF IInv, Crew

\* It goes on with its call: it is counted as before, and has the connection it had.
LEMMA RowStep ==
    ASSUME IInv, NEW w \in Workers, NEW r \in WorkerRow, worker' = [worker EXCEPT ![w] = r],
           worker[w].pc # "none", r.pc # "none", r.counted = worker[w].counted,
           r.conn = worker[w].conn, r.attempted = worker[w].attempted,
           r.pc \in ActiveStages => worker[w].pc \in ActiveStages,
           worker[w].pc \in Holding => r.pc \in Holding \/ r.conn = 0,
           UNCHANGED <<current, abandoned, parked, open, tainted, closed>>
    PROVE  worker' \in [Workers -> WorkerRow] /\ Crew' /\ Owners' /\ Cancels' /\ Bounded'
  <1>1. /\ worker' \in [Workers -> WorkerRow] /\ worker'[w] = r
        /\ \A v \in Workers \ {w} : worker'[v] = worker[v]
    BY RowChange DEF IInv
  <1>2. \A v \in Workers :
          /\ worker'[v].pc = "none" <=> worker[v].pc = "none"
          /\ worker'[v].counted = worker[v].counted
          /\ worker'[v].conn = worker[v].conn /\ worker'[v].attempted = worker[v].attempted
          /\ worker'[v].pc \in ActiveStages => worker[v].pc \in ActiveStages
          /\ worker[v].pc \in Holding => worker'[v].pc \in Holding \/ worker'[v].conn = 0
    BY <1>1
  <1>3. Crew'
    BY CrewStep
  <1>4. Owners'
    <2>1. \A v \in Workers : worker[v].conn # 0 => worker[v].pc \in Holding /\ worker[v].conn # parked
      BY DEF IInv, Owners
    <2>2. \A v \in Workers : worker'[v].conn # 0 => worker'[v].pc \in Holding /\ worker'[v].conn # parked
      BY <1>2, <2>1
    <2>3. \A u, v \in Workers : u # v /\ worker'[u].conn # 0 => worker'[u].conn # worker'[v].conn
      BY <1>2 DEF IInv, Owners
    <2>4. \A c \in Conns : c \in open <=> c = parked \/ \E v \in Workers : worker'[v].conn = c
      BY <1>2 DEF IInv, Owners
    <2> QED  BY <2>2, <2>3, <2>4 DEF Owners
  <1>5. Cancels'
    BY <1>2 DEF IInv, Cancels
  <1>6. Bounded'
    <2>1. Counted' = Counted /\ InCall' \subseteq InCall
      BY <1>2 DEF Counted, InCall
    <2>2. IsFiniteSet(InCall) /\ Cardinality(InCall) \in Nat /\ MaxAbandoned \in Nat
      BY CallBound, ReadinessAssumption DEF IInv
    <2>3. IsFiniteSet(InCall') /\ Cardinality(InCall') <= Cardinality(InCall)
      BY <2>1, <2>2, FS_Subset
    <2>4. Cardinality(InCall') \in Nat
      BY <2>3, FS_CardinalityType
    <2>5. parked' # 0 => Cardinality(InCall') <= MaxAbandoned
      BY <2>2, <2>3, <2>4 DEF IInv, Bounded
    <2> QED  BY <2>1, <2>5 DEF IInv, Bounded
  <1> QED  BY <1>1, <1>3, <1>4, <1>5, <1>6

\* It does not disturb the answer that is owed.
LEMMA FreshStep ==
    ASSUME IInv, NEW w \in Workers, NEW r \in WorkerRow, worker' = [worker EXCEPT ![w] = r],
           UNCHANGED <<up, caller, probe>>, current' \in {current, 0},
           r.mine => ~probe.finished /\ r.pc \in Asking /\ ~r.idle,
           r.mine => worker[w].mine \/ w = current,
           r.mine /\ r.ready /\ Awaited => probe.seenUp,
           r.pc \in Unready => ~r.ready
    PROVE  Fresh'
  <1>1. /\ worker' \in [Workers -> WorkerRow] /\ worker'[w] = r
        /\ \A v \in Workers \ {w} : worker'[v] = worker[v]
    BY RowChange DEF IInv
  <1>2. Awaited' = Awaited /\ probe' = probe /\ up' = up
    BY DEF Awaited
  <1>3. \A v \in Workers : worker'[v].mine => Answering(v)'
    <2>1. ASSUME NEW v \in Workers, worker'[v].mine  PROVE Answering(v)'
      <3>1. CASE v = w
        BY <1>1, <1>2, <2>1, <3>1 DEF Answering
      <3>2. CASE v # w
        BY <1>1, <1>2, <2>1, <3>2 DEF IInv, Fresh, Answering
      <3> QED  BY <3>1, <3>2
    <2> QED  BY <2>1
  <1>4. \A v \in Workers : worker'[v].mine /\ worker'[v].ready /\ Awaited => probe.seenUp
    BY <1>1 DEF IInv, Fresh
  <1>5. \A v \in Workers : worker'[v].pc \in Unready => ~worker'[v].ready
    BY <1>1 DEF IInv, Fresh
  <1>6. Sole'
    <2>1. current \in Workers => current # 0
      BY ReadinessAssumption
    <2>2. \A v \in Workers \ {w} : worker'[v].mine => ~r.mine
      BY <1>1, <2>1 DEF IInv, Fresh, Sole
    <2>3. \A u, v \in Workers : worker'[u].mine /\ worker'[v].mine => u = v
      BY <1>1, <2>2 DEF IInv, Fresh, Sole
    <2>4. current' # 0 => \A v \in Workers : worker'[v].mine => v = current'
      BY <1>1, <2>1 DEF IInv, Fresh, Sole
    <2> QED  BY <2>3, <2>4 DEF Sole
  <1> QED  BY <1>2, <1>3, <1>4, <1>5, <1>6 DEF IInv, Fresh

LEMMA QuietStep ==
    ASSUME IInv, NEW w \in Workers, NEW r \in WorkerRow, worker' = [worker EXCEPT ![w] = r],
           worker[w].pc # "none", r.pc # "none", r.counted = worker[w].counted,
           r.conn = worker[w].conn, r.attempted = worker[w].attempted,
           r.pc \in ActiveStages => worker[w].pc \in ActiveStages,
           worker[w].pc \in Holding => r.pc \in Holding \/ r.conn = 0,
           r.mine => ~probe.finished /\ r.pc \in Asking /\ ~r.idle,
           r.mine => worker[w].mine \/ w = current,
           r.mine /\ r.ready /\ Awaited => probe.seenUp,
           r.pc \in Unready => ~r.ready, serving' \in ServingStates,
           UNCHANGED <<up, caller, probe, current, abandoned, parked, open, tainted, closed, pgClosed>>
    PROVE  IInv'
  <1>1. worker' \in [Workers -> WorkerRow] /\ Crew' /\ Owners' /\ Cancels' /\ Bounded'
    BY RowStep
  <1>2. Fresh'
    BY FreshStep
  <1>3. Typed'
    BY <1>1 DEF IInv, Typed
  <1> QED  BY <1>1, <1>2, <1>3 DEF IInv

\* What the invariant says of one worker.
LEMMA RowFacts ==
    ASSUME IInv, NEW w \in Workers
    PROVE  /\ worker[w] \in WorkerRow
           /\ worker[w].conn # 0 => worker[w].pc \in Holding
           /\ worker[w].mine => ~probe.finished /\ worker[w].pc \in Asking /\ ~worker[w].idle
           /\ worker[w].mine /\ worker[w].ready /\ Awaited => probe.seenUp
           /\ worker[w].pc \in Unready => ~worker[w].ready
           /\ probe.finished \in BOOLEAN
  BY DEF IInv, Typed, Owners, Fresh, Answering, ProbeRow

LEMMA ParkStep ==
    ASSUME IInv, NEW w \in Workers, Park(w)
    PROVE  IInv'
  <1>1. PICK r : r = [worker[w] EXCEPT !.pc = "wait", !.idle = TRUE]
    OBVIOUS
  <1>2. /\ worker[w].pc = "start" /\ worker' = [worker EXCEPT ![w] = r] /\ serving' \in ServingStates
        /\ UNCHANGED <<up, caller, probe, current, abandoned, parked, open, tainted, closed, pgClosed>>
    BY <1>1 DEF Park, Become, backendVars, connVars, IInv, Typed
  <1>3. /\ r \in WorkerRow /\ r.pc = "wait" /\ r.counted = worker[w].counted /\ r.conn = worker[w].conn
        /\ r.attempted = worker[w].attempted /\ r.mine = worker[w].mine /\ r.ready = worker[w].ready
    BY <1>1, RowFacts DEF WorkerRow, Stages
  <1>4. ~worker[w].mine /\ ~worker[w].ready /\ worker[w].conn = 0
    BY <1>2, RowFacts DEF Asking, Unready, Holding
  <1> QED  BY <1>2, <1>3, <1>4, QuietStep DEF ActiveStages, Holding

LEMMA WakeStep ==
    ASSUME IInv, NEW w \in Workers, Wake(w)
    PROVE  IInv'
  <1>1. PICK r : r = [worker[w] EXCEPT !.pc = "woken", !.requested = FALSE]
    OBVIOUS
  <1>2. /\ worker[w].pc = "wait" /\ worker' = [worker EXCEPT ![w] = r] /\ serving' \in ServingStates
        /\ UNCHANGED <<up, caller, probe, current, abandoned, parked, open, tainted, closed, pgClosed>>
    BY <1>1 DEF Wake, Become, backendVars, connVars, IInv, Typed
  <1>3. /\ r \in WorkerRow /\ r.pc = "woken" /\ r.counted = worker[w].counted /\ r.conn = worker[w].conn
        /\ r.attempted = worker[w].attempted /\ r.mine = worker[w].mine /\ r.ready = worker[w].ready
    BY <1>1, RowFacts DEF WorkerRow, Stages
  <1>4. ~worker[w].mine /\ ~worker[w].ready /\ worker[w].conn = 0
    BY <1>2, RowFacts DEF Asking, Unready, Holding
  <1> QED  BY <1>2, <1>3, <1>4, QuietStep DEF ActiveStages, Holding

LEMMA ReadStep ==
    ASSUME IInv, NEW w \in Workers, Read(w)
    PROVE  IInv'
  <1>1. PICK r : r = (IF closed \/ worker[w].counted THEN [[worker[w] EXCEPT !.idle = FALSE] EXCEPT !.pc = "exit"]
                      ELSE IF probe.finished THEN [[worker[w] EXCEPT !.idle = FALSE] EXCEPT !.pc = "start"]
                      ELSE [[worker[w] EXCEPT !.idle = FALSE] EXCEPT !.pc = "check", !.mine = TRUE])
    OBVIOUS
  <1>2. /\ worker[w].pc = "woken" /\ worker' = [worker EXCEPT ![w] = r] /\ serving' \in ServingStates
        /\ UNCHANGED <<up, caller, probe, current, abandoned, parked, open, tainted, closed, pgClosed>>
    BY <1>1, Zenon DEF Read, Become, backendVars, connVars, IInv, Typed
  <1>3. ~worker[w].mine /\ ~worker[w].ready /\ worker[w].conn = 0 /\ worker[w] \in WorkerRow
    BY <1>2, RowFacts DEF Asking, Unready, Holding
  <1>4. /\ r \in WorkerRow /\ r.pc \in {"exit", "start", "check"} /\ r.counted = worker[w].counted
        /\ r.conn = worker[w].conn /\ r.attempted = worker[w].attempted /\ r.ready = worker[w].ready
        /\ r.mine => r.pc = "check" /\ ~r.idle /\ ~probe.finished /\ ~closed /\ ~worker[w].counted
    <2>1. CASE closed \/ worker[w].counted
      BY <1>1, <1>3, <2>1 DEF WorkerRow, Stages
    <2>2. CASE ~(closed \/ worker[w].counted) /\ probe.finished
      BY <1>1, <1>3, <2>2 DEF WorkerRow, Stages
    <2>3. CASE ~(closed \/ worker[w].counted) /\ ~probe.finished
      BY <1>1, <1>3, <2>3 DEF WorkerRow, Stages
    <2> QED  BY <2>1, <2>2, <2>3
  <1>5. r.mine => w = current
    BY <1>2, <1>4 DEF IInv, Crew, Uncounted
  <1> QED  BY <1>2, <1>3, <1>4, <1>5, QuietStep DEF ActiveStages, Holding, Asking

LEMMA QueryStep ==
    ASSUME IInv, NEW w \in Workers, Query(w)
    PROVE  IInv'
  <1>1. /\ worker[w].pc = "query" /\ serving' \in ServingStates
        /\ UNCHANGED <<up, caller, probe, current, abandoned, parked, open, tainted, closed, pgClosed>>
    <2>1. serving \in ServingStates
      BY DEF IInv, Typed
    <2>2. worker[w].pc = "query" /\ UNCHANGED <<backendVars, probe, connVars>> /\ \E row : Become(w, row)
      BY Zenon DEF Query
    <2>3. UNCHANGED <<caller, current, abandoned, closed, pgClosed>>
      BY <2>2, Zenon DEF Become
    <2> QED  BY <2>1, <2>2, <2>3 DEF backendVars, connVars
  <1>2. /\ worker[w] \in WorkerRow /\ ~worker[w].ready
        /\ worker[w].mine => ~probe.finished /\ ~worker[w].idle
    BY <1>1, RowFacts DEF Unready
  <1>3. worker[w].mine /\ up /\ Awaited => probe.seenUp
    BY <1>2 DEF IInv, Fresh
  <1>4. CASE up /\ Become(w, [worker[w] EXCEPT !.pc = "checkin", !.ready = TRUE, !.reusable = TRUE])
    <2>1. PICK r : r = [worker[w] EXCEPT !.pc = "checkin", !.ready = TRUE, !.reusable = TRUE]
      OBVIOUS
    <2>2. worker' = [worker EXCEPT ![w] = r]
      BY <1>4, <2>1 DEF Become
    <2>3. /\ r \in WorkerRow /\ r.pc = "checkin" /\ r.counted = worker[w].counted /\ r.conn = worker[w].conn
          /\ r.attempted = worker[w].attempted /\ r.mine = worker[w].mine /\ r.idle = worker[w].idle
      BY <1>2, <2>1 DEF WorkerRow, Stages
    <2> QED  BY <1>1, <1>2, <1>3, <1>4, <2>2, <2>3, QuietStep DEF ActiveStages, Holding, Asking, Unready
  <1>5. ASSUME NEW answered \in BOOLEAN, Become(w, [worker[w] EXCEPT !.pc = "checkin", !.reusable = answered])
        PROVE  IInv'
    <2>1. PICK r : r = [worker[w] EXCEPT !.pc = "checkin", !.reusable = answered]
      OBVIOUS
    <2>2. worker' = [worker EXCEPT ![w] = r]
      BY <1>5, <2>1 DEF Become
    <2>3. /\ r \in WorkerRow /\ r.pc = "checkin" /\ r.counted = worker[w].counted /\ r.conn = worker[w].conn
          /\ r.attempted = worker[w].attempted /\ r.mine = worker[w].mine /\ r.idle = worker[w].idle
          /\ r.ready = worker[w].ready
      BY <1>2, <2>1 DEF WorkerRow, Stages
    <2> QED  BY <1>1, <1>2, <2>2, <2>3, QuietStep DEF ActiveStages, Holding, Asking
  <1>6. CASE Become(w, [worker[w] EXCEPT !.pc = "wedged"])
    <2>1. PICK r : r = [worker[w] EXCEPT !.pc = "wedged"]
      OBVIOUS
    <2>2. worker' = [worker EXCEPT ![w] = r]
      BY <1>6, <2>1 DEF Become
    <2>3. /\ r \in WorkerRow /\ r.pc = "wedged" /\ r.counted = worker[w].counted /\ r.conn = worker[w].conn
          /\ r.attempted = worker[w].attempted /\ r.mine = worker[w].mine /\ r.idle = worker[w].idle
          /\ r.ready = worker[w].ready
      BY <1>2, <2>1 DEF WorkerRow, Stages
    <2> QED  BY <1>1, <1>2, <2>2, <2>3, QuietStep DEF ActiveStages, Holding, Asking
  <1> QED  BY <1>4, <1>5, <1>6, Zenon DEF Query

LEMMA CheckServingStep ==
    ASSUME IInv, NEW w \in Workers, CheckServing(w)
    PROVE  IInv'
  <1>1. PICK ok : ok = (AfterUse = "open")
    OBVIOUS
  <1>2. ok \in BOOLEAN /\ (ok => up) /\ AfterUse \in ServingStates
    BY <1>1 DEF AfterUse, ServingStates
  <1>3. PICK r : r = [worker[w] EXCEPT !.pc = "done", !.ready = ok]
    OBVIOUS
  <1>4. /\ worker[w].pc = "serving" /\ worker' = [worker EXCEPT ![w] = r] /\ serving' \in ServingStates
        /\ UNCHANGED <<up, caller, probe, current, abandoned, parked, open, tainted, closed, pgClosed>>
    BY <1>1, <1>2, <1>3, Zenon DEF CheckServing, Become, connVars
  <1>5. /\ worker[w] \in WorkerRow /\ worker[w].conn = 0
        /\ worker[w].mine => ~probe.finished /\ ~worker[w].idle
    BY <1>4, RowFacts DEF Holding
  <1>6. worker[w].mine /\ up /\ Awaited => probe.seenUp
    BY <1>5 DEF IInv, Fresh
  <1>7. /\ r \in WorkerRow /\ r.pc = "done" /\ r.counted = worker[w].counted /\ r.conn = worker[w].conn
        /\ r.attempted = worker[w].attempted /\ r.mine = worker[w].mine /\ r.idle = worker[w].idle /\ r.ready = ok
    BY <1>2, <1>3, <1>5 DEF WorkerRow, Stages
  <1> QED  BY <1>2, <1>4, <1>5, <1>6, <1>7, QuietStep DEF ActiveStages, Holding, Asking, Unready

\* The one worker that has read the probe finishes it.
LEMMA ReportStep ==
    ASSUME IInv, NEW w \in Workers, Report(w)
    PROVE  IInv'
  <1>1. PICK pc \in {"wait", "exit"} :
          worker' = [worker EXCEPT ![w] = [[worker[w] EXCEPT !.mine = FALSE, !.ready = FALSE, !.idle = TRUE]
                                            EXCEPT !.pc = pc]]
    <2>1. CASE Become(w, [[worker[w] EXCEPT !.mine = FALSE, !.ready = FALSE, !.idle = TRUE] EXCEPT !.pc = "wait"])
      BY <2>1, Zenon DEF Become
    <2>2. CASE Become(w, [[worker[w] EXCEPT !.mine = FALSE, !.ready = FALSE, !.idle = TRUE] EXCEPT !.pc = "exit"])
      BY <2>2, Zenon DEF Become
    <2> QED  BY <2>1, <2>2, Zenon DEF Report
  <1>2. PICK r : r = [[worker[w] EXCEPT !.mine = FALSE, !.ready = FALSE, !.idle = TRUE] EXCEPT !.pc = pc]
    OBVIOUS
  <1>3. worker' = [worker EXCEPT ![w] = r]
    BY <1>1, <1>2, Zenon
  <1>4. /\ worker[w].pc = "done"
        /\ UNCHANGED <<up, serving, caller, current, abandoned, parked, open, tainted, closed, pgClosed>>
    BY DEF Report, Become, backendVars, connVars
  <1>5. worker[w] \in WorkerRow /\ worker[w].conn = 0
    BY <1>4, RowFacts DEF Holding
  <1>6. /\ r \in WorkerRow /\ r.pc = pc /\ r.counted = worker[w].counted /\ r.conn = worker[w].conn
        /\ r.attempted = worker[w].attempted /\ ~r.mine /\ ~r.ready
    BY <1>2, <1>5 DEF WorkerRow, Stages
  <1>7. worker' \in [Workers -> WorkerRow] /\ Crew' /\ Owners' /\ Cancels' /\ Bounded'
    BY <1>3, <1>4, <1>5, <1>6, RowStep DEF ActiveStages
  <1>8. CASE probe' = probe
    <2>1. Typed'
      BY <1>4, <1>7, <1>8 DEF IInv, Typed
    <2>2. Fresh'
      BY <1>3, <1>4, <1>6, <1>8, FreshStep
    <2> QED  BY <1>7, <2>1, <2>2 DEF IInv
  <1>9. CASE worker[w].mine /\ probe' # probe
    <2>1. /\ worker'[w] = r /\ \A v \in Workers \ {w} : worker'[v] = worker[v]
      BY <1>3, <1>6, RowChange DEF IInv
    <2>2. \A v \in Workers : ~worker'[v].mine
      <3>1. ASSUME NEW v \in Workers, v # w, worker[v].mine  PROVE FALSE
        BY <1>9, <3>1 DEF IInv, Fresh, Sole
      <3> QED  BY <1>6, <2>1, <3>1
    <2>3. \A v \in Workers : worker'[v].pc \in Unready => ~worker'[v].ready
      BY <1>6, <2>1, RowFacts
    <2>4. probe' \in ProbeRow /\ probe'.finished /\ (probe'.ready => probe'.seenUp /\ Awaited)
      <3>1. CASE worker[w].ready /\ Awaited
        <4>1. probe' = [probe EXCEPT !.finished = TRUE, !.expired = FALSE, !.ready = TRUE]
          BY <1>9, <3>1, Zenon DEF Report, AnswersProbe, Awaited
        <4>2. probe.seenUp /\ probe \in ProbeRow
          BY <1>9, <3>1, RowFacts DEF IInv, Typed
        <4> QED  BY <3>1, <4>1, <4>2 DEF ProbeRow
      <3>2. CASE ~(worker[w].ready /\ Awaited)
        <4>1. probe' = NoProbe
          BY <1>9, <3>2, Zenon DEF Report, AnswersProbe, Awaited
        <4> QED  BY <4>1 DEF NoProbe, ProbeRow
      <3> QED  BY <3>1, <3>2
    <2>5. Fresh'
      <3>1. Awaited' = Awaited
        BY <1>4 DEF Awaited
      <3> QED  BY <2>2, <2>3, <2>4, <3>1 DEF Fresh, Sole
    <2>6. Typed'
      BY <1>4, <1>7, <2>4 DEF IInv, Typed
    <2> QED  BY <1>7, <2>5, <2>6 DEF IInv
  <1>10. worker[w].mine \/ probe' = probe
    BY Zenon DEF Report, AnswersProbe
  <1> QED  BY <1>8, <1>9, <1>10

\* A call takes the parked connection.
LEMMA CheckStep ==
    ASSUME IInv, NEW w \in Workers, Check(w)
    PROVE  IInv'
  <1>1. /\ worker[w].pc = "check"
        /\ UNCHANGED <<up, serving, caller, probe, current, abandoned, open, tainted, closed, pgClosed>>
    BY DEF Check, TakeParked, Become, backendVars
  <1>2. /\ worker[w] \in WorkerRow /\ worker[w].conn = 0 /\ ~worker[w].ready
        /\ worker[w].mine => ~probe.finished /\ ~worker[w].idle
    BY <1>1, RowFacts DEF Holding, Unready
  <1>3. serving' \in ServingStates /\ parked \in Conns \cup {0} /\ tainted \subseteq Conns /\ 0 \notin Conns
    BY <1>1, ReadinessAssumption DEF IInv, Typed
  <1>4. CASE Become(w, [worker[w] EXCEPT !.pc = "done"]) /\ UNCHANGED parked
    <2>1. PICK r : r = [worker[w] EXCEPT !.pc = "done"]
      OBVIOUS
    <2>2. worker' = [worker EXCEPT ![w] = r]
      BY <1>4, <2>1, Zenon DEF Become
    <2>3. /\ r \in WorkerRow /\ r.pc = "done" /\ r.counted = worker[w].counted /\ r.conn = worker[w].conn
          /\ r.attempted = worker[w].attempted /\ r.mine = worker[w].mine /\ r.idle = worker[w].idle
          /\ r.ready = worker[w].ready
      BY <1>2, <2>1 DEF WorkerRow, Stages
    <2> QED  BY <1>1, <1>2, <1>3, <1>4, <2>2, <2>3, QuietStep DEF ActiveStages, Holding, Asking
  <1>5. CASE TakeParked(w)
    <2>1. PICK pc : pc = (IF parked = 0 THEN "connect" ELSE "query")
      OBVIOUS
    <2>2. PICK r : r = [worker[w] EXCEPT !.pc = pc, !.conn = parked]
      OBVIOUS
    <2>3. worker' = [worker EXCEPT ![w] = r] /\ parked' = 0
      BY <1>5, <2>1, <2>2, Zenon DEF TakeParked, Become
    <2>4. /\ r \in WorkerRow /\ r.pc = pc /\ r.counted = worker[w].counted /\ r.conn = parked
          /\ r.attempted = worker[w].attempted /\ r.mine = worker[w].mine /\ r.idle = worker[w].idle
          /\ r.ready = worker[w].ready
      BY <1>2, <1>3, <2>1, <2>2 DEF WorkerRow, Stages
    <2>5. /\ worker' \in [Workers -> WorkerRow] /\ worker'[w] = r
          /\ \A v \in Workers \ {w} : worker'[v] = worker[v]
      BY <2>3, <2>4, RowChange DEF IInv
    <2>6. Crew' /\ Counted' = Counted
      BY <1>1, <2>1, <2>3, <2>4, CrewStep
    <2>7. Bounded'
      BY <1>1, <2>3, <2>6 DEF IInv, Bounded
    <2>8. Cancels'
      BY <1>1, <1>3, <2>3, <2>4, <2>5 DEF IInv, Cancels
    <2>9. Owners'
      <3>1. \A v \in Workers : worker'[v].conn # 0 => worker'[v].pc \in Holding /\ worker'[v].conn # parked'
        BY <2>1, <2>3, <2>4, <2>5 DEF IInv, Owners, Holding
      <3>2. \A u, v \in Workers : u # v /\ worker'[u].conn # 0 => worker'[u].conn # worker'[v].conn
        BY <2>4, <2>5 DEF IInv, Owners
      <3>3. \A c \in Conns : c \in open <=> c = parked' \/ \E v \in Workers : worker'[v].conn = c
        <4>1. ASSUME NEW c \in Conns
              PROVE  c = parked \/ (\E v \in Workers : worker[v].conn = c) <=> \E v \in Workers : worker'[v].conn = c
          BY <1>2, <1>3, <2>4, <2>5
        <4> QED  BY <1>3, <2>3, <4>1 DEF IInv, Owners
      <3> QED  BY <1>1, <3>1, <3>2, <3>3 DEF Owners
    <2>10. Fresh'
      BY <1>1, <1>2, <2>1, <2>3, <2>4, FreshStep DEF Asking
    <2>11. Typed'
      BY <1>1, <2>3, <2>5 DEF IInv, Typed
    <2> QED  BY <2>6, <2>7, <2>8, <2>9, <2>10, <2>11 DEF IInv
  <1> QED  BY <1>4, <1>5, Zenon DEF Check

\* A call opens a connection of its own.
LEMMA ConnectStep ==
    ASSUME IInv, NEW w \in Workers, Connect(w)
    PROVE  IInv'
  <1>1. /\ worker[w].pc = "connect"
        /\ UNCHANGED <<up, serving, caller, probe, current, abandoned, parked, tainted, closed, pgClosed>>
    BY DEF Connect, Become, backendVars
  <1>2. /\ worker[w] \in WorkerRow /\ worker[w].conn = 0 /\ ~worker[w].ready
        /\ worker[w].mine => ~probe.finished /\ ~worker[w].idle
    BY <1>1, RowFacts DEF Holding, Unready
  <1>3. /\ serving' \in ServingStates /\ parked \in Conns \cup {0} /\ 0 \notin Conns
        /\ open \subseteq Conns /\ tainted \subseteq open
    BY <1>1, ReadinessAssumption DEF IInv, Typed
  <1>4. CASE Become(w, [worker[w] EXCEPT !.pc = "checkin"]) /\ UNCHANGED open
    <2>1. PICK r : r = [worker[w] EXCEPT !.pc = "checkin"]
      OBVIOUS
    <2>2. worker' = [worker EXCEPT ![w] = r]
      BY <1>4, <2>1, Zenon DEF Become
    <2>3. /\ r \in WorkerRow /\ r.pc = "checkin" /\ r.counted = worker[w].counted /\ r.conn = worker[w].conn
          /\ r.attempted = worker[w].attempted /\ r.mine = worker[w].mine /\ r.idle = worker[w].idle
          /\ r.ready = worker[w].ready
      BY <1>2, <2>1 DEF WorkerRow, Stages
    <2> QED  BY <1>1, <1>2, <1>3, <1>4, <2>2, <2>3, QuietStep DEF ActiveStages, Holding, Asking
  <1>5. CASE Become(w, [worker[w] EXCEPT !.pc = "query", !.conn = FreshConn]) /\ open' = open \cup {FreshConn}
    <2>1. PICK x : x = FreshConn
      OBVIOUS
    <2>2. x \in Conns /\ x \notin open /\ x # 0 /\ open' = open \cup {x}
      BY <1>1, <1>3, <1>5, <2>1, ConnToOpen DEF IInv
    <2>3. PICK r : r = [worker[w] EXCEPT !.pc = "query", !.conn = x]
      OBVIOUS
    <2>4. worker' = [worker EXCEPT ![w] = r]
      BY <1>5, <2>1, <2>3, Zenon DEF Become
    <2>5. /\ r \in WorkerRow /\ r.pc = "query" /\ r.counted = worker[w].counted /\ r.conn = x
          /\ r.attempted = worker[w].attempted /\ r.mine = worker[w].mine /\ r.idle = worker[w].idle
          /\ r.ready = worker[w].ready
      BY <1>2, <2>2, <2>3 DEF WorkerRow, Stages
    <2>6. /\ worker' \in [Workers -> WorkerRow] /\ worker'[w] = r
          /\ \A v \in Workers \ {w} : worker'[v] = worker[v]
      BY <2>4, <2>5, RowChange DEF IInv
    <2>7. Crew' /\ Counted' = Counted
      BY <1>1, <2>4, <2>5, CrewStep
    <2>8. InCall' = InCall
      BY <1>1, <2>5, <2>6 DEF InCall, ActiveStages
    <2>9. Bounded'
      BY <1>1, <2>7, <2>8 DEF IInv, Bounded
    <2>10. Cancels'
      BY <1>1, <1>3, <2>2, <2>5, <2>6 DEF IInv, Cancels
    <2>11. Owners'
      <3>1. parked # x /\ \A v \in Workers : worker[v].conn # x
        BY <2>2 DEF IInv, Owners
      <3>2. \A v \in Workers : worker'[v].conn # 0 => worker'[v].pc \in Holding /\ worker'[v].conn # parked
        BY <2>5, <2>6, <3>1 DEF IInv, Owners, Holding
      <3>3. \A u, v \in Workers : u # v /\ worker'[u].conn # 0 => worker'[u].conn # worker'[v].conn
        BY <2>2, <2>5, <2>6, <3>1 DEF IInv, Owners
      <3>4. \A c \in Conns : c \in open' <=> c = parked \/ \E v \in Workers : worker'[v].conn = c
        <4>1. ASSUME NEW c \in Conns
              PROVE  (\E v \in Workers : worker'[v].conn = c) <=> c = x \/ \E v \in Workers : worker[v].conn = c
          BY <1>2, <1>3, <2>5, <2>6
        <4> QED  BY <2>2, <4>1 DEF IInv, Owners
      <3> QED  BY <1>1, <3>2, <3>3, <3>4 DEF Owners
    <2>12. Fresh'
      BY <1>1, <1>2, <2>4, <2>5, FreshStep DEF Asking
    <2>13. Typed'
      BY <1>1, <1>3, <2>2, <2>6 DEF IInv, Typed
    <2> QED  BY <2>7, <2>9, <2>10, <2>11, <2>12, <2>13 DEF IInv
  <1> QED  BY <1>4, <1>5, Zenon DEF Connect

\* A call gives its connection up: to the next one, if nobody tried to cancel it.
LEMMA CheckInStep ==
    ASSUME IInv, NEW w \in Workers, CheckIn(w)
    PROVE  IInv'
  <1>1. /\ worker[w].pc = "checkin"
        /\ UNCHANGED <<up, serving, caller, probe, current, abandoned, closed, pgClosed>>
    BY DEF CheckIn, backendVars
  <1>2. /\ worker[w] \in WorkerRow
        /\ worker[w].mine => ~probe.finished /\ ~worker[w].idle
        /\ worker[w].mine /\ worker[w].ready /\ Awaited => probe.seenUp
    BY <1>1, RowFacts
  <1>3. /\ serving' \in ServingStates /\ parked \in Conns \cup {0} /\ 0 \notin Conns
        /\ open \subseteq Conns /\ tainted \subseteq open /\ worker[w].conn \in Conns \cup {0}
    BY <1>1, <1>2, ReadinessAssumption DEF IInv, Typed, WorkerRow
  <1>4. PICK pc : pc = (IF worker[w].ready THEN "serving" ELSE "done")
    OBVIOUS
  <1>5. PICK r : r = [worker[w] EXCEPT !.pc = pc, !.conn = 0, !.attempted = FALSE, !.reusable = FALSE]
    OBVIOUS
  <1>6. worker' = [worker EXCEPT ![w] = r]
    BY <1>4, <1>5, Zenon DEF CheckIn
  <1>7. /\ r \in WorkerRow /\ r.pc = pc /\ r.counted = worker[w].counted /\ r.conn = 0
        /\ r.mine = worker[w].mine /\ r.idle = worker[w].idle /\ r.ready = worker[w].ready
    BY <1>2, <1>4, <1>5 DEF WorkerRow, Stages
  <1>8. /\ worker' \in [Workers -> WorkerRow] /\ worker'[w] = r
        /\ \A v \in Workers \ {w} : worker'[v] = worker[v]
    BY <1>6, <1>7, RowChange DEF IInv
  <1>9. Crew' /\ Counted' = Counted
    BY <1>1, <1>4, <1>6, <1>7, CrewStep
  <1>10. Fresh'
    BY <1>1, <1>2, <1>4, <1>6, <1>7, FreshStep DEF Asking, Unready
  <1>11. PICK x : x = worker[w].conn
    OBVIOUS
  <1>12. \/ x # 0 /\ parked = 0 /\ parked' = x /\ open' = open /\ tainted' = tainted /\ x \notin tainted
         \/ parked' = parked /\ open' = open \ {x} /\ tainted' = tainted \ {x}
    <2>1. CASE MayPark(w)
      <3>1. x # 0 /\ parked = 0 /\ parked' = x /\ open' = open /\ tainted' = tainted /\ ~worker[w].attempted
        BY <1>11, <2>1 DEF CheckIn, MayPark
      <3>2. x \notin tainted
        BY <1>11, <3>1 DEF IInv, Cancels
      <3> QED  BY <3>1, <3>2
    <2>2. CASE ~MayPark(w)
      BY <1>11, <2>2 DEF CheckIn
    <2> QED  BY <2>1, <2>2
  <1>13. Bounded'
    <2>1. InCall' = InCall \ {w} /\ w \in InCall
      BY <1>1, <1>4, <1>7, <1>8 DEF InCall, ActiveStages
    <2>2. /\ IsFiniteSet(InCall) /\ Cardinality(InCall) \in Nat /\ MaxAbandoned \in Nat
          /\ Cardinality(InCall) <= MaxAbandoned + (IF parked = 0 THEN 1 ELSE 0)
      BY CallBound, ReadinessAssumption DEF IInv
    <2>3. Cardinality(InCall \ {w}) = Cardinality(InCall) - 1
      BY <2>1, <2>2, FS_RemoveElement
    <2>4. Cardinality(InCall') <= MaxAbandoned
      BY <2>1, <2>2, <2>3
    <2> QED  BY <1>1, <1>9, <2>4 DEF IInv, Bounded
  <1>14. Owners' /\ Cancels' /\ Typed'
    <2>1. \A v \in Workers \ {w} : worker[v].conn # 0 => worker[v].conn # x
      BY <1>11 DEF IInv, Owners
    <2>2. \A v \in Workers : worker[v].conn # 0 => worker[v].pc \in Holding /\ worker[v].conn # parked
      BY DEF IInv, Owners
    <2>3. \A c \in Conns :
            /\ c \in open <=> c = parked \/ \E v \in Workers : worker[v].conn = c
            /\ (\E v \in Workers : worker'[v].conn = c) <=> \E v \in Workers \ {w} : worker[v].conn = c
            /\ (\E v \in Workers : worker[v].conn = c) <=> c = x \/ \E v \in Workers \ {w} : worker[v].conn = c
      <3>1. \A c \in Conns : (\E v \in Workers : worker'[v].conn = c)
                               <=> \E v \in Workers \ {w} : worker[v].conn = c
        BY <1>3, <1>7, <1>8
      <3> QED  BY <1>11, <3>1 DEF IInv, Owners
    <2>4. \A v \in Workers : worker'[v].conn # 0 => worker'[v].pc \in Holding /\ worker'[v].conn # parked'
      BY <1>7, <1>8, <1>12, <2>1, <2>2
    <2>5. \A u, v \in Workers : u # v /\ worker'[u].conn # 0 => worker'[u].conn # worker'[v].conn
      BY <1>7, <1>8 DEF IInv, Owners
    <2>6. \A c \in Conns : c \in open' <=> c = parked' \/ \E v \in Workers : worker'[v].conn = c
      <3>1. ASSUME NEW c \in Conns
            PROVE  c \in open' <=> c = parked' \/ \E v \in Workers \ {w} : worker[v].conn = c
        <4>1. x = c => ~\E v \in Workers \ {w} : worker[v].conn = c
          BY <1>3, <2>1
        <4>2. x = c => c # parked
          BY <1>3, <1>11, <2>2
        <4> QED  BY <1>3, <1>12, <2>3, <4>1, <4>2
      <3> QED  BY <2>3, <3>1
    <2>7. Owners'
      BY <2>4, <2>5, <2>6 DEF Owners
    <2>8. Typed'
      BY <1>1, <1>3, <1>8, <1>11, <1>12 DEF IInv, Typed
    <2>9. Cancels'
      <3>1. parked' \notin tainted'
        BY <1>12 DEF IInv, Cancels
      <3>2. \A v \in Workers : worker'[v].conn \in tainted' => worker'[v].attempted
        BY <1>3, <1>7, <1>8, <1>12 DEF IInv, Cancels
      <3> QED  BY <3>1, <3>2 DEF Cancels
    <2> QED  BY <2>7, <2>8, <2>9
  <1> QED  BY <1>9, <1>10, <1>13, <1>14 DEF IInv

\* A thread is gone, and no longer counted.
LEMMA ExitStep ==
    ASSUME IInv, NEW w \in Workers, Exit(w)
    PROVE  IInv'
  <1>1. /\ worker[w].pc = "exit" /\ worker' = [worker EXCEPT ![w] = NoWorker]
        /\ UNCHANGED <<up, serving, caller, probe, parked, open, tainted, closed, pgClosed>>
    BY DEF Exit, backendVars, connVars
  <1>2. worker[w].conn = 0 /\ ~worker[w].mine /\ worker[w] \in WorkerRow
    BY <1>1, RowFacts DEF Holding, Asking
  <1>3. PICK r : r = NoWorker
    OBVIOUS
  <1>4. /\ r \in WorkerRow /\ r.pc = "none" /\ ~r.counted /\ r.conn = 0 /\ ~r.mine /\ ~r.ready
    BY <1>3 DEF NoWorker, WorkerRow, Stages
  <1>5. worker' = [worker EXCEPT ![w] = r]
    BY <1>1, <1>3
  <1>6. /\ worker' \in [Workers -> WorkerRow] /\ worker'[w] = r
        /\ \A v \in Workers \ {w} : worker'[v] = worker[v]
    BY <1>4, <1>5, RowChange DEF IInv
  <1>7. current' = (IF current = w THEN 0 ELSE current) /\ 0 \notin Workers /\ 0 \notin Conns
    BY ReadinessAssumption DEF Exit
  <1>8. Fresh'
    BY <1>1, <1>4, <1>5, <1>7, FreshStep
  <1>9. Crew'
    <2>1. \A v \in Workers : Uncounted(v)' <=> v # w /\ Uncounted(v)
      BY <1>4, <1>6 DEF Uncounted
    <2>2. \A v \in Workers : worker'[v].pc = "none" => worker'[v] = NoWorker
      BY <1>3, <1>6 DEF IInv, Crew
    <2>3. current' # 0 => worker'[current'].pc # "none" /\ ~worker'[current'].counted
      <3>1. current' # 0 => current' = current /\ current # w /\ current \in Workers
        BY <1>7 DEF IInv, Typed
      <3> QED  BY <1>6, <3>1 DEF IInv, Crew, Uncounted
    <2>4. \A v \in Workers : Uncounted(v)' /\ ~closed => v = current'
      BY <1>7, <2>1 DEF IInv, Crew
    <2>5. \A u, v \in Workers : Uncounted(u)' /\ Uncounted(v)' => u = v
      BY <2>1 DEF IInv, Crew
    <2>6. (current # 0 => Uncounted(current))'
      BY <2>3 DEF Uncounted
    <2> QED  BY <1>1, <2>2, <2>4, <2>5, <2>6 DEF Crew
  <1>10. Owners'
    <2>1. \A v \in Workers : worker'[v].conn # 0 => worker'[v].pc \in Holding /\ worker'[v].conn # parked
      BY <1>4, <1>6 DEF IInv, Owners
    <2>2. \A u, v \in Workers : u # v /\ worker'[u].conn # 0 => worker'[u].conn # worker'[v].conn
      BY <1>4, <1>6 DEF IInv, Owners
    <2>3. \A c \in Conns : (\E v \in Workers : worker'[v].conn = c) <=> \E v \in Workers : worker[v].conn = c
      BY <1>2, <1>4, <1>6
    <2>4. \A c \in Conns : c \in open <=> c = parked \/ \E v \in Workers : worker'[v].conn = c
      BY <2>3 DEF IInv, Owners
    <2> QED  BY <1>1, <2>1, <2>2, <2>4 DEF Owners
  <1>11. Cancels'
    <2>1. 0 \notin tainted
      BY <1>7 DEF IInv, Typed
    <2> QED  BY <1>1, <1>4, <1>6, <2>1 DEF IInv, Cancels
  <1>12. Bounded'
    <2>1. Counted' = Counted \ {w} /\ InCall' = InCall /\ Counted \in SUBSET Workers
      BY <1>1, <1>4, <1>6 DEF Counted, InCall, ActiveStages
    <2>2. IsFiniteSet(Counted) /\ Cardinality(Counted) \in Nat
      BY <2>1, Finite
    <2>3. Cardinality(Counted \ {w}) = IF w \in Counted THEN Cardinality(Counted) - 1 ELSE Cardinality(Counted)
      BY <2>2, FS_RemoveElement
    <2>4. abandoned' = IF w \in Counted THEN abandoned - 1 ELSE abandoned
      BY DEF Exit, Counted
    <2>5. MaxAbandoned \in Nat /\ abandoned = Cardinality(Counted) /\ abandoned <= MaxAbandoned
      BY ReadinessAssumption DEF IInv, Bounded
    <2>6. abandoned' = Cardinality(Counted') /\ abandoned' <= MaxAbandoned
      BY <2>1, <2>2, <2>3, <2>4, <2>5
    <2> QED  BY <1>1, <2>1, <2>6 DEF IInv, Bounded
  <1>13. Typed'
    BY <1>1, <1>6, <1>7 DEF IInv, Typed
  <1> QED  BY <1>8, <1>9, <1>10, <1>11, <1>12, <1>13 DEF IInv

-----------------------------------------------------------------------------
(***************************************************************************)
(* Callers that leave the workers alone, time, and the store.              *)
(***************************************************************************)
LEMMA FreshSame ==
    ASSUME IInv, UNCHANGED <<worker, probe, up, current>>, Awaited' <=> Awaited
    PROVE  Fresh'
  BY DEF IInv, Fresh, Answering, Sole

LEMMA SameCallers ==
    ASSUME IInv, NEW c \in Callers, caller[c] = "idle", GiveAnswer(c)
    PROVE  caller' = caller
  BY DEF IInv, Typed, GiveAnswer

LEMMA CallClosedStep ==
    ASSUME IInv, NEW c \in Callers, CallClosed(c) \/ CallAtLimit(c)
    PROVE  IInv'
  <1>1. /\ caller[c] = "idle" /\ GiveAnswer(c)
        /\ UNCHANGED <<up, serving, probe, current, worker, abandoned, parked, open, tainted, closed, pgClosed>>
    BY DEF CallClosed, CallAtLimit, backendVars, connVars
  <1>2. caller' = caller
    BY <1>1, SameCallers
  <1>3. Fresh'
    BY <1>1, <1>2, FreshSame DEF Awaited
  <1>4. Typed'
    BY <1>1, <1>2 DEF IInv, Typed
  <1> QED  BY <1>1, <1>3, <1>4, Standing DEF IInv

LEMMA CallJoinsStep ==
    ASSUME IInv, NEW c \in Callers, CallJoins(c)
    PROVE  IInv'
  <1>1. /\ caller' = [caller EXCEPT ![c] = "waiting"] /\ ~probe.finished /\ ~probe.expired
        /\ UNCHANGED <<up, serving, probe, current, worker, abandoned, parked, open, tainted, closed, pgClosed>>
    BY DEF CallJoins, Joinable, backendVars, connVars
  <1>2. caller' \in [Callers -> CallerStates] /\ caller'[c] = "waiting"
    BY <1>1 DEF IInv, Typed, CallerStates
  <1>3. Awaited /\ Awaited'
    BY <1>1, <1>2 DEF IInv, Fresh, Awaited
  <1>4. Fresh'
    BY <1>1, <1>3, FreshSame
  <1>5. Typed'
    BY <1>1, <1>2 DEF IInv, Typed
  <1> QED  BY <1>1, <1>4, <1>5, Standing DEF IInv

\* An answer is given, and forgotten by the last who waited for it.
LEMMA AnswerStep ==
    ASSUME IInv, NEW c \in Callers, NEW ready, AnswerWith(c, ready)
    PROVE  IInv'
  <1>1. /\ caller' = [caller EXCEPT ![c] = "idle"]
        /\ UNCHANGED <<up, serving, current, worker, abandoned, parked, open, tainted, closed, pgClosed>>
    BY DEF AnswerWith, GiveAnswer, backendVars, connVars
  <1>2. /\ caller' \in [Callers -> CallerStates] /\ caller'[c] = "idle"
        /\ \A d \in Callers \ {c} : caller'[d] = caller[d]
    BY <1>1 DEF IInv, Typed, CallerStates
  <1>3. probe \in ProbeRow
    BY DEF IInv, Typed
  <1>4. probe' \in ProbeRow /\ Fresh'
    <2>1. CASE \E d \in Callers \ {c} : caller[d] = "waiting"
      <3>1. probe' = probe
        BY <2>1 DEF AnswerWith
      <3>2. Awaited /\ Awaited'
        BY <1>2, <2>1 DEF Awaited
      <3> QED  BY <1>1, <1>3, <3>1, <3>2, FreshSame
    <2>2. CASE (\A d \in Callers \ {c} : caller[d] # "waiting") /\ probe.finished
      <3>1. probe' = NoProbe
        BY <2>2 DEF AnswerWith
      <3>2. probe' \in ProbeRow /\ probe'.finished /\ ~probe'.ready
        BY <3>1 DEF NoProbe, ProbeRow
      <3>3. \A v \in Workers : ~worker[v].mine
        BY <2>2, RowFacts
      <3> QED  BY <1>1, <3>2, <3>3 DEF IInv, Fresh, Sole
    <2>3. CASE (\A d \in Callers \ {c} : caller[d] # "waiting") /\ ~probe.finished
      <3>1. probe' = [probe EXCEPT !.seenUp = FALSE]
        BY <2>3, Zenon DEF AnswerWith
      <3>2. /\ probe' \in ProbeRow /\ probe'.finished = probe.finished /\ probe'.expired = probe.expired
            /\ probe'.ready = probe.ready
        BY <1>3, <3>1 DEF ProbeRow
      <3>3. ~Awaited'
        BY <1>2, <2>3 DEF Awaited
      <3>4. probe.expired /\ ~probe.ready
        <4>1. CASE caller[c] = "waiting"
          BY <2>3, <4>1 DEF AnswerWith, IInv, Fresh
        <4>2. CASE caller[c] # "waiting"
          <5>1. ~Awaited
            BY <2>3, <4>2 DEF Awaited
          <5> QED  BY <2>3, <5>1 DEF IInv, Fresh
        <4> QED  BY <4>1, <4>2
      <3>5. \A v \in Workers : worker'[v].mine => Answering(v)'
        BY <1>1, <3>2 DEF IInv, Fresh, Answering
      <3> QED  BY <1>1, <2>3, <3>2, <3>3, <3>4, <3>5 DEF IInv, Fresh, Sole
    <2> QED  BY <1>3, <2>1, <2>2, <2>3 DEF ProbeRow
  <1>5. Typed'
    BY <1>1, <1>2, <1>4 DEF IInv, Typed
  <1> QED  BY <1>1, <1>4, <1>5, Standing DEF IInv

LEMMA ExpireStep ==
    ASSUME IInv, Expire
    PROVE  IInv'
  <1>1. /\ probe' = [probe EXCEPT !.expired = TRUE] /\ ~probe.finished
        /\ UNCHANGED <<up, serving, caller, current, worker, abandoned, parked, open, tainted, closed, pgClosed>>
    BY DEF Expire, Joinable, backendVars, connVars
  <1>2. /\ probe' \in ProbeRow /\ probe'.finished = probe.finished /\ probe'.expired
        /\ probe'.ready = probe.ready /\ probe'.seenUp = probe.seenUp
    BY <1>1 DEF IInv, Typed, ProbeRow
  <1>3. Awaited' = Awaited
    BY <1>1 DEF Awaited
  <1>4. Fresh'
    BY <1>1, <1>2, <1>3 DEF IInv, Fresh, Answering, Sole
  <1>5. Typed'
    BY <1>1, <1>2 DEF IInv, Typed
  <1> QED  BY <1>1, <1>4, <1>5, Standing DEF IInv

LEMMA StoreStep ==
    ASSUME IInv, Outage \/ StoreReturns \/ Request \/ EndRequest
    PROVE  IInv'
  <1>1. UNCHANGED <<caller, current, worker, abandoned, parked, open, tainted, closed, pgClosed>>
    BY DEF Outage, StoreReturns, Request, EndRequest, connVars
  <1>2. Awaited' = Awaited
    BY <1>1 DEF Awaited
  <1>3. CASE Outage
    <2>1. up' = FALSE /\ UNCHANGED <<serving, probe>>
      BY <1>3 DEF Outage
    <2>2. Fresh'
      BY <1>1, <1>2, <2>1 DEF IInv, Fresh, Answering, Sole
    <2>3. Typed'
      BY <1>1, <2>1 DEF IInv, Typed
    <2> QED  BY <1>1, <2>2, <2>3, Standing DEF IInv
  <1>4. CASE StoreReturns
    <2>1. PICK seen : seen = Awaited
      OBVIOUS
    <2>2. up' = TRUE /\ UNCHANGED serving /\ probe' = [probe EXCEPT !.seenUp = seen]
      BY <1>4, <2>1 DEF StoreReturns, Awaited
    <2>3. /\ probe' \in ProbeRow /\ probe'.finished = probe.finished /\ probe'.expired = probe.expired
          /\ probe'.ready = probe.ready /\ probe'.seenUp = Awaited
      BY <2>1, <2>2 DEF IInv, Typed, ProbeRow, Awaited
    <2>4. Fresh'
      BY <1>1, <1>2, <2>2, <2>3 DEF IInv, Fresh, Answering, Sole
    <2>5. Typed'
      BY <1>1, <2>2, <2>3 DEF IInv, Typed
    <2> QED  BY <1>1, <2>4, <2>5, Standing DEF IInv
  <1>5. CASE Request \/ EndRequest
    <2>1. UNCHANGED <<up, probe>> /\ serving' \in ServingStates
      BY <1>5 DEF Request, EndRequest, AfterUse, ServingStates
    <2>2. Fresh'
      BY <1>1, <1>2, <2>1, FreshSame
    <2>3. Typed'
      BY <1>1, <2>1 DEF IInv, Typed
    <2> QED  BY <1>1, <2>2, <2>3, Standing DEF IInv
  <1> QED  BY <1>3, <1>4, <1>5

(***************************************************************************)
(* Calls that get a worker going.                                          *)
(***************************************************************************)
\* While there is a current worker, only it can have read the probe.
LEMMA OnlyCurrentAnswers ==
    ASSUME IInv, current # 0, NEW v \in Workers, worker[v].mine
    PROVE  v = current /\ ~worker[v].idle
  BY RowFacts DEF IInv, Fresh, Sole

LEMMA NewProbeFacts ==
    ASSUME IInv, NEW c \in Callers, NewProbe(c)
    PROVE  /\ probe' \in ProbeRow /\ ~probe'.finished /\ ~probe'.ready /\ probe'.seenUp = up
           /\ caller' \in [Callers -> CallerStates] /\ Awaited'
  <1>1. probe' = [finished |-> FALSE, ready |-> FALSE, expired |-> FALSE, seenUp |-> up]
    BY DEF NewProbe, NoProbe
  <1>2. up \in BOOLEAN /\ caller \in [Callers -> CallerStates]
    BY DEF IInv, Typed
  <1>3. caller' \in [Callers -> CallerStates] /\ caller'[c] = "waiting"
    BY <1>2 DEF NewProbe, CallerStates, ProbeOutcome
  <1> QED  BY <1>1, <1>2, <1>3 DEF ProbeRow, Awaited

\* A new probe that nobody has read yet.
LEMMA FreshProbe ==
    ASSUME IInv, NEW c \in Callers, NewProbe(c), up' = up, worker' \in [Workers -> WorkerRow],
           \A v \in Workers : ~worker'[v].mine,
           \A v \in Workers : worker'[v].pc \in Unready => ~worker'[v].ready
    PROVE  Fresh'
  <1>1. ~probe'.ready /\ probe'.seenUp = up /\ Awaited'
    BY NewProbeFacts
  <1> QED  BY <1>1 DEF Fresh, Sole

LEMMA CallReusesStep ==
    ASSUME IInv, NEW c \in Callers, CallReusesWorker(c)
    PROVE  IInv'
  <1>1. /\ ~closed /\ current # 0 /\ worker[current].idle /\ NewProbe(c)
        /\ worker' = [worker EXCEPT ![current].requested = TRUE]
        /\ UNCHANGED <<up, serving, current, abandoned, parked, open, tainted, closed, pgClosed>>
    BY DEF CallReusesWorker, backendVars, connVars
  <1>2. PICK w \in Workers : w = current
    BY <1>1 DEF IInv, Typed
  <1>3. worker[w].pc # "none" /\ worker[w] \in WorkerRow
    BY <1>1, <1>2, RowFacts DEF IInv, Crew, Uncounted
  <1>4. PICK r : r = [worker[w] EXCEPT !.requested = TRUE]
    OBVIOUS
  <1>5. worker' = [worker EXCEPT ![w] = r]
    <2>1. worker \in [Workers -> WorkerRow]
      BY DEF IInv, Typed
    <2> QED  BY <1>1, <1>2, <1>4, <2>1, Zenon
  <1>6. /\ r \in WorkerRow /\ r.pc = worker[w].pc /\ r.counted = worker[w].counted /\ r.conn = worker[w].conn
        /\ r.attempted = worker[w].attempted /\ r.mine = worker[w].mine /\ r.ready = worker[w].ready
    BY <1>3, <1>4 DEF WorkerRow
  <1>7. worker' \in [Workers -> WorkerRow] /\ Crew' /\ Owners' /\ Cancels' /\ Bounded'
    BY <1>1, <1>3, <1>5, <1>6, RowStep
  <1>8. worker'[w] = r /\ \A v \in Workers \ {w} : worker'[v] = worker[v]
    BY <1>5, <1>6, RowChange DEF IInv
  <1>9. \A v \in Workers : ~worker'[v].mine
    <2>1. \A v \in Workers : ~worker[v].mine
      BY <1>1, <1>2, OnlyCurrentAnswers
    <2> QED  BY <1>6, <1>8, <2>1
  <1>10. \A v \in Workers : worker'[v].pc \in Unready => ~worker'[v].ready
    BY <1>6, <1>8, RowFacts
  <1>11. Fresh'
    BY <1>1, <1>7, <1>9, <1>10, FreshProbe
  <1>12. Typed'
    BY <1>1, <1>7, NewProbeFacts DEF IInv, Typed
  <1> QED  BY <1>7, <1>11, <1>12 DEF IInv

\* What abandoning the current worker makes of the rows.
LEMMA AbandonRows ==
    ASSUME IInv
    PROVE  /\ Abandon \in [Workers -> WorkerRow]
           /\ \A v \in Workers :
                 /\ Abandon[v].pc = worker[v].pc /\ Abandon[v].conn = worker[v].conn
                 /\ Abandon[v].attempted = worker[v].attempted /\ Abandon[v].ready = worker[v].ready
                 /\ Abandon[v].idle = worker[v].idle /\ Abandon[v].mine = worker[v].mine
                 /\ v # current => Abandon[v] = worker[v]
                 /\ v = current => Abandon[v].counted
  <1>1. worker \in [Workers -> WorkerRow] /\ current \in Workers \cup {0} /\ 0 \notin Workers
    BY ReadinessAssumption DEF IInv, Typed
  <1>2. CASE current = 0
    BY <1>1, <1>2 DEF Abandon
  <1>3. CASE current # 0
    <2>1. PICK w \in Workers : w = current
      BY <1>1, <1>3
    <2>2. PICK r : r = [worker[w] EXCEPT !.requested = TRUE, !.counted = TRUE]
      OBVIOUS
    <2>3. Abandon = [worker EXCEPT ![w] = r]
      BY <1>1, <1>3, <2>1, <2>2, Zenon DEF Abandon
    <2>4. /\ r \in WorkerRow /\ r.pc = worker[w].pc /\ r.conn = worker[w].conn /\ r.attempted = worker[w].attempted
          /\ r.ready = worker[w].ready /\ r.idle = worker[w].idle /\ r.counted
          /\ r.mine = worker[w].mine
      BY <1>1, <2>2 DEF WorkerRow
    <2>5. /\ Abandon \in [Workers -> WorkerRow] /\ Abandon[w] = r
          /\ \A v \in Workers \ {w} : Abandon[v] = worker[v]
      BY <1>1, <2>3, <2>4
    <2> QED  BY <2>1, <2>4, <2>5
  <1> QED  BY <1>2, <1>3

\* The current worker is counted, once.
LEMMA AbandonCounts ==
    ASSUME IInv, Counted' = Counted \cup ({current} \ {0}), current # 0 => abandoned < MaxAbandoned,
           abandoned' = (IF current = 0 THEN abandoned ELSE abandoned + 1), InCall' = InCall, parked' = parked
    PROVE  Bounded'
  <1>1. Counted \in SUBSET Workers
    BY DEF Counted
  <1>2. IsFiniteSet(Counted) /\ Cardinality(Counted) \in Nat /\ MaxAbandoned \in Nat
    BY <1>1, Finite, ReadinessAssumption
  <1>3. abandoned = Cardinality(Counted) /\ abandoned <= MaxAbandoned
    BY DEF IInv, Bounded
  <1>4. CASE current = 0
    <2>1. Counted' = Counted
      BY <1>4
    <2> QED  BY <1>4, <2>1 DEF IInv, Bounded
  <1>5. CASE current # 0
    <2>1. Counted' = Counted \cup {current} /\ current \notin Counted
      BY <1>5 DEF IInv, Crew, Uncounted, Counted
    <2>2. Cardinality(Counted') = Cardinality(Counted) + 1
      BY <1>2, <2>1, FS_AddElement
    <2>3. abandoned' = Cardinality(Counted') /\ abandoned' <= MaxAbandoned
      BY <1>2, <1>3, <1>5, <2>2
    <2> QED  BY <2>3 DEF IInv, Bounded
  <1> QED  BY <1>4, <1>5

LEMMA CallCannotStartStep ==
    ASSUME IInv, NEW c \in Callers, CallCannotStart(c)
    PROVE  IInv'
  <1>1. /\ ~closed /\ caller[c] = "idle" /\ GiveAnswer(c) /\ worker' = Abandon /\ current' = 0
        /\ current # 0 => ~AtLimit
        /\ UNCHANGED <<up, serving, probe, parked, open, tainted, closed, pgClosed>>
    BY DEF CallCannotStart, backendVars, connVars
  <1>2. abandoned' = (IF current = 0 THEN abandoned ELSE abandoned + 1)
    BY DEF CallCannotStart, CountAbandoned
  <1>3. caller' = caller
    BY <1>1, SameCallers
  <1>4. /\ worker' \in [Workers -> WorkerRow]
        /\ \A v \in Workers :
              /\ worker'[v].pc = worker[v].pc /\ worker'[v].conn = worker[v].conn
              /\ worker'[v].attempted = worker[v].attempted /\ worker'[v].ready = worker[v].ready
              /\ worker'[v].idle = worker[v].idle /\ worker'[v].mine = worker[v].mine
              /\ v # current => worker'[v] = worker[v]
              /\ v = current => worker'[v].counted
    BY <1>1, AbandonRows
  <1>5. current \in Workers \cup {0} /\ 0 \notin Workers
    BY ReadinessAssumption DEF IInv, Typed
  <1>6. Crew'
    <2>1. \A v \in Workers : ~Uncounted(v)'
      BY <1>1, <1>4 DEF IInv, Crew, Uncounted
    <2>2. \A v \in Workers : worker'[v].pc = "none" => worker'[v] = NoWorker
      <3>1. \A v \in Workers : worker[v].pc = "none" => v # current /\ worker[v] = NoWorker
        BY <1>5 DEF IInv, Crew, Uncounted
      <3> QED  BY <1>4, <3>1
    <2> QED  BY <1>1, <2>1, <2>2 DEF Crew
  <1>7. Owners' /\ Cancels'
    <2>1. Owners'
      BY <1>1, <1>4 DEF IInv, Owners
    <2>2. Cancels'
      BY <1>1, <1>4 DEF IInv, Cancels
    <2> QED  BY <2>1, <2>2
  <1>8. Bounded'
    <2>1. Counted' = Counted \cup ({current} \ {0}) /\ InCall' = InCall
      BY <1>4, <1>5 DEF Counted, InCall
    <2>2. current # 0 => abandoned < MaxAbandoned
      <3>1. abandoned \in Int /\ MaxAbandoned \in Int
        <4>1. Counted \in SUBSET Workers
          BY DEF Counted
        <4> QED  BY <4>1, Finite, ReadinessAssumption DEF IInv, Bounded
      <3> QED  BY <1>1, <3>1 DEF AtLimit
    <2> QED  BY <1>1, <1>2, <2>1, <2>2, AbandonCounts
  <1>9. Fresh'
    <2>1. Awaited' = Awaited
      BY <1>3 DEF Awaited
    <2>2. \A v \in Workers : worker'[v].mine => Answering(v)'
      BY <1>1, <1>4 DEF IInv, Fresh, Answering
    <2>3. \A v \in Workers : worker'[v].pc \in Unready => ~worker'[v].ready
      BY <1>4, RowFacts
    <2>4. \A v \in Workers : worker'[v].mine /\ worker'[v].ready /\ Awaited => probe.seenUp
      BY <1>4, RowFacts
    <2>5. Sole'
      BY <1>1, <1>4 DEF IInv, Fresh, Sole
    <2> QED  BY <1>1, <2>1, <2>2, <2>3, <2>4, <2>5 DEF IInv, Fresh
  <1>10. Typed'
    BY <1>1, <1>3, <1>4 DEF IInv, Typed
  <1> QED  BY <1>6, <1>7, <1>8, <1>9, <1>10 DEF IInv

\* What a new probe makes of them.
LEMMA SupersedeRows ==
    ASSUME IInv, NEW rows \in [Workers -> WorkerRow]
    PROVE  /\ Supersede(rows) \in [Workers -> WorkerRow]
           /\ \A v \in Workers :
                 /\ Supersede(rows)[v].pc = rows[v].pc /\ Supersede(rows)[v].conn = rows[v].conn
                 /\ Supersede(rows)[v].attempted = rows[v].attempted /\ Supersede(rows)[v].ready = rows[v].ready
                 /\ Supersede(rows)[v].counted = rows[v].counted
                 /\ ~Supersede(rows)[v].mine
                 /\ ~rows[v].mine => Supersede(rows)[v] = rows[v]
  <1>1. PICK f : f = Supersede(rows)
    OBVIOUS
  <1>2. f = [v \in Workers |-> f[v]] /\ \A v \in Workers : f[v] = [rows[v] EXCEPT !.mine = FALSE]
    BY <1>1, Zenon DEF Supersede
  <1>3. ASSUME NEW v \in Workers
        PROVE  /\ f[v] \in WorkerRow /\ f[v].pc = rows[v].pc /\ f[v].conn = rows[v].conn
               /\ f[v].attempted = rows[v].attempted /\ f[v].ready = rows[v].ready
               /\ f[v].counted = rows[v].counted /\ ~f[v].mine
               /\ ~rows[v].mine => f[v] = rows[v]
    <2>1. PICK row : row = rows[v]
      OBVIOUS
    <2>2. row \in WorkerRow /\ f[v] = [row EXCEPT !.mine = FALSE]
      BY <1>2, <2>1
    <2>3. ~row.mine => [row EXCEPT !.mine = FALSE] = row
      BY <2>2 DEF WorkerRow
    <2> QED  BY <2>1, <2>2, <2>3 DEF WorkerRow
  <1>4. f \in [Workers -> WorkerRow]
    BY <1>2, <1>3
  <1> QED  BY <1>1, <1>3, <1>4

LEMMA CallStartsStep ==
    ASSUME IInv, NEW c \in Callers, CallStartsWorker(c)
    PROVE  IInv'
  <1>1. /\ ~closed /\ NewProbe(c) /\ current' = FreshWorker
        /\ current # 0 => ~AtLimit
        /\ worker' = [Supersede(Abandon) EXCEPT ![FreshWorker] = [NoWorker EXCEPT !.pc = "start", !.requested = TRUE]]
        /\ UNCHANGED <<up, serving, parked, open, tainted, closed, pgClosed>>
    BY DEF CallStartsWorker, backendVars, connVars
  <1>2. abandoned' = (IF current = 0 THEN abandoned ELSE abandoned + 1)
    BY DEF CallStartsWorker, CountAbandoned
  <1>3. current \in Workers \cup {0} /\ 0 \notin Workers /\ 0 \notin Conns /\ tainted \subseteq Conns
    BY ReadinessAssumption DEF IInv, Typed
  <1>4. current = 0 \/ abandoned < MaxAbandoned
    <2>1. abandoned \in Int /\ MaxAbandoned \in Int
      <3>1. Counted \in SUBSET Workers
        BY DEF Counted
      <3> QED  BY <3>1, Finite, ReadinessAssumption DEF IInv, Bounded
    <2> QED  BY <1>1, <2>1 DEF AtLimit
  <1>5. PICK w \in Workers : w = FreshWorker /\ worker[w].pc = "none"
    BY <1>1, <1>4, WorkerToStart DEF IInv
  <1>6. PICK r : r = [NoWorker EXCEPT !.pc = "start", !.requested = TRUE]
    OBVIOUS
  <1>7. r \in WorkerRow /\ r.pc = "start" /\ ~r.counted /\ ~r.mine /\ ~r.ready /\ r.conn = 0
    <2>1. NoWorker \in WorkerRow
      BY DEF NoWorker, WorkerRow, Stages
    <2>2. ~NoWorker.counted /\ ~NoWorker.mine /\ ~NoWorker.ready /\ NoWorker.conn = 0
      BY DEF NoWorker
    <2>3. /\ r \in WorkerRow /\ r.pc = "start" /\ r.counted = NoWorker.counted /\ r.mine = NoWorker.mine
          /\ r.ready = NoWorker.ready /\ r.conn = NoWorker.conn
      BY <1>6, <2>1 DEF WorkerRow, Stages
    <2> QED  BY <2>2, <2>3
  <1>8. worker[w] = NoWorker
    BY <1>5 DEF IInv, Crew
  <1>9. w # current /\ worker[w].conn = 0 /\ ~worker[w].counted
    <2>1. current # 0 => worker[current].pc # "none"
      BY DEF IInv, Crew, Uncounted
    <2> QED  BY <1>3, <1>5, <1>8, <2>1 DEF NoWorker
  <1>10. worker' = [Supersede(Abandon) EXCEPT ![w] = r] /\ current' = w
    BY <1>1, <1>5, <1>6, Zenon
  <1>11. /\ worker' \in [Workers -> WorkerRow] /\ worker'[w] = r
         /\ \A v \in Workers \ {w} :
              /\ worker'[v].pc = worker[v].pc /\ worker'[v].conn = worker[v].conn
              /\ worker'[v].attempted = worker[v].attempted /\ worker'[v].ready = worker[v].ready
              /\ ~worker'[v].mine
              /\ v # current => worker'[v].counted = worker[v].counted
              /\ v # current /\ ~worker[v].mine => worker'[v] = worker[v]
              /\ v = current => worker'[v].counted
    <2>1. PICK left \in [Workers -> WorkerRow] : left = Abandon
      BY AbandonRows
    <2>2. PICK rows : rows = Supersede(left)
      OBVIOUS
    <2>3. /\ rows \in [Workers -> WorkerRow]
          /\ \A v \in Workers :
                /\ rows[v].pc = left[v].pc /\ rows[v].conn = left[v].conn
                /\ rows[v].attempted = left[v].attempted /\ rows[v].ready = left[v].ready
                /\ rows[v].counted = left[v].counted /\ ~rows[v].mine
                /\ ~left[v].mine => rows[v] = left[v]
      BY <2>1, <2>2, SupersedeRows
    <2>4. \A v \in Workers :
            /\ left[v].pc = worker[v].pc /\ left[v].conn = worker[v].conn
            /\ left[v].attempted = worker[v].attempted /\ left[v].ready = worker[v].ready
            /\ v # current => left[v] = worker[v]
            /\ v = current => left[v].counted
      BY <2>1, AbandonRows
    <2>5. worker' = [rows EXCEPT ![w] = r]
      BY <1>10, <2>1, <2>2
    <2>6. /\ worker' \in [Workers -> WorkerRow] /\ worker'[w] = r
          /\ \A v \in Workers \ {w} : worker'[v] = rows[v]
      BY <1>7, <2>3, <2>5
    <2> QED  BY <2>3, <2>4, <2>6
  <1>12. Crew'
    <2>1. \A v \in Workers : Uncounted(v)' <=> v = w
      <3>1. Uncounted(w)'
        BY <1>7, <1>11 DEF Uncounted
      <3>2. ASSUME NEW v \in Workers \ {w}, Uncounted(v)'  PROVE FALSE
        <4>1. v # current /\ worker'[v].pc = worker[v].pc /\ worker'[v].counted = worker[v].counted
          BY <1>11, <3>2 DEF Uncounted
        <4>2. Uncounted(v)
          BY <3>2, <4>1 DEF Uncounted
        <4> QED  BY <1>1, <4>1, <4>2 DEF IInv, Crew
      <3> QED  BY <3>1, <3>2
    <2>2. \A v \in Workers : worker'[v].pc = "none" => worker'[v] = NoWorker
      <3>1. \A v \in Workers : worker[v].pc = "none" => v # current /\ worker[v] = NoWorker
        BY <1>3 DEF IInv, Crew, Uncounted
      <3>2. \A v \in Workers : worker[v].pc = "none" => ~worker[v].mine
        BY RowFacts DEF Asking
      <3> QED  BY <1>7, <1>11, <3>1, <3>2
    <2>3. worker'[w].pc # "none" /\ ~worker'[w].counted
      BY <1>7, <1>11
    <2>4. (current # 0 => Uncounted(current))'
      BY <1>10, <2>3 DEF Uncounted
    <2>5. \A v \in Workers : Uncounted(v)' => v = current'
      BY <1>10, <2>1
    <2>6. \A u, v \in Workers : Uncounted(u)' /\ Uncounted(v)' => u = v
      BY <2>1
    <2> QED  BY <2>2, <2>4, <2>5, <2>6 DEF Crew
  <1>13. \A v \in Workers : worker'[v].conn = worker[v].conn /\ (worker[v].conn # 0 => worker'[v].pc = worker[v].pc)
    BY <1>7, <1>9, <1>11
  <1>14. Owners'
    BY <1>1, <1>13 DEF IInv, Owners
  <1>15. Cancels'
    <2>1. \A v \in Workers : worker'[v].conn \in tainted => worker'[v].attempted
      BY <1>3, <1>7, <1>11 DEF IInv, Cancels
    <2> QED  BY <1>1, <2>1 DEF IInv, Cancels
  <1>16. Bounded'
    <2>1. InCall' = InCall
      BY <1>5, <1>7, <1>11 DEF InCall, ActiveStages
    <2>2. Counted' = Counted \cup ({current} \ {0})
      BY <1>3, <1>7, <1>9, <1>11 DEF Counted
    <2> QED  BY <1>1, <1>2, <1>4, <2>1, <2>2, AbandonCounts
  <1>17. Fresh'
    <2>1. \A v \in Workers : ~worker'[v].mine
      BY <1>7, <1>11
    <2>2. \A v \in Workers : worker'[v].pc \in Unready => ~worker'[v].ready
      BY <1>7, <1>11, RowFacts
    <2> QED  BY <1>1, <1>11, <2>1, <2>2, FreshProbe
  <1>18. Typed'
    BY <1>1, <1>10, <1>11, NewProbeFacts DEF IInv, Typed
  <1> QED  BY <1>12, <1>14, <1>15, <1>16, <1>17, <1>18 DEF IInv

(***************************************************************************)
(* Cancels and shutdown, which touch many workers at once.                 *)
(***************************************************************************)
Alike ==
    /\ worker' \in [Workers -> WorkerRow]
    /\ \A v \in Workers :
          /\ worker[v].pc = "none" => worker'[v] = worker[v]
          /\ worker'[v].pc = worker[v].pc \/ (worker[v].pc \in {"query", "wedged"} /\ worker'[v].pc = "checkin")
          /\ worker'[v].counted = worker[v].counted /\ worker'[v].conn = worker[v].conn
          /\ worker'[v].mine = worker[v].mine /\ worker'[v].ready = worker[v].ready
          /\ worker'[v].idle = worker[v].idle
          /\ worker[v].attempted => worker'[v].attempted

LEMMA AlikeFresh ==
    ASSUME IInv, Alike, UNCHANGED <<up, caller, probe>>, current' \in {current, 0}
    PROVE  Fresh'
  <1>1. Awaited' = Awaited
    BY DEF Awaited
  <1>2. \A v \in Workers : worker'[v].mine => Answering(v)'
    <2>1. ASSUME NEW v \in Workers, worker'[v].mine  PROVE Answering(v)'
      <3>1. ~probe.finished /\ worker[v].pc \in Asking /\ ~worker[v].idle
        BY <2>1, RowFacts DEF Alike
      <3>2. worker'[v].pc \in Asking
        BY <3>1 DEF Alike, Asking
      <3>3. ~worker'[v].idle
        BY <3>1 DEF Alike
      <3> QED  BY <3>1, <3>2, <3>3 DEF Answering
    <2> QED  BY <2>1
  <1>3. \A v \in Workers : worker'[v].mine /\ worker'[v].ready /\ Awaited => probe.seenUp
    BY RowFacts DEF Alike
  <1>4. \A v \in Workers : worker'[v].pc \in Unready => ~worker'[v].ready
    <2>1. \A v \in Workers : worker'[v].pc \in Unready => worker[v].pc \in Unready
      BY DEF Alike, Unready
    <2> QED  BY <2>1, RowFacts DEF Alike
  <1>5. Sole'
    BY DEF Alike, IInv, Fresh, Sole
  <1> QED  BY <1>1, <1>2, <1>3, <1>4, <1>5 DEF IInv, Fresh

LEMMA AlikeCrew ==
    ASSUME IInv, Alike, UNCHANGED <<current, closed>> \/ (current' = 0 /\ closed' = TRUE)
    PROVE  Crew'
  <1>1. \A v \in Workers : worker'[v].pc = "none" <=> worker[v].pc = "none"
    BY DEF Alike
  <1>2. \A v \in Workers : Uncounted(v)' <=> Uncounted(v)
    BY <1>1 DEF Alike, Uncounted
  <1>3. \A v \in Workers : worker'[v].pc = "none" => worker'[v] = NoWorker
    BY <1>1 DEF IInv, Crew, Alike
  <1>4. current \in Workers \cup {0}
    BY DEF IInv, Typed
  <1>5. (current # 0 => Uncounted(current))'
    <2>1. CASE current' = current /\ current # 0
      <3>1. current \in Workers /\ worker[current].pc # "none" /\ ~worker[current].counted
        BY <1>4, <2>1 DEF IInv, Crew, Uncounted
      <3>2. worker'[current].pc # "none" /\ ~worker'[current].counted
        BY <1>1, <3>1 DEF Alike
      <3> QED  BY <2>1, <3>2 DEF Uncounted
    <2> QED  BY <2>1
  <1>6. (~closed => \A w \in Workers : Uncounted(w) => w = current)'
    BY <1>2 DEF IInv, Crew
  <1>7. \A u, v \in Workers : Uncounted(u)' /\ Uncounted(v)' => u = v
    BY <1>2 DEF IInv, Crew
  <1> QED  BY <1>3, <1>5, <1>6, <1>7 DEF Crew

LEMMA AlikeCounts ==
    ASSUME IInv, Alike
    PROVE  Counted' = Counted /\ InCall' = InCall
  BY DEF Alike, Counted, InCall, ActiveStages

LEMMA AlikeOwners ==
    ASSUME IInv, Alike, UNCHANGED <<parked, open>>
    PROVE  Owners'
  <1>1. \A v \in Workers : worker'[v].conn = worker[v].conn
    BY DEF Alike
  <1>2. \A v \in Workers : worker'[v].conn # 0 => worker'[v].pc \in Holding /\ worker'[v].conn # parked
    BY DEF Alike, IInv, Owners, Holding
  <1>3. \A u, v \in Workers : u # v /\ worker'[u].conn # 0 => worker'[u].conn # worker'[v].conn
    BY <1>1 DEF IInv, Owners
  <1>4. \A c \in Conns : c \in open <=> c = parked \/ \E v \in Workers : worker'[v].conn = c
    BY <1>1 DEF IInv, Owners
  <1> QED  BY <1>2, <1>3, <1>4 DEF Owners

\* Attempting to cancel calls marks them, and nothing else.
LEMMA AttemptRows ==
    ASSUME IInv, NEW targets \in SUBSET Workers
    PROVE  /\ Attempt(targets) \in [Workers -> WorkerRow]
           /\ \A v \in Workers :
                /\ Attempt(targets)[v].pc = worker[v].pc
                /\ v \notin targets => Attempt(targets)[v] = worker[v]
                /\ Attempt(targets)[v].counted = worker[v].counted /\ Attempt(targets)[v].conn = worker[v].conn
                /\ Attempt(targets)[v].mine = worker[v].mine /\ Attempt(targets)[v].ready = worker[v].ready
                /\ Attempt(targets)[v].idle = worker[v].idle
                /\ Attempt(targets)[v].attempted <=> (worker[v].attempted \/ v \in targets)
  <1>1. worker \in [Workers -> WorkerRow]
    BY DEF IInv, Typed
  <1>2. ASSUME NEW v \in Workers
        PROVE  /\ Attempt(targets)[v] \in WorkerRow /\ Attempt(targets)[v].pc = worker[v].pc
               /\ v \notin targets => Attempt(targets)[v] = worker[v]
               /\ Attempt(targets)[v].counted = worker[v].counted /\ Attempt(targets)[v].conn = worker[v].conn
               /\ Attempt(targets)[v].mine = worker[v].mine /\ Attempt(targets)[v].ready = worker[v].ready
               /\ Attempt(targets)[v].idle = worker[v].idle
               /\ Attempt(targets)[v].attempted <=> (worker[v].attempted \/ v \in targets)
    <2>1. CASE v \in targets
      <3>1. PICK r : r = [worker[v] EXCEPT !.attempted = TRUE]
        OBVIOUS
      <3>2. Attempt(targets)[v] = r
        BY <2>1, <3>1, Zenon DEF Attempt
      <3>3. /\ r \in WorkerRow /\ r.pc = worker[v].pc /\ r.counted = worker[v].counted /\ r.conn = worker[v].conn
            /\ r.mine = worker[v].mine /\ r.ready = worker[v].ready /\ r.idle = worker[v].idle /\ r.attempted
        BY <1>1, <3>1 DEF WorkerRow
      <3> QED  BY <2>1, <3>2, <3>3
    <2>2. CASE v \notin targets
      <3>1. Attempt(targets)[v] = worker[v]
        BY <2>2, Zenon DEF Attempt
      <3> QED  BY <1>1, <2>2, <3>1
    <2> QED  BY <2>1, <2>2
  <1>3. Attempt(targets) = [v \in Workers |-> Attempt(targets)[v]]
    BY Zenon DEF Attempt
  <1>4. Attempt(targets) \in [Workers -> WorkerRow]
    <2>1. PICK f : f = Attempt(targets)
      OBVIOUS
    <2>2. f = [v \in Workers |-> f[v]] /\ \A v \in Workers : f[v] \in WorkerRow
      BY <1>2, <1>3, <2>1, Zenon
    <2>3. f \in [Workers -> WorkerRow]
      BY <2>2
    <2> QED  BY <2>1, <2>3
  <1> QED  BY <1>2, <1>4

\* Calls that a cancel is sent for have a connection, and are marked.
LEMMA MarkedAreTainted ==
    ASSUME IInv, NEW targets \in SUBSET Holders, NEW marked,
           marked = tainted \cup {worker[w].conn : w \in targets},
           \A v \in Workers : worker'[v].conn = worker[v].conn,
           \A v \in Workers : worker'[v].attempted <=> (worker[v].attempted \/ v \in targets)
    PROVE  /\ marked \subseteq open /\ parked \notin marked
           /\ \A v \in Workers : worker'[v].conn \in marked => worker'[v].attempted
  <1>1. ASSUME NEW w \in targets
        PROVE  worker[w].conn \in open /\ worker[w].conn # parked /\ worker[w].conn # 0 /\ w \in Workers
    <2>1. w \in Workers /\ worker[w].conn # 0 /\ worker[w].conn \in Conns
      BY RowFacts DEF Holders, WorkerRow
    <2> QED  BY <2>1 DEF IInv, Owners
  <1>2. marked \subseteq open /\ parked \notin marked
    BY <1>1 DEF IInv, Typed, Cancels
  <1>3. ASSUME NEW v \in Workers, worker'[v].conn \in marked  PROVE worker'[v].attempted
    <2>1. CASE worker[v].conn \in tainted
      BY <2>1 DEF IInv, Cancels
    <2>2. ASSUME NEW w \in targets, worker[v].conn = worker[w].conn  PROVE worker'[v].attempted
      <3>1. v = w
        BY <1>1, <2>2 DEF IInv, Owners
      <3> QED  BY <3>1
    <2> QED  BY <1>3, <2>1, <2>2
  <1> QED  BY <1>2, <1>3

LEMMA TargetsHold ==
    ASSUME IInv
    PROVE  Targets \in SUBSET Holders /\ Targets \in SUBSET Workers
  BY DEF Targets, Holders

LEMMA ReclaimStep ==
    ASSUME IInv, Reclaim
    PROVE  IInv'
  <1>1. UNCHANGED <<up, serving, caller, probe, current, abandoned, parked, open, closed, pgClosed>>
    BY DEF Reclaim, backendVars
  <1>2. CASE UNCHANGED <<tainted, worker>>
    <2>1. Fresh' /\ Typed'
      <3>1. Fresh'
        BY <1>1, <1>2, FreshSame DEF Awaited
      <3>2. Typed'
        BY <1>1, <1>2 DEF IInv, Typed
      <3> QED  BY <3>1, <3>2
    <2> QED  BY <1>1, <1>2, <2>1, Standing DEF IInv
  <1>3. CASE Send(Targets) /\ worker' = Attempt(Targets)
    <2>1. Alike /\ \A v \in Workers : worker'[v].attempted <=> (worker[v].attempted \/ v \in Targets)
      <3>1. \A v \in Targets : worker[v].pc # "none"
        BY DEF Targets, Overdue, ActiveStages
      <3> QED  BY <1>3, <3>1, TargetsHold, AttemptRows DEF Alike
    <2>2. PICK marked : marked = tainted \cup {worker[w].conn : w \in Targets}
      OBVIOUS
    <2>3. tainted' = marked
      BY <1>3, <2>2 DEF Send
    <2>4. /\ marked \subseteq open /\ parked \notin marked
          /\ \A v \in Workers : worker'[v].conn \in marked => worker'[v].attempted
      <3>1. \A v \in Workers : worker'[v].conn = worker[v].conn
        BY <2>1 DEF Alike
      <3>2. PICK targets \in SUBSET Holders : targets = Targets
        BY TargetsHold
      <3> QED  BY <2>1, <2>2, <3>1, <3>2, MarkedAreTainted
    <2>5. Cancels'
      BY <1>1, <2>3, <2>4 DEF Cancels
    <2>6. Crew' /\ Owners' /\ Fresh'
      BY <1>1, <2>1, AlikeCrew, AlikeOwners, AlikeFresh
    <2>7. Bounded'
      BY <1>1, <2>1, AlikeCounts DEF IInv, Bounded
    <2>8. Typed'
      BY <1>1, <2>1, <2>3, <2>4 DEF IInv, Typed, Alike
    <2> QED  BY <2>5, <2>6, <2>7, <2>8 DEF IInv
  <1> QED  BY <1>2, <1>3 DEF Reclaim

LEMMA CloseStep ==
    ASSUME IInv, Close
    PROVE  IInv'
  <1>1. /\ UNCHANGED <<up, serving, caller, probe, abandoned, parked, open, pgClosed>>
        /\ closed' = TRUE /\ current' = 0 /\ Send(Targets)
    BY DEF Close, backendVars
  <1>2. \A v \in Targets : worker[v].pc # "none"
    BY DEF Targets, Overdue, ActiveStages
  <1>3. PICK rows : rows = Attempt(Targets)
    OBVIOUS
  <1>4. /\ rows \in [Workers -> WorkerRow]
        /\ \A v \in Workers :
             /\ worker[v].pc = "none" => rows[v] = worker[v]
             /\ rows[v].pc = worker[v].pc
             /\ rows[v].counted = worker[v].counted /\ rows[v].conn = worker[v].conn
             /\ rows[v].mine = worker[v].mine /\ rows[v].ready = worker[v].ready
             /\ rows[v].idle = worker[v].idle
             /\ rows[v].attempted <=> (worker[v].attempted \/ v \in Targets)
    BY <1>2, <1>3, TargetsHold, AttemptRows
  <1>5. Alike /\ \A v \in Workers : worker'[v].attempted <=> (worker[v].attempted \/ v \in Targets)
    <2>1. CASE current = 0
      <3>1. worker' = rows
        BY <1>3, <2>1 DEF Close
      <3> QED  BY <1>4, <3>1 DEF Alike
    <2>2. CASE current # 0
      <3>1. PICK w \in Workers : w = current /\ worker[w].pc # "none"
        BY <2>2 DEF IInv, Typed, Crew, Uncounted
      <3>2. PICK r : r = [rows[w] EXCEPT !.requested = TRUE]
        OBVIOUS
      <3>3. worker' = [rows EXCEPT ![w] = r]
        <4>1. worker' = [rows EXCEPT ![w].requested = TRUE]
          BY <1>3, <2>2, <3>1, Zenon DEF Close
        <4> QED  BY <1>4, <3>2, <4>1, Zenon
      <3>4. /\ r \in WorkerRow /\ r.pc = rows[w].pc /\ r.counted = rows[w].counted /\ r.conn = rows[w].conn
            /\ r.mine = rows[w].mine /\ r.ready = rows[w].ready /\ r.idle = rows[w].idle
            /\ r.attempted = rows[w].attempted
        <4>1. PICK row \in WorkerRow : row = rows[w]
          BY <1>4
        <4>2. r = [row EXCEPT !.requested = TRUE]
          BY <3>2, <4>1
        <4> QED  BY <4>1, <4>2 DEF WorkerRow
      <3>5. /\ worker' \in [Workers -> WorkerRow] /\ worker'[w] = r
            /\ \A v \in Workers \ {w} : worker'[v] = rows[v]
        BY <1>4, <3>3, <3>4
      <3> QED  BY <1>4, <3>1, <3>4, <3>5 DEF Alike
    <2> QED  BY <2>1, <2>2
  <1>6. PICK marked : marked = tainted \cup {worker[w].conn : w \in Targets}
    OBVIOUS
  <1>7. tainted' = marked
    BY <1>1, <1>6 DEF Send
  <1>8. /\ marked \subseteq open /\ parked \notin marked
        /\ \A v \in Workers : worker'[v].conn \in marked => worker'[v].attempted
    <2>1. \A v \in Workers : worker'[v].conn = worker[v].conn
      BY <1>5 DEF Alike
    <2>2. PICK targets \in SUBSET Holders : targets = Targets
      BY TargetsHold
    <2> QED  BY <1>5, <1>6, <2>1, <2>2, MarkedAreTainted
  <1>9. Cancels'
    BY <1>1, <1>7, <1>8 DEF Cancels
  <1>10. Crew' /\ Owners' /\ Fresh'
    BY <1>1, <1>5, AlikeCrew, AlikeOwners, AlikeFresh
  <1>11. Bounded'
    BY <1>1, <1>5, AlikeCounts DEF IInv, Bounded
  <1>12. Typed'
    BY <1>1, <1>5, <1>7, <1>8 DEF IInv, Typed, Alike
  <1> QED  BY <1>9, <1>10, <1>11, <1>12 DEF IInv

\* The idle connection is closed, calls under way are cancelled.
LEMMA ClosePgStep ==
    ASSUME IInv, ClosePg
    PROVE  IInv'
  <1>1. PICK active : active = {w \in Workers : worker[w].pc \in ActiveStages /\ worker[w].conn # 0}
    OBVIOUS
  <1>2. /\ active \in SUBSET Holders /\ active \in SUBSET Workers
        /\ \A v \in active : worker[v].pc # "none"
    BY <1>1 DEF Holders, ActiveStages
  <1>3. PICK marked : marked = tainted \cup {worker[w].conn : w \in active}
    OBVIOUS
  <1>4. /\ UNCHANGED <<up, serving, caller, probe, current, abandoned, closed>>
        /\ pgClosed' = TRUE /\ worker' = Attempt(active) /\ tainted' = marked \ {parked}
        /\ parked' = 0 /\ open' = open \ {parked}
    BY <1>1, <1>3, Zenon DEF ClosePg, backendVars
  <1>5. Alike /\ \A v \in Workers : worker'[v].attempted <=> (worker[v].attempted \/ v \in active)
    BY <1>2, <1>4, AttemptRows DEF Alike
  <1>6. \A v \in Workers : worker'[v].conn = worker[v].conn
    BY <1>5 DEF Alike
  <1>7. /\ marked \subseteq open /\ parked \notin marked
        /\ \A v \in Workers : worker'[v].conn \in marked => worker'[v].attempted
    BY <1>2, <1>3, <1>5, <1>6, MarkedAreTainted
  <1>8. open \subseteq Conns /\ 0 \notin Conns
    BY ReadinessAssumption DEF IInv, Typed
  <1>9. Cancels'
    BY <1>4, <1>7, <1>8 DEF Cancels
  <1>10. Crew' /\ Fresh'
    BY <1>4, <1>5, AlikeCrew, AlikeFresh
  <1>11. Bounded'
    BY <1>4, <1>5, AlikeCounts DEF IInv, Bounded
  <1>12. Owners'
    <2>1. \A v \in Workers : worker[v].conn # 0 => worker[v].conn # parked
      BY DEF IInv, Owners
    <2>2. \A v \in Workers : worker'[v].conn # 0 => worker'[v].pc \in Holding /\ worker'[v].conn # parked'
      BY <1>4, <1>5 DEF Alike, IInv, Owners, Holding
    <2>3. \A u, v \in Workers : u # v /\ worker'[u].conn # 0 => worker'[u].conn # worker'[v].conn
      BY <1>6 DEF IInv, Owners
    <2>4. ASSUME NEW c \in Conns
          PROVE  c \in open' <=> c = parked' \/ \E v \in Workers : worker'[v].conn = c
      <3>1. c # 0
        BY <1>8
      <3>2. (\E v \in Workers : worker'[v].conn = c) <=> \E v \in Workers : worker[v].conn = c
        BY <1>6
      <3>3. c = parked => ~\E v \in Workers : worker[v].conn = c
        BY <2>1, <3>1
      <3>4. c \in open <=> c = parked \/ \E v \in Workers : worker[v].conn = c
        BY DEF IInv, Owners
      <3> QED  BY <1>4, <3>1, <3>2, <3>3, <3>4
    <2> QED  BY <2>2, <2>3, <2>4 DEF Owners
  <1>13. Typed'
    BY <1>4, <1>5, <1>7, <1>8 DEF IInv, Typed, Alike
  <1> QED  BY <1>9, <1>10, <1>11, <1>12, <1>13 DEF IInv

\* A cancel arrives.
LEMMA DeliverStep ==
    ASSUME IInv, NEW c, Deliver(c)
    PROVE  IInv'
  <1>1. UNCHANGED <<up, serving, caller, probe, current, abandoned, parked, open, tainted, closed, pgClosed>>
    BY DEF Deliver, backendVars, connVars
  <1>2. worker \in [Workers -> WorkerRow]
    BY DEF IInv, Typed
  <1>3. Alike
    <2>1. CASE worker' = worker
      BY <1>2, <2>1 DEF Alike
    <2>2. CASE worker' = [w \in Workers |->
                            IF worker[w].conn = c
                            THEN [worker[w] EXCEPT !.pc = IF @ \in {"query", "wedged"} THEN "checkin" ELSE @]
                            ELSE worker[w]]
      <3>1. ASSUME NEW v \in Workers
            PROVE  /\ worker'[v] \in WorkerRow
                   /\ worker[v].pc = "none" => worker'[v] = worker[v]
                   /\ \/ worker'[v].pc = worker[v].pc
                      \/ worker[v].pc \in {"query", "wedged"} /\ worker'[v].pc = "checkin"
                   /\ worker'[v].counted = worker[v].counted /\ worker'[v].conn = worker[v].conn
                   /\ worker'[v].mine = worker[v].mine /\ worker'[v].ready = worker[v].ready
                   /\ worker'[v].idle = worker[v].idle
                   /\ worker'[v].attempted = worker[v].attempted
        <4>1. CASE worker[v].conn = c
          <5>1. PICK pc : pc = (IF worker[v].pc \in {"query", "wedged"} THEN "checkin" ELSE worker[v].pc)
            OBVIOUS
          <5>2. PICK r : r = [worker[v] EXCEPT !.pc = pc]
            OBVIOUS
          <5>3. worker'[v] = r
            BY <2>2, <4>1, <5>1, <5>2, Zenon
          <5>4. /\ r \in WorkerRow /\ r.pc = pc /\ r.counted = worker[v].counted /\ r.conn = worker[v].conn
                /\ r.mine = worker[v].mine /\ r.ready = worker[v].ready /\ r.idle = worker[v].idle
                /\ r.attempted = worker[v].attempted
            BY <1>2, <5>1, <5>2 DEF WorkerRow, Stages
          <5>5. worker[v].pc = "none" => r = worker[v]
            BY <1>2, <5>1, <5>2 DEF WorkerRow
          <5> QED  BY <5>1, <5>3, <5>4, <5>5
        <4>2. CASE worker[v].conn # c
          <5>1. worker'[v] = worker[v]
            BY <2>2, <4>2, Zenon
          <5> QED  BY <1>2, <5>1
        <4> QED  BY <4>1, <4>2
      <3>2. worker' = [v \in Workers |-> worker'[v]]
        BY <2>2, Zenon
      <3>3. worker' \in [Workers -> WorkerRow]
        BY <3>1, <3>2
      <3> QED  BY <3>1, <3>3 DEF Alike
    <2> QED  BY <2>1, <2>2, Zenon DEF Deliver
  <1>4. Cancels'
    BY <1>1, <1>3 DEF IInv, Cancels, Alike
  <1>5. Crew' /\ Owners' /\ Fresh'
    BY <1>1, <1>3, AlikeCrew, AlikeOwners, AlikeFresh
  <1>6. Bounded'
    BY <1>1, <1>3, AlikeCounts DEF IInv, Bounded
  <1>7. Typed'
    BY <1>1, <1>3 DEF IInv, Typed, Alike
  <1> QED  BY <1>4, <1>5, <1>6, <1>7 DEF IInv

-----------------------------------------------------------------------------
LEMMA ReadinessStarts ==
    Init => IInv
  <1> SUFFICES ASSUME Init  PROVE IInv
    OBVIOUS
  <1>1. /\ up = TRUE /\ serving = "open" /\ probe = NoProbe /\ current = 0
        /\ caller = [c \in Callers |-> IF c \in Callers THEN "idle" ELSE "absent"]
        /\ worker = [w \in Workers |-> NoWorker] /\ abandoned = 0 /\ parked = 0 /\ open = {} /\ tainted = {}
        /\ closed = FALSE /\ pgClosed = FALSE
    BY DEF Init, InitFor
  <1>2. NoWorker \in WorkerRow /\ NoProbe \in ProbeRow /\ NoProbe.finished /\ ~NoProbe.ready
    BY DEF NoWorker, WorkerRow, Stages, NoProbe, ProbeRow
  <1>3. /\ NoWorker.pc = "none" /\ ~NoWorker.counted /\ ~NoWorker.mine /\ ~NoWorker.ready /\ NoWorker.conn = 0
    BY DEF NoWorker
  <1>4. Typed
    BY <1>1, <1>2 DEF Typed, ServingStates, CallerStates
  <1>5. Crew
    BY <1>1, <1>3 DEF Crew, Uncounted
  <1>6. Owners
    BY <1>1, <1>3, ReadinessAssumption DEF Owners
  <1>7. Cancels
    BY <1>1 DEF Cancels
  <1>8. Bounded
    <2>1. Counted = {}
      BY <1>1, <1>3 DEF Counted
    <2> QED  BY <1>1, <2>1, FS_EmptySet, ReadinessAssumption DEF Bounded
  <1>9. Fresh
    BY <1>1, <1>2, <1>3 DEF Fresh, Sole
  <1> QED  BY <1>4, <1>5, <1>6, <1>7, <1>8, <1>9 DEF IInv

LEMMA ReadinessNextHolds ==
    ASSUME IInv, [Next]_vars
    PROVE  IInv'
  <1>1. ASSUME NEW c \in Callers, CallerStep(c)  PROVE IInv'
    BY <1>1, CallClosedStep, CallJoinsStep, CallReusesStep, CallStartsStep, CallCannotStartStep, AnswerStep
       DEF CallerStep
  <1>2. ASSUME NEW w \in Workers, WorkerStep(w)  PROVE IInv'
    BY <1>2, ParkStep, WakeStep, ReadStep, CheckStep, ConnectStep, QueryStep, CheckInStep, CheckServingStep,
       ReportStep, ExitStep DEF WorkerStep
  <1>3. ASSUME NEW c \in sweep, Deliver(c)  PROVE IInv'
    BY <1>3, DeliverStep
  <1>4. CASE UNCHANGED vars
    <2>1. /\ UNCHANGED <<up, serving, caller, probe, current, worker, abandoned, parked, open, tainted>>
          /\ UNCHANGED <<closed, pgClosed>>
      BY <1>4 DEF vars, backendVars, connVars
    <2>2. Fresh'
      BY <2>1, FreshSame DEF Awaited
    <2>3. Typed'
      BY <2>1 DEF IInv, Typed
    <2> QED  BY <2>1, <2>2, <2>3, Standing DEF IInv
  <1> QED  BY <1>1, <1>2, <1>3, <1>4, ExpireStep, ReclaimStep, CloseStep, ClosePgStep, StoreStep DEF Next

\* The invariant holds.
THEOREM ReadinessInvariant == ReadinessSpec => []IInv
  BY ReadinessStarts, ReadinessNextHolds, PTL DEF ReadinessSpec

(***************************************************************************)
(* The state is of the right type; in particular _abandoned never passes   *)
(* MAX_ABANDONED_READINESS_WORKERS and never falls below zero.             *)
(***************************************************************************)
THEOREM ReadinessTypes == ReadinessSpec => []TypeOK
  <1>1. IInv => TypeOK
    <2> SUFFICES ASSUME IInv  PROVE TypeOK
      OBVIOUS
    <2>1. Counted \in SUBSET Workers
      BY DEF Counted
    <2>2. abandoned \in 0..MaxAbandoned
      BY <2>1, Finite, ReadinessAssumption DEF IInv, Bounded
    <2>3. \A w \in Workers : worker[w].pc \in Stages
      BY RowFacts DEF WorkerRow
    <2> QED  BY <2>2, <2>3 DEF IInv, Typed, TypeOK
  <1> QED  BY <1>1, ReadinessInvariant, PTL

(***************************************************************************)
(* For any limit and however long the store stays away: the probe keeps at *)
(* most one thread and one connection more than may be abandoned, the      *)
(* count of abandoned threads is exact, and every open connection is in    *)
(* one call or parked.                                                     *)
(***************************************************************************)
THEOREM OutagesAreBounded == ReadinessSpec => []SessionsAreAccountedFor
  <1>1. IInv => SessionsAreAccountedFor
    <2> SUFFICES ASSUME IInv  PROVE SessionsAreAccountedFor
      OBVIOUS
    <2>1. Cardinality(Alive) <= MaxAbandoned + 1 /\ Cardinality(open) <= MaxAbandoned + 1
      BY AliveBound, OpenBound DEF IInv
    <2>2. abandoned = Cardinality({w \in Workers : worker[w].counted})
      BY DEF IInv, Bounded, Counted
    <2>3. ConnectionsHaveOneOwner
      <3>1. \A w \in Workers : worker[w].conn \in Conns \cup {0}
        BY RowFacts DEF WorkerRow
      <3>2. parked \in Conns \cup {0} /\ open \subseteq Conns /\ 0 \notin Conns
        BY ReadinessAssumption DEF IInv, Typed
      <3>3. \A c \in Conns : c \in open <=> c \in ({worker[w].conn : w \in Workers} \cup {parked}) \ {0}
        BY <3>2 DEF IInv, Owners
      <3>4. open = ({worker[w].conn : w \in Workers} \cup {parked}) \ {0}
        BY <3>1, <3>2, <3>3
      <3> QED  BY <3>4 DEF IInv, Owners, ConnectionsHaveOneOwner
    <2> QED  BY <2>1, <2>2, <2>3 DEF SessionsAreAccountedFor, SessionsAreBounded
  <1> QED  BY <1>1, ReadinessInvariant, PTL

(***************************************************************************)
(* A cancel ends the call it was sent for or nothing: whatever the order   *)
(* in which cancels arrive and calls return, a connection a cancel was     *)
(* attempted against is never parked for another call.                     *)
(***************************************************************************)
THEOREM CancelsAreAimed == ReadinessSpec => []CancelsHitTheirCall
  <1>1. IInv => CancelsHitTheirCall
    BY DEF IInv, Cancels, CancelsHitTheirCall
  <1> QED  BY <1>1, ReadinessInvariant, PTL

(***************************************************************************)
(* Ready is never an answer from before an outage: the store answered      *)
(* while somebody was waiting for the probe, although workers are          *)
(* abandoned and come back late.                                           *)
(***************************************************************************)
THEOREM ReadyIsNeverStale == ReadinessSpec => []ReadyIsFresh
  <1>1. IInv => ReadyIsFresh
    BY DEF IInv, Fresh, ReadyIsFresh
  <1> QED  BY <1>1, ReadinessInvariant, PTL
=============================================================================
