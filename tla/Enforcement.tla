---------------------------- MODULE Enforcement ----------------------------
(***************************************************************************)
(* The decision path: direct and delegated enforcement, and the minting of *)
(* subject tokens, while an operator changes grants, tokens, boundaries    *)
(* and mandates under them.                                                *)
(*                                                                         *)
(* Enforcement is not one transaction.  It reads the clock, the grant, up  *)
(* to six settings rows, the token and the boundary one after the other,   *)
(* decides, writes the audit event and answers; every write of another     *)
(* request may fall between two of those, and the write of the event may   *)
(* fail, or be committed although it is reported as failed.  Each read is  *)
(* a step, each control-plane change (a row and its audit event in one     *)
(* BEGIN IMMEDIATE) is a step.                                             *)
(*                                                                         *)
(* An agent or a boundary is named together with its workspace, which Home *)
(* returns; a PEP is trusted in Home[pep] and nowhere else.  The replay    *)
(* store of proofs is module PopReplay; here a proof is good or it is not. *)
(***************************************************************************)
EXTENDS Scope, FiniteSets

CONSTANTS
    Workers,    \* requests in flight
    Agents, Peps, Boundaries, Refs, Tokens,
    Home,       \* the workspace of each agent, PEP and boundary
    Calls,      \* the requests callers may send
    Issues,     \* the grants an operator may issue: owner, scopes, ttl
    Mints,      \* the tokens an agent may ask for
    Mandates,   \* the mandates an operator may set
    DefaultOn,  \* the mandates in force when no row says anything
    MaxTime     \* bound on the clock

None == "none"
Times == 0..MaxTime
AllMandates == {"boundary", "token", "pop"}
Setting == {"unset", "on", "off"}
Blank == "blank"

ASSUME EnforcementAssumption ==
    /\ MaxTime \in Nat
    /\ Mandates \subseteq AllMandates
    /\ DefaultOn \subseteq {"boundary"}  \* the other two are off by default
    /\ None \notin Refs \cup Tokens \cup Boundaries
    /\ Blank \notin Tokens
    /\ None \notin Agents \cup {Home[a] : a \in Agents}
    \* "dead" below is one set of rows of three tables
    /\ Refs \cap Tokens = {} /\ Refs \cap Boundaries = {} /\ Tokens \cap Boundaries = {}
    /\ Calls \subseteq
         [pep : Peps \cup {None},       \* None: the agent's own key, direct enforce
          agent : Agents,
          named : BOOLEAN,              \* the body names the agent's workspace
          ref : Refs,
          attempt : [action : Actions \cup {None}, path : Seq(Segments)],
          boundary : Boundaries \cup {None},
          token : Tokens \cup {None, Blank},
          proof : BOOLEAN]              \* a good proof of possession comes along
    /\ \A c \in Calls : c.pep # None /\ ~c.named => Home[c.agent] = Home[c.pep]
    /\ Issues \subseteq [ref : Refs, owner : Agents, scopes : SUBSET GrantScopes, ttl : Nat]
    /\ Mints \subseteq [token : Tokens, agent : Agents, ref : Refs, audience : Peps,
                        ttl : Nat, bound : SUBSET Requests, pop : BOOLEAN]
    /\ \A m \in Mints : Cardinality(m.bound) <= 1

VARIABLES
    now,
    grants,     \* rows of grants, by ref
    tokens,     \* rows of subject_tokens
    boundary,   \* the status of each boundary, None when not registered
    settings,   \* settings[agent or workspace][mandate]
    pc, call,   \* per worker: the next step and the request
    reading,    \* the clock as the request read it
    grant,      \* the grant as the request read it
    required,   \* the mandates it found in force
    partial,    \* the agent's row of the mandate it is looking up, when read
    verified,   \* the token it has proved, None without
    verdict,    \* the decision it is about to record
    reply,      \* the last answer
    trail,      \* the event of that request that is in the audit trail
    since       \* history: what has been true at every moment of the request

control == <<now, grants, tokens, boundary, settings>>
local == <<call, reading, grant, required, partial, verified, verdict>>
answer == <<reply, trail>>
vars == <<control, pc, local, answer, since>>

NoGrant == [owner |-> None, scopes |-> {}, status |-> None, exp |-> 0]
NoToken == [status |-> None, agent |-> None, ref |-> None, audience |-> None,
            exp |-> 0, bound |-> {}, pop |-> FALSE]
NoCall == [agent |-> None]

Workspaces == {Home[a] : a \in Agents}
Holders == Agents \cup Workspaces

Stages == {"idle", "grant", "token_mandate", "pop_mandate", "token", "proof",
           "boundary_mandate", "evaluate", "record", "respond", "mint_grant", "mint"}

Events == {None, "permit", "deny", "minted"}

Init ==
    /\ now = 0
    /\ grants = [r \in Refs |-> NoGrant]
    /\ tokens = [t \in Tokens |-> NoToken]
    /\ boundary = [b \in Boundaries |-> None]
    /\ settings = [h \in Holders |-> [m \in AllMandates |-> "unset"]]
    /\ pc = [w \in Workers |-> "idle"]
    /\ call = [w \in Workers |-> NoCall]
    /\ reading = [w \in Workers |-> 0]
    /\ grant = [w \in Workers |-> NoGrant]
    /\ required = [w \in Workers |-> {}]
    /\ partial = [w \in Workers |-> None]
    /\ verified = [w \in Workers |-> None]
    /\ verdict = [w \in Workers |-> None]
    /\ reply = [w \in Workers |-> None]
    /\ trail = [w \in Workers |-> None]
    /\ since = [w \in Workers |-> [steady |-> {}, dead |-> {}]]

-----------------------------------------------------------------------------
(***************************************************************************)
(* What holds at every moment of a request, kept up to date by whatever    *)
(* changes it: the mandates in force for its agent by the same row         *)
(* throughout, and the grants, tokens and boundaries that cannot support a *)
(* permit.                                                                 *)
(***************************************************************************)
Decider(set, a, m) ==
    CASE set[a][m] # "unset" -> a
      [] set[a][m] = "unset" /\ set[Home[a]][m] # "unset" -> Home[a]
      [] OTHER -> None

InForce(set, a, m) ==
    LET d == Decider(set, a, m) IN IF d = None THEN m \in DefaultOn ELSE set[d][m] = "on"

Spent(row, t) == row.status = "revoked" \/ (row.status # None /\ row.exp <= t)

DeadNow(gs, ts, bs, t) ==
    {r \in Refs : Spent(gs[r], t)} \cup {k \in Tokens : Spent(ts[k], t)}
      \cup {b \in Boundaries : bs[b] # "active"}

SinceStart(a) ==
    [steady |-> {m \in AllMandates : InForce(settings, a, m)},
     dead |-> DeadNow(grants, tokens, boundary, now)]

\* Read by the actions that change the control plane, after they have said how.
Observe ==
    since' = [w \in Workers |->
        IF pc[w] = "idle" \/ call[w] = NoCall THEN since[w]
        ELSE LET a == call[w].agent IN
          [steady |-> {m \in since[w].steady :
                         /\ InForce(settings', a, m)
                         /\ Decider(settings', a, m) = Decider(settings, a, m)},
           dead |-> since[w].dead \cap DeadNow(grants', tokens', boundary', now')]]

-----------------------------------------------------------------------------
(***************************************************************************)
(* The control plane.                                                      *)
(***************************************************************************)
ControlStep == Observe /\ UNCHANGED <<pc, local, answer>>

issue_grant(i) ==
    /\ grants[i.ref] = NoGrant
    /\ grants' = [grants EXCEPT ![i.ref] =
         [owner |-> i.owner, scopes |-> i.scopes, status |-> "active", exp |-> now + i.ttl]]
    /\ UNCHANGED <<now, tokens, boundary, settings>>
    /\ ControlStep

\* Revoking a revoked grant changes nothing but the trail.
revoke_grant(r) ==
    /\ grants[r].status = "active"
    /\ grants' = [grants EXCEPT ![r].status = "revoked"]
    /\ UNCHANGED <<now, tokens, boundary, settings>>
    /\ ControlStep

revoke_subject_token(t) ==
    /\ tokens[t].status = "live"
    /\ tokens' = [tokens EXCEPT ![t].status = "revoked"]
    /\ UNCHANGED <<now, grants, boundary, settings>>
    /\ ControlStep

register_boundary(b, status) ==
    /\ boundary[b] = None
    /\ boundary' = [boundary EXCEPT ![b] = status]
    /\ UNCHANGED <<now, grants, tokens, settings>>
    /\ ControlStep

set_boundary_status(b, status) ==
    /\ boundary[b] # None
    /\ boundary' = [boundary EXCEPT ![b] = status]
    /\ UNCHANGED <<now, grants, tokens, settings>>
    /\ ControlStep

\* set_require_boundary, set_require_subject_token, set_require_pop: a row of
\* an agent, or of a workspace (agent_id = "").  No operation unsets a row.
set_mandate(h, m, value) ==
    /\ settings' = [settings EXCEPT ![h][m] = value]
    /\ UNCHANGED <<now, grants, tokens, boundary>>
    /\ ControlStep

Tick ==
    /\ now < MaxTime
    /\ now' = now + 1
    /\ UNCHANGED <<grants, tokens, boundary, settings>>
    /\ ControlStep

-----------------------------------------------------------------------------
(***************************************************************************)
(* Enforcement.  Every early return answers without a decision; only       *)
(* _evaluate_and_record decides.                                           *)
(***************************************************************************)
Answer(w, r, event) ==
    /\ pc' = [pc EXCEPT ![w] = "idle"]
    /\ reply' = [reply EXCEPT ![w] = r]
    /\ trail' = [trail EXCEPT ![w] = event]
    /\ call' = [call EXCEPT ![w] = NoCall]
    /\ reading' = [reading EXCEPT ![w] = 0]
    /\ grant' = [grant EXCEPT ![w] = NoGrant]
    /\ required' = [required EXCEPT ![w] = {}]
    /\ partial' = [partial EXCEPT ![w] = None]
    /\ verified' = [verified EXCEPT ![w] = None]
    /\ verdict' = [verdict EXCEPT ![w] = None]
    /\ since' = [since EXCEPT ![w] = [steady |-> {}, dead |-> {}]]

\* 403 without a decision.  The rejection event is written if it can be, and
\* the answer is the same whether it was.
Forbid(w) == Answer(w, "forbidden", None)

\* A read fails: 503, or an exception that ends the request.
Unavailable(w) == Answer(w, "unavailable", None)

Goto(w, stage) ==
    /\ pc' = [pc EXCEPT ![w] = stage]
    /\ UNCHANGED <<call, reading, verdict, answer, since>>

\* The request is parsed, its caller authenticated and the clock read.
Begin(w, c, stage) ==
    /\ pc[w] = "idle"
    /\ pc' = [pc EXCEPT ![w] = stage]
    /\ call' = [call EXCEPT ![w] = c]
    /\ reading' = [reading EXCEPT ![w] = now]
    /\ reply' = [reply EXCEPT ![w] = None]
    /\ trail' = [trail EXCEPT ![w] = None]
    /\ since' = [since EXCEPT ![w] = SinceStart(c.agent)]
    /\ UNCHANGED <<control, grant, required, partial, verified, verdict>>

\* A workspace the body names must be the one the PEP is trusted in.
WorkspaceAgrees(c) == c.pep # None => Home[c.agent] = Home[c.pep]

Usable(g, c) == g # NoGrant /\ g.owner = c.agent

ReadGrant(w) ==
    LET c == call[w]
        g == grants[c.ref]
    IN
    /\ pc[w] = "grant"
    /\ UNCHANGED control
    /\ \/ ~WorkspaceAgrees(c) /\ Forbid(w)
       \/ WorkspaceAgrees(c) /\ Unavailable(w)
       \/ WorkspaceAgrees(c) /\ ~Usable(g, c) /\ Forbid(w)
       \/ /\ WorkspaceAgrees(c) /\ Usable(g, c)
          /\ grant' = [grant EXCEPT ![w] = g]
          /\ Goto(w, IF c.pep = None THEN "boundary_mandate" ELSE "token_mandate")
          /\ UNCHANGED <<required, partial, verified>>

\* Variant: the workspace's row or, without one, the default.
LookUpWorkspaceOnly(w, m, stage) ==
    LET row == settings[Home[call[w].agent]][m]
        on == row = "on" \/ (row = "unset" /\ m \in DefaultOn)
    IN
    /\ required' = [required EXCEPT ![w] = IF on THEN @ \cup {m} ELSE @]
    /\ Goto(w, stage)
    /\ UNCHANGED partial

\* is_..._required: the agent's row, then, in another read, the workspace's.
LookUp(w, m, stage) ==
    LET a == call[w].agent
        row == IF partial[w] = None THEN settings[a][m] ELSE settings[Home[a]][m]
        decided == row # "unset" \/ partial[w] # None
        on == row = "on" \/ (row = "unset" /\ m \in DefaultOn)
    IN
    \/ /\ ~decided
       /\ partial' = [partial EXCEPT ![w] = "unset"]
       /\ Goto(w, pc[w])
       /\ UNCHANGED required
    \/ /\ decided
       /\ partial' = [partial EXCEPT ![w] = None]
       /\ required' = [required EXCEPT ![w] = IF on THEN @ \cup {m} ELSE @]
       /\ Goto(w, stage)

ReadTokenMandate(w) ==
    /\ pc[w] = "token_mandate"
    /\ \/ LookUp(w, "token", "pop_mandate") /\ UNCHANGED <<grant, verified>>
       \/ Unavailable(w)
    /\ UNCHANGED control

ReadPopMandate(w) ==
    /\ pc[w] = "pop_mandate"
    /\ \/ LookUp(w, "pop", "token") /\ UNCHANGED <<grant, verified>>
       \/ Unavailable(w)
    /\ UNCHANGED control

TokenMissing(w) ==
    required[w] \cap {"token", "pop"} # {} /\ call[w].token \in {None, Blank}

Agrees(t, c) ==
    /\ t.audience = c.pep
    /\ c.named
    /\ t.agent = c.agent
    /\ t.ref = c.ref
    /\ t.bound \subseteq {c.attempt}

TokenGood(w, t) ==
    t.status = "live" /\ t.exp > reading[w] /\ Agrees(t, call[w])

\* A token that cannot be read counts as no such token.
ReadToken(w) ==
    LET c == call[w]
        t == IF c.token = Blank THEN NoToken ELSE tokens[c.token]
    IN
    /\ pc[w] = "token"
    /\ UNCHANGED control
    /\ \/ TokenMissing(w) /\ Forbid(w)
       \/ /\ ~TokenMissing(w) /\ c.token = None
          /\ Goto(w, "boundary_mandate")
          /\ UNCHANGED <<grant, required, partial, verified>>
       \/ ~TokenMissing(w) /\ c.token # None /\ Forbid(w)
       \/ /\ c.token # None /\ TokenGood(w, t)
          /\ t.pop \/ "pop" \notin required[w]
          /\ verified' = [verified EXCEPT ![w] = c.token]
          /\ Goto(w, IF t.pop THEN "proof" ELSE "boundary_mandate")
          /\ UNCHANGED <<grant, required, partial>>

VerifyProof(w) ==
    /\ pc[w] = "proof"
    /\ UNCHANGED control
    /\ \/ Forbid(w)
       \/ /\ call[w].proof
          /\ Goto(w, "boundary_mandate")
          /\ UNCHANGED <<grant, required, partial, verified>>

ReadBoundaryMandate(w) ==
    /\ pc[w] = "boundary_mandate"
    /\ \/ LookUp(w, "boundary", "evaluate") /\ UNCHANGED <<grant, verified>>
       \/ Unavailable(w)
    /\ UNCHANGED control

_resolve_boundary(w) ==
    LET b == call[w].boundary IN
    IF b = None
      THEN "boundary" \notin required[w]
      ELSE boundary[b] = "active" /\ Home[b] = Home[grant[w].owner]

\* Variant: a revoked grant still permits until it expires.
PermitsUntilExpiry(w) ==
    LET c == call[w] IN
    /\ _resolve_boundary(w)
    /\ grant[w].exp > reading[w]
    /\ match_scope(grant[w].scopes, c.attempt.action, c.attempt.path)

evaluate_enforce(w) ==
    LET c == call[w] IN
    /\ _resolve_boundary(w)
    /\ grant[w].status = "active"
    /\ grant[w].exp > reading[w]
    /\ \A scope \in grant[w].scopes : is_valid_grant_scope(scope)
    /\ match_scope(grant[w].scopes, c.attempt.action, c.attempt.path)

Evaluate(w) ==
    LET c == call[w]
        valid == c.attempt.action \in Actions /\ is_valid_requested_resource(c.attempt.path)
    IN
    /\ pc[w] = "evaluate"
    /\ UNCHANGED control
    /\ \/ ~valid /\ Answer(w, "invalid", None)
       \/ valid /\ Unavailable(w)
       \/ /\ valid
          /\ verdict' = [verdict EXCEPT ![w] = IF evaluate_enforce(w) THEN "permit" ELSE "deny"]
          /\ pc' = [pc EXCEPT ![w] = "record"]
          /\ UNCHANGED <<call, reading, grant, required, partial, verified, answer, since>>

\* audit_writer.write returned: the event is committed, the answer comes next.
Recorded(w, event) ==
    /\ pc' = [pc EXCEPT ![w] = "respond"]
    /\ trail' = [trail EXCEPT ![w] = event]
    /\ UNCHANGED <<local, reply, since>>

\* Variant: a failed write of the event is swallowed, as it is for a rejection.
RecordIfPossible(w) ==
    /\ pc[w] = "record"
    /\ \E event \in {None, verdict[w]} : Recorded(w, event)
    /\ UNCHANGED control

\* The event is written first.  A write that raises is a 503 without a decision,
\* whether the event was rolled back or only its acknowledgement got lost.
Record(w) ==
    /\ pc[w] = "record"
    /\ \/ Recorded(w, verdict[w])
       \/ \E event \in {None, verdict[w]} : Answer(w, "unavailable", event)
    /\ UNCHANGED control

\* Then the answer is sent; the process may end, or the connection, before it is.
Respond(w) ==
    /\ pc[w] = "respond"
    /\ \E r \in {None, verdict[w]} : Answer(w, r, trail[w])
    /\ UNCHANGED control

-----------------------------------------------------------------------------
(***************************************************************************)
(* Minting a subject token: the grant is read, then the token and its      *)
(* event are written in one transaction, whose commit may be reported as   *)
(* failed although it took effect.                                         *)
(***************************************************************************)
_grant_is_valid(g, t) == g.status = "active" /\ g.exp > t

ReadGrantToMint(w) ==
    LET g == grants[call[w].ref] IN
    /\ pc[w] = "mint_grant"
    /\ UNCHANGED control
    /\ \/ Unavailable(w)
       \/ ~(g.owner = call[w].agent /\ _grant_is_valid(g, reading[w])) /\ Forbid(w)
       \/ /\ g.owner = call[w].agent /\ _grant_is_valid(g, reading[w])
          /\ grant' = [grant EXCEPT ![w] = g]
          /\ Goto(w, "mint")
          /\ UNCHANGED <<required, partial, verified>>

Expiry(w) ==
    IF grant[w].exp < reading[w] + call[w].ttl THEN grant[w].exp
                                               ELSE reading[w] + call[w].ttl

\* The id of a token is random: no row has it yet.
Mint(w) ==
    LET m == call[w] IN
    /\ pc[w] = "mint"
    /\ \/ /\ tokens[m.token] = NoToken
          /\ tokens' = [tokens EXCEPT ![m.token] =
               [status |-> "live", agent |-> m.agent, ref |-> m.ref,
                audience |-> m.audience, exp |-> Expiry(w), bound |-> m.bound,
                pop |-> m.pop]]
          /\ \E r \in {"minted", "unavailable"} : Answer(w, r, "minted")
       \/ Unavailable(w) /\ UNCHANGED tokens
    /\ UNCHANGED <<now, grants, boundary, settings>>

-----------------------------------------------------------------------------
Serve(w) ==
    \/ \E c \in Calls : Begin(w, c, "grant")
    \/ ReadGrant(w)
    \/ ReadTokenMandate(w) \/ ReadPopMandate(w)
    \/ ReadToken(w) \/ VerifyProof(w)
    \/ ReadBoundaryMandate(w) \/ Evaluate(w) \/ Record(w) \/ Respond(w)
    \/ \E m \in Mints : Begin(w, m, "mint_grant")
    \/ ReadGrantToMint(w) \/ Mint(w)

Next ==
    \/ \E w \in Workers : Serve(w)
    \/ \E i \in Issues : issue_grant(i)
    \/ \E r \in Refs : revoke_grant(r)
    \/ \E t \in Tokens : revoke_subject_token(t)
    \/ \E b \in Boundaries, status \in {"active", "disabled"} :
         register_boundary(b, status) \/ set_boundary_status(b, status)
    \/ \E h \in Holders, m \in Mandates, value \in {"on", "off"} : set_mandate(h, m, value)
    \/ Tick

Spec == Init /\ [][Next]_vars

-----------------------------------------------------------------------------
\* Permits about to be recorded, or recorded and not yet answered.
Permitting == {w \in Workers : pc[w] \in {"record", "respond"} /\ verdict[w] = "permit"}

GrantRow == [owner : Agents \cup {None}, scopes : SUBSET GrantScopes,
             status : {None, "active", "revoked"}, exp : Nat]
TokenRow == [status : {None, "live", "revoked"}, agent : Agents \cup {None},
             ref : Refs \cup {None}, audience : Peps \cup {None}, exp : Nat,
             bound : SUBSET Requests, pop : BOOLEAN]

TypeOK ==
    /\ now \in Times
    /\ grants \in [Refs -> GrantRow] /\ tokens \in [Tokens -> TokenRow]
    /\ boundary \in [Boundaries -> {None, "active", "disabled"}]
    /\ settings \in [Holders -> [AllMandates -> Setting]]
    /\ pc \in [Workers -> Stages] /\ call \in [Workers -> Calls \cup Mints \cup {NoCall}]
    /\ reading \in [Workers -> Nat] /\ grant \in [Workers -> GrantRow]
    /\ required \in [Workers -> SUBSET AllMandates]
    /\ partial \in [Workers -> {None, "unset"}]
    /\ verified \in [Workers -> Tokens \cup {None}]
    /\ verdict \in [Workers -> {None, "permit", "deny"}]
    /\ reply \in [Workers -> {None, "permit", "deny", "forbidden", "invalid",
                              "unavailable", "minted"}]
    /\ trail \in [Workers -> Events]
    /\ since \in [Workers -> [steady : SUBSET AllMandates,
                              dead : SUBSET (Refs \cup Tokens \cup Boundaries)]]

\* A grant or token revoked or expired before the request came, or a boundary
\* that was not active at any moment of it, supports no permit, whatever else
\* changes between the reads of the request.
DeadAuthorityNeverPermits ==
    \A w \in Permitting :
      {call[w].ref, verified[w], call[w].boundary} \cap since[w].dead = {}

Obeys(w, m) ==
    CASE m = "boundary" -> call[w].boundary # None
      [] m = "token" -> call[w].pep # None => verified[w] # None
      [] m = "pop" -> call[w].pep # None =>
                        verified[w] # None /\ tokens[verified[w]].pop

\* A mandate that the same settings row keeps in force for the whole of a
\* request is obeyed by every permit of that request.
SteadyMandatesAreObeyed ==
    \A w \in Permitting : \A m \in since[w].steady : Obeys(w, m)

\* The trail says what the caller was told.  A decision that is answered has its
\* event in the trail, with the same decision, although the write and the answer
\* are two steps and either may fail; a request refused without a decision left
\* none.  Only a 503 or no answer at all leaves open which decision was recorded.
DecisionsAreRecorded ==
    \A w \in Workers :
      /\ reply[w] \in {"permit", "deny"} => trail[w] = reply[w]
      /\ reply[w] \in {"forbidden", "invalid"} => trail[w] = None

\* No permit crosses a workspace: the grant, the PEP, the boundary and a proved
\* token all belong together, and the token was minted for this PEP.
PermitsStayInTheirWorkspace ==
    \A w \in Permitting :
      LET c == call[w] IN
      /\ grants[c.ref].owner = c.agent
      /\ c.pep # None => Home[c.pep] = Home[c.agent]
      /\ c.boundary # None => Home[c.boundary] = Home[c.agent]
      /\ verified[w] # None =>
           /\ tokens[verified[w]].audience = c.pep
           /\ tokens[verified[w]].agent = c.agent

\* A token is bound to a grant of its own agent and never outlives it.
TokensStayWithinTheirGrant ==
    \A t \in Tokens : tokens[t].status # None =>
      /\ tokens[t].exp <= grants[tokens[t].ref].exp
      /\ tokens[t].agent = grants[tokens[t].ref].owner

\* Every permit rests on authority of the caller's own workspace that was alive
\* when the request came, a token's being no longer than its grant's.
PermitsAreSound ==
    DeadAuthorityNeverPermits /\ PermitsStayInTheirWorkspace /\ TokensStayWithinTheirGrant
=============================================================================
