------------------------- MODULE EnforcementProofs -------------------------
(***************************************************************************)
(* What a permit rests on, for any number of requests in flight, agents,   *)
(* PEPs, boundaries, grants and tokens.                                    *)
(*                                                                         *)
(* The invariant says of each request what the rows it has read still      *)
(* stand for: a row is written once and afterwards only revoked, so what   *)
(* was read of it can go stale in one direction only.                      *)
(*                                                                         *)
(* First, scopes: scope_subsumes, which issuance compares with, and        *)
(* match_scope, which enforcement does, agree for paths of every length    *)
(* and any set of segments.                                                *)
(***************************************************************************)
EXTENDS Enforcement, TLAPS

\* A broader bound permits whatever a scope it subsumes permits: enforcement
\* (match_scope) never goes beyond what issuance compared (scope_subsumes).
THEOREM SubsumptionSound ==
    ASSUME NEW broad \in GrantScopes, NEW narrow \in GrantScopes, NEW request \in Requests
    PROVE  SoundFor(broad, narrow, request)
  <1> SUFFICES ASSUME scope_subsumes(broad, narrow),
                      Matches(narrow, request.action, request.path)
               PROVE  Matches(broad, request.action, request.path)
    BY DEF SoundFor
  <1> USE DEF GrantScopes, Requests
  <1>1. CASE broad = narrow
    BY <1>1
  <1>2. CASE broad # narrow
    <2>1. /\ broad.action = narrow.action
          /\ Wildcard(broad.path)
          /\ Below(narrow.path, broad.path)
      BY <1>2 DEF scope_subsumes
    <2>2. CASE narrow = Scope(request.action, request.path)
      <3>1. narrow.action = request.action /\ narrow.path = request.path
        BY <2>2 DEF Scope
      <3> QED  BY <2>1, <3>1 DEF Matches, _matches_terminal_resource_wildcard
    <2>3. CASE _matches_terminal_resource_wildcard(narrow, request.action, request.path)
      <3>1. narrow.action = request.action /\ Below(request.path, narrow.path)
        BY <2>3 DEF _matches_terminal_resource_wildcard
      <3>2. Below(request.path, broad.path)
        BY <2>1, <3>1 DEF Below
      <3> QED  BY <2>1, <3>1, <3>2 DEF Matches, _matches_terminal_resource_wildcard
    <2> QED  BY <2>2, <2>3 DEF Matches
  <1> QED  BY <1>1, <1>2

\* Subsumption composes along a chain of bounds.
THEOREM SubsumptionTransitive ==
    ASSUME NEW a \in GrantScopes, NEW b \in GrantScopes, NEW c \in GrantScopes
    PROVE  TransitiveFor(a, b, c)
  <1> SUFFICES ASSUME scope_subsumes(a, b), scope_subsumes(b, c), a # b, b # c
               PROVE  scope_subsumes(a, c)
    BY DEF TransitiveFor
  <1>1. /\ a.action = b.action /\ Wildcard(a.path) /\ Below(b.path, a.path)
        /\ b.action = c.action /\ Below(c.path, b.path)
    BY DEF scope_subsumes
  <1>2. Below(c.path, a.path)
    BY <1>1 DEF Below, GrantScopes
  <1> QED  BY <1>1, <1>2 DEF scope_subsumes, GrantScopes

\* Two scopes that subsume each other are equal, so "narrower" and "broader"
\* never coincide for different scopes.
THEOREM SubsumptionAntisymmetric ==
    ASSUME NEW a \in GrantScopes, NEW b \in GrantScopes
    PROVE  AntisymmetricFor(a, b)
  <1> SUFFICES ASSUME scope_subsumes(a, b), scope_subsumes(b, a), a # b
               PROVE  FALSE
    BY DEF AntisymmetricFor
  <1>1. /\ a.action = b.action
        /\ Wildcard(a.path) /\ Wildcard(b.path)
        /\ Below(b.path, a.path) /\ Below(a.path, b.path)
    BY DEF scope_subsumes
  <1>2. a.path \in Seq(Segments) /\ b.path \in Seq(Segments)
    BY DEF GrantScopes
  <1>3. Len(a.path) = Len(b.path)
    BY <1>1, <1>2 DEF Below
  <1>4. \A i \in 1..Len(a.path) : a.path[i] = b.path[i]
    BY <1>1, <1>2, <1>3 DEF Below, Wildcard
  <1>5. a.path = b.path
    BY <1>2, <1>3, <1>4
  <1> QED  BY <1>1, <1>5 DEF GrantScopes

\* Whatever scopes a grant carries, if each lies within some bound then every
\* request the grant permits is permitted by the bounds themselves.
THEOREM BoundsCapEnforcement ==
    ASSUME NEW requested \in SUBSET GrantScopes, NEW bounds \in SUBSET GrantScopes,
           WithinBounds(requested, bounds),
           NEW request \in Requests,
           match_scope(requested, request.action, request.path)
    PROVE  match_scope(bounds, request.action, request.path)
  <1>1. PICK narrow \in requested : Matches(narrow, request.action, request.path)
    BY DEF match_scope
  <1>2. PICK broad \in bounds : scope_subsumes(broad, narrow)
    BY DEF WithinBounds
  <1>3. Matches(broad, request.action, request.path)
    BY <1>1, <1>2, SubsumptionSound DEF SoundFor
  <1> QED  BY <1>3 DEF match_scope

\* Conversely scope_subsumes misses no containment: a scope that permits some
\* request, and none that the broad scope does not, is accepted, so no bound
\* refuses what it allows.  (A wildcard below a segment outside the alphabet is a
\* valid scope that permits nothing; only equal scopes or wildcards above its own
\* path subsume it.)
THEOREM SubsumptionComplete ==
    ASSUME NEW broad \in GrantScopes, NEW narrow \in GrantScopes,
           NEW some \in Requests, Matches(narrow, some.action, some.path),
           \A r \in Requests : Matches(narrow, r.action, r.path)
                                => Matches(broad, r.action, r.path)
    PROVE  scope_subsumes(broad, narrow)
  <1> DEFINE n == Len(narrow.path)
  <1>0. /\ narrow.path \in Seq(Segments) /\ broad.path \in Seq(Segments)
        /\ narrow.action \in Actions /\ broad.action \in Actions
        /\ is_valid_grant_scope(narrow) /\ is_valid_grant_scope(broad)
        /\ n \in Nat /\ n >= 2
        /\ Len(broad.path) \in Nat
    <2>1. ASSUME NEW s \in GrantScopes
          PROVE  /\ s.path \in Seq(Segments) /\ s.action \in Actions
                 /\ is_valid_grant_scope(s)
      BY DEF GrantScopes
    <2>2. Len(narrow.path) >= 2
      BY <2>1 DEF is_valid_grant_scope, _is_valid_resource
    <2>3. Len(narrow.path) \in Nat /\ Len(broad.path) \in Nat
      BY <2>1
    <2> QED  BY <2>1, <2>2, <2>3
  <1>1. CASE ~Wildcard(narrow.path)
    <2>1. \A i \in 1..n : narrow.path[i] \in Plain
      BY <1>0, <1>1 DEF is_valid_grant_scope, _is_valid_resource, Wildcard
    <2>2. narrow \in Requests
      BY <1>0, <2>1 DEF Requests, is_valid_requested_resource, _is_valid_resource,
                        is_valid_grant_scope, GrantScopes
    <2>3. narrow = Scope(narrow.action, narrow.path)
      BY DEF GrantScopes, Scope
    <2>4. Matches(broad, narrow.action, narrow.path)
      BY <2>2, <2>3 DEF Matches
    <2> QED  BY <1>0, <2>3, <2>4 DEF Matches, _matches_terminal_resource_wildcard,
                                     scope_subsumes
  <1>2. CASE Wildcard(narrow.path)
    <2>1. PICK p \in Plain : TRUE
      BY SegmentsAssumption
    <2> DEFINE near == [narrow.path EXCEPT ![n] = p]
               far == Append(near, p)
    <2>2. /\ near \in Seq(Segments) /\ Len(near) = n
          /\ \A i \in 1..n : near[i] = IF i = n THEN p ELSE narrow.path[i]
      BY <1>0, <2>1 DEF Segments
    <2>3. /\ far \in Seq(Segments) /\ Len(far) = n + 1
          /\ \A i \in 1..n : far[i] = near[i]
          /\ far[n + 1] = p
      BY <1>0, <2>1, <2>2 DEF Segments
    <2> HIDE DEF near, far
    <2>4. \A i \in 1..n : near[i] \in Plain
      <3>1. /\ some.path \in Seq(Segments) /\ \A i \in 1..Len(some.path) : some.path[i] \in Plain
        BY DEF Requests, is_valid_requested_resource, _is_valid_resource
      <3>2. Below(some.path, narrow.path)
        <4>1. ASSUME narrow = Scope(some.action, some.path)  PROVE FALSE
          BY <1>0, <1>2, <3>1, <4>1, SegmentsAssumption DEF Scope, Wildcard
        <4> QED  BY <4>1 DEF Matches, _matches_terminal_resource_wildcard
      <3>3. ASSUME NEW i \in 1..(n - 1)  PROVE narrow.path[i] \in Plain
        BY <1>0, <3>1, <3>2 DEF Below
      <3> QED  BY <1>0, <2>1, <2>2, <3>3
    <2>5. \A i \in 1..(n + 1) : far[i] \in Plain
      <3> SUFFICES ASSUME NEW i \in 1..(n + 1)  PROVE far[i] \in Plain
        OBVIOUS
      <3>1. i \in 1..n \/ i = n + 1
        BY <1>0
      <3> QED  BY <2>1, <2>3, <2>4, <3>1
    <2>6. /\ Scope(narrow.action, near) \in Requests
          /\ Scope(narrow.action, far) \in Requests
      BY <1>0, <2>2, <2>3, <2>4, <2>5, SegmentsAssumption
         DEF Requests, Scope, is_valid_requested_resource, _is_valid_resource
    <2>7. Below(near, narrow.path) /\ Below(far, narrow.path)
      <3>1. ASSUME NEW i \in 1..(n - 1)
            PROVE  near[i] = narrow.path[i] /\ far[i] = narrow.path[i]
        <4>1. i \in 1..n /\ i # n
          BY <1>0
        <4> QED  BY <2>2, <2>3, <4>1
      <3> QED  BY <1>0, <2>2, <2>3, <3>1 DEF Below
    <2>8. /\ Matches(broad, narrow.action, near)
          /\ Matches(broad, narrow.action, far)
      BY <1>2, <2>6, <2>7 DEF Matches, _matches_terminal_resource_wildcard, Scope
    <2>9. _matches_terminal_resource_wildcard(broad, narrow.action, near)
      <3> SUFFICES ASSUME broad = Scope(narrow.action, near)
                   PROVE  FALSE
        BY <2>8 DEF Matches
      <3>1. broad.path = near
        BY DEF Scope
      <3>2. broad # Scope(narrow.action, far)
        BY <1>0, <2>2, <2>3, <3>1 DEF Scope
      <3>3. Wildcard(near)
        BY <2>8, <3>1, <3>2 DEF Matches, _matches_terminal_resource_wildcard
      <3> QED  BY <1>0, <2>2, <2>4, <3>3, SegmentsAssumption DEF Wildcard
    <2>10. /\ broad.action = narrow.action /\ Wildcard(broad.path)
           /\ Below(narrow.path, broad.path)
      <3>1. /\ broad.action = narrow.action /\ Wildcard(broad.path)
            /\ Len(near) >= Len(broad.path)
            /\ \A i \in 1..(Len(broad.path) - 1) : near[i] = broad.path[i]
        BY <2>9 DEF _matches_terminal_resource_wildcard, Below
      <3>2. ASSUME NEW i \in 1..(Len(broad.path) - 1)
            PROVE  narrow.path[i] = broad.path[i]
        <4>1. i \in 1..n /\ i # n
          BY <1>0, <2>2, <3>1
        <4> QED  BY <2>2, <3>1, <4>1
      <3> QED  BY <2>2, <3>1, <3>2 DEF Below
    <2> QED  BY <1>0, <2>10 DEF scope_subsumes
  <1> QED  BY <1>1, <1>2

-----------------------------------------------------------------------------
(***************************************************************************)
(* Requests in flight.                                                     *)
(***************************************************************************)
Deciding == {"grant", "token_mandate", "pop_mandate", "token", "proof",
             "boundary_mandate", "evaluate", "record", "respond"}
Minting == {"mint_grant", "mint"}

\* The request under way is of the kind its stage belongs to.
OfItsKind(w) ==
    /\ pc[w] \in Deciding => call[w] \in Calls
    /\ pc[w] \in Minting => call[w] \in Mints
    /\ pc[w] = "idle" => since[w].dead = {} /\ since[w].steady = {}

\* Rows that have been dead since the request came, by the clock it read.
DeadRows(w) ==
    /\ \A r \in Refs \cap since[w].dead : Spent(grants[r], reading[w])
    /\ \A t \in Tokens \cap since[w].dead : Spent(tokens[t], reading[w])
    /\ \A b \in Boundaries \cap since[w].dead : boundary[b] # "active"

\* The grant it read is the row's, but for a revocation since.
GrantIsRead(w) ==
    pc[w] \in Stages \ {"idle", "grant", "mint_grant"} =>
        /\ grant[w].owner = call[w].agent
        /\ grants[call[w].ref].status # None
        /\ grants[call[w].ref].owner = grant[w].owner
        /\ grants[call[w].ref].exp = grant[w].exp

\* So is the token, and neither was dead when the request came.
AuthorityIsLive(w) ==
    pc[w] \in Deciding \ {"grant"} =>
        /\ WorkspaceAgrees(call[w])
        /\ grant[w].status = "active" /\ grant[w].exp > reading[w]
             => call[w].ref \notin since[w].dead
        /\ verified[w] # None =>
             /\ tokens[verified[w]].status # None
             /\ tokens[verified[w]].audience = call[w].pep
             /\ tokens[verified[w]].agent = call[w].agent
             /\ verified[w] \notin since[w].dead

VerifiedLate(w) ==
    verified[w] # None => pc[w] \in {"proof", "boundary_mandate", "evaluate", "record", "respond"}

\* The mandate a stage looks up.
Asked(stage) ==
    IF stage = "token_mandate" THEN "token"
    ELSE IF stage = "pop_mandate" THEN "pop"
    ELSE "boundary"

\* Mandates in force throughout are found, whichever of the two rows says so.
MandatesAreFound(w) ==
    /\ pc[w] # "idle" => \A m \in since[w].steady : InForce(settings, call[w].agent, m)
    /\ partial[w] # None =>
         /\ pc[w] \in {"token_mandate", "pop_mandate", "boundary_mandate"}
         /\ Asked(pc[w]) \in since[w].steady =>
              settings[call[w].agent][Asked(pc[w])] = "unset"
    /\ pc[w] \in Deciding \ {"grant", "token_mandate"} /\ call[w].pep # None =>
         ("token" \in since[w].steady => "token" \in required[w])
    /\ pc[w] \in Deciding \ {"grant", "token_mandate", "pop_mandate"} /\ call[w].pep # None =>
         ("pop" \in since[w].steady => "pop" \in required[w])
    /\ pc[w] \in {"evaluate", "record", "respond"} =>
         ("boundary" \in since[w].steady => "boundary" \in required[w])

\* What they ask for was there.
MandatesAreMet(w) ==
    pc[w] \in {"proof", "boundary_mandate", "evaluate", "record", "respond"} /\ call[w].pep # None =>
        /\ required[w] \cap {"token", "pop"} # {} => verified[w] # None
        /\ "pop" \in required[w] => tokens[verified[w]].pop

\* A permit that waits to be recorded, or has been and waits to be answered.
PermitIsSound(w) ==
    pc[w] \in {"record", "respond"} /\ verdict[w] = "permit" =>
        /\ grant[w].status = "active" /\ grant[w].exp > reading[w]
        /\ call[w].boundary # None => /\ Home[call[w].boundary] = Home[call[w].agent]
                                      /\ call[w].boundary \notin since[w].dead
        /\ "boundary" \in required[w] => call[w].boundary # None

Sound(w) ==
    /\ OfItsKind(w) /\ DeadRows(w) /\ GrantIsRead(w) /\ AuthorityIsLive(w) /\ VerifiedLate(w)
    /\ MandatesAreFound(w) /\ MandatesAreMet(w) /\ PermitIsSound(w)

\* A grant without a status is no grant at all.
RowsAreWhole == \A r \in Refs : grants[r].status = None => grants[r] = NoGrant

\* A token's grant has been issued.
TokensHaveGrants ==
    \A t \in Tokens : tokens[t].status # None =>
        tokens[t].ref \in Refs /\ grants[tokens[t].ref].status # None

IInv ==
    /\ TypeOK /\ RowsAreWhole /\ TokensStayWithinTheirGrant /\ TokensHaveGrants
    /\ \A w \in Workers : Sound(w)

-----------------------------------------------------------------------------
\* A step is a change of the control plane, a step of one request, or neither.
ControlChange ==
    \/ \E i \in Issues : issue_grant(i)
    \/ \E r \in Refs : revoke_grant(r)
    \/ \E t \in Tokens : revoke_subject_token(t)
    \/ \E b \in Boundaries, status \in {"active", "disabled"} :
         register_boundary(b, status) \/ set_boundary_status(b, status)
    \/ \E h \in Holders, m \in Mandates, value \in {"on", "off"} : set_mandate(h, m, value)
    \/ Tick

LEMMA StepCases ==
    ASSUME [Next]_vars
    PROVE  ControlChange \/ (\E w \in Workers : Serve(w)) \/ UNCHANGED vars
  BY DEF Next, ControlChange

\* The fields of calls and of token requests.
LEMMA CallFields ==
    /\ \A c \in Calls :
         /\ c.agent \in Agents /\ c.ref \in Refs /\ c.boundary \in Boundaries \cup {None}
         /\ c.token \in Tokens \cup {None, Blank}
    /\ \A m \in Mints :
         /\ m.token \in Tokens /\ m.agent \in Agents /\ m.ref \in Refs
         /\ m.audience \in Peps /\ m.ttl \in Nat /\ m.bound \in SUBSET Requests
         /\ m.pop \in BOOLEAN
    /\ \A i \in Issues :
         i.ref \in Refs /\ i.owner \in Agents /\ i.scopes \in SUBSET GrantScopes /\ i.ttl \in Nat
  BY EnforcementAssumption

LEMMA BlankRows == NoGrant \in GrantRow /\ NoToken \in TokenRow
  BY DEF NoGrant, NoToken, GrantRow, TokenRow

LEMMA RevokedRows ==
    /\ \A g \in GrantRow : [g EXCEPT !.status = "revoked"] \in GrantRow
    /\ \A t \in TokenRow : [t EXCEPT !.status = "revoked"] \in TokenRow
  BY DEF GrantRow, TokenRow

-----------------------------------------------------------------------------
\* What each kind of step leaves well formed.
LocalTypes ==
    /\ pc \in [Workers -> Stages] /\ call \in [Workers -> Calls \cup Mints \cup {NoCall}]
    /\ reading \in [Workers -> Nat] /\ grant \in [Workers -> GrantRow]
    /\ required \in [Workers -> SUBSET AllMandates]
    /\ partial \in [Workers -> {None, "unset"}]
    /\ verified \in [Workers -> Tokens \cup {None}]
    /\ verdict \in [Workers -> {None, "permit", "deny"}]
    /\ reply \in [Workers -> {None, "permit", "deny", "forbidden", "invalid",
                              "unavailable", "minted"}]
    /\ trail \in [Workers -> Events]

ControlTypes ==
    /\ now \in Times
    /\ grants \in [Refs -> GrantRow] /\ tokens \in [Tokens -> TokenRow]
    /\ boundary \in [Boundaries -> {None, "active", "disabled"}]
    /\ settings \in [Holders -> [AllMandates -> Setting]]

SinceTyped ==
    since \in [Workers -> [steady : SUBSET AllMandates,
                          dead : SUBSET (Refs \cup Tokens \cup Boundaries)]]

LEMMA AnswerTyped ==
    ASSUME TypeOK, NEW w \in Workers, NEW event \in Events,
           NEW r \in {"permit", "deny", "forbidden", "invalid", "unavailable", "minted", None},
           Answer(w, r, event)
    PROVE  LocalTypes' /\ SinceTyped'
  <1> USE BlankRows DEF TypeOK, Answer, Stages
  <1>1. LocalTypes'
    BY DEF LocalTypes
  <1>2. SinceTyped'
    BY DEF SinceTyped
  <1> QED  BY <1>1, <1>2

LEMMA ForbidTyped ==
    ASSUME TypeOK, NEW w \in Workers, Forbid(w) \/ Unavailable(w)
    PROVE  LocalTypes' /\ SinceTyped'
  BY AnswerTyped DEF Forbid, Unavailable, Events

LEMMA RecordedTyped ==
    ASSUME TypeOK, NEW w \in Workers, NEW event \in Events, Recorded(w, event)
    PROVE  LocalTypes' /\ SinceTyped'
  BY DEF TypeOK, Recorded, LocalTypes, SinceTyped, Stages, local

LEMMA GotoTyped ==
    ASSUME TypeOK, NEW w \in Workers, NEW stage \in Stages, Goto(w, stage),
           grant' \in [Workers -> GrantRow], required' \in [Workers -> SUBSET AllMandates],
           partial' \in [Workers -> {None, "unset"}], verified' \in [Workers -> Tokens \cup {None}]
    PROVE  LocalTypes' /\ SinceTyped'
  BY DEF TypeOK, Goto, LocalTypes, SinceTyped, answer

LEMMA LookUpTyped ==
    ASSUME TypeOK, NEW w \in Workers, NEW m \in AllMandates, NEW stage \in Stages,
           LookUp(w, m, stage), UNCHANGED <<grant, verified>>
    PROVE  LocalTypes' /\ SinceTyped'
  <1>1. required' \in [Workers -> SUBSET AllMandates]
    <2>1. required[w] \cup {m} \in SUBSET AllMandates
      BY DEF TypeOK
    <2>2. PICK S \in SUBSET AllMandates : required' = [required EXCEPT ![w] = S]
      BY <2>1 DEF TypeOK, LookUp
    <2> QED  BY <2>2 DEF TypeOK
  <1>2. partial' \in [Workers -> {None, "unset"}]
    BY DEF TypeOK, LookUp
  <1>3. PICK s \in Stages : Goto(w, s)
    BY DEF TypeOK, LookUp
  <1> QED  BY <1>1, <1>2, <1>3, GotoTyped DEF TypeOK

LEMMA ServeTyped ==
    ASSUME TypeOK, NEW w \in Workers, OfItsKind(w), Serve(w)
    PROVE  LocalTypes' /\ SinceTyped'
  <1> USE CallFields
  <1>1. ASSUME NEW c \in Calls \cup Mints, NEW stage \in {"grant", "mint_grant"}, Begin(w, c, stage)
        PROVE  LocalTypes' /\ SinceTyped'
    <2>1. LocalTypes'
      BY <1>1, EnforcementAssumption DEF Begin, LocalTypes, TypeOK, Stages, Times, Events
    <2>2. SinceTyped'
      BY <1>1 DEF Begin, SinceTyped, TypeOK, SinceStart, DeadNow
    <2> QED  BY <2>1, <2>2
  <1>2. CASE ReadGrant(w)
    <2>1. CASE Forbid(w) \/ Unavailable(w)
      BY <2>1, ForbidTyped
    <2>2. CASE /\ grant' = [grant EXCEPT ![w] = grants[call[w].ref]]
               /\ Goto(w, IF call[w].pep = None THEN "boundary_mandate" ELSE "token_mandate")
               /\ UNCHANGED <<required, partial, verified>>
      <3>1. call[w] \in Calls
        BY <1>2 DEF ReadGrant, OfItsKind, Deciding
      <3>2. grants[call[w].ref] \in GrantRow
        BY <3>1 DEF TypeOK
      <3>3. grant' \in [Workers -> GrantRow]
        BY <2>2, <3>2 DEF TypeOK
      <3>4. PICK s \in Stages : Goto(w, s)
        BY <2>2 DEF Stages
      <3> QED  BY <2>2, <3>3, <3>4, GotoTyped DEF TypeOK
    <2> QED  BY <1>2, <2>1, <2>2 DEF ReadGrant
  <1>3. CASE ReadTokenMandate(w)
    BY <1>3, ForbidTyped, LookUpTyped DEF ReadTokenMandate, AllMandates, Stages
  <1>4. CASE ReadPopMandate(w)
    BY <1>4, ForbidTyped, LookUpTyped DEF ReadPopMandate, AllMandates, Stages
  <1>5. CASE ReadToken(w)
    <2>1. CASE Forbid(w)
      BY <2>1, ForbidTyped
    <2>2. CASE /\ Goto(w, "boundary_mandate")
               /\ UNCHANGED <<grant, required, partial, verified>>
      BY <2>2, GotoTyped DEF TypeOK, Stages
    <2>3. CASE /\ call[w].token # None /\ TokenGood(w, IF call[w].token = Blank THEN NoToken ELSE tokens[call[w].token])
               /\ verified' = [verified EXCEPT ![w] = call[w].token]
               /\ \E s \in {"proof", "boundary_mandate"} : Goto(w, s)
               /\ UNCHANGED <<grant, required, partial>>
      <3>1. call[w] \in Calls
        BY <1>5 DEF ReadToken, OfItsKind, Deciding
      <3>2. call[w].token \in Tokens
        BY <2>3, <3>1 DEF TokenGood, NoToken, None
      <3>3. verified' \in [Workers -> Tokens \cup {None}]
        BY <2>3, <3>2 DEF TypeOK
      <3> QED  BY <2>3, <3>3, GotoTyped DEF TypeOK, Stages
    <2> QED  BY <1>5, <2>1, <2>2, <2>3 DEF ReadToken
  <1>6. CASE VerifyProof(w)
    BY <1>6, ForbidTyped, GotoTyped DEF VerifyProof, TypeOK, Stages
  <1>7. CASE ReadBoundaryMandate(w)
    BY <1>7, ForbidTyped, LookUpTyped DEF ReadBoundaryMandate, AllMandates, Stages
  <1>8. CASE Evaluate(w)
    <2>1. CASE Answer(w, "invalid", None) \/ Unavailable(w)
      BY <2>1, AnswerTyped, ForbidTyped DEF Events
    <2>2. CASE /\ verdict' = [verdict EXCEPT ![w] = IF evaluate_enforce(w) THEN "permit" ELSE "deny"]
               /\ pc' = [pc EXCEPT ![w] = "record"]
               /\ UNCHANGED <<call, reading, grant, required, partial, verified, answer, since>>
      BY <2>2 DEF TypeOK, LocalTypes, SinceTyped, Stages, answer
    <2> QED  BY <1>8, <2>1, <2>2 DEF Evaluate
  <1>9. CASE Record(w) \/ Respond(w)
    <2>1. verdict[w] \in {None, "permit", "deny"} /\ trail[w] \in Events
      BY DEF TypeOK
    <2> QED  BY <1>9, <2>1, AnswerTyped, RecordedTyped DEF Record, Respond, Events
  <1>10. CASE ReadGrantToMint(w)
    <2>1. CASE Forbid(w) \/ Unavailable(w)
      BY <2>1, ForbidTyped
    <2>2. CASE /\ grant' = [grant EXCEPT ![w] = grants[call[w].ref]]
               /\ Goto(w, "mint")
               /\ UNCHANGED <<required, partial, verified>>
      <3>1. call[w] \in Mints
        BY <1>10 DEF ReadGrantToMint, OfItsKind, Minting
      <3>2. grants[call[w].ref] \in GrantRow
        BY <3>1 DEF TypeOK
      <3>3. grant' \in [Workers -> GrantRow]
        BY <2>2, <3>2 DEF TypeOK
      <3> QED  BY <2>2, <3>3, GotoTyped DEF TypeOK, Stages
    <2> QED  BY <1>10, <2>1, <2>2 DEF ReadGrantToMint
  <1>11. CASE Mint(w)
    BY <1>11, AnswerTyped, ForbidTyped DEF Mint, Events
  <1> QED  BY <1>1, <1>2, <1>3, <1>4, <1>5, <1>6, <1>7, <1>8, <1>9, <1>10, <1>11 DEF Serve

\* Only minting touches the control plane from a request.
LEMMA ServeControl ==
    ASSUME TypeOK, NEW w \in Workers, OfItsKind(w), Serve(w)
    PROVE  /\ ControlTypes'
           /\ UNCHANGED <<now, grants, boundary, settings>>
           /\ Mint(w) \/ UNCHANGED tokens
  <1>1. UNCHANGED <<now, grants, boundary, settings>> /\ (Mint(w) \/ UNCHANGED tokens)
    BY DEF Serve, Begin, ReadGrant, ReadTokenMandate, ReadPopMandate, ReadToken, VerifyProof,
           ReadBoundaryMandate, Evaluate, Record, Respond, ReadGrantToMint, Mint, control
  <1>2. tokens' \in [Tokens -> TokenRow]
    <2>1. CASE UNCHANGED tokens
      BY <2>1 DEF TypeOK
    <2>2. CASE Mint(w)
      <3>1. call[w] \in Mints
        BY <2>2 DEF Mint, OfItsKind, Minting
      <3>2. Expiry(w) \in Nat
        BY <3>1, CallFields DEF Expiry, TypeOK, GrantRow
      <3>3. [status |-> "live", agent |-> call[w].agent, ref |-> call[w].ref,
             audience |-> call[w].audience, exp |-> Expiry(w), bound |-> call[w].bound,
             pop |-> call[w].pop] \in TokenRow
        BY <3>1, <3>2, CallFields DEF TokenRow
      <3> QED  BY <2>2, <3>3 DEF Mint, TypeOK
    <2> QED  BY <1>1, <2>1, <2>2
  <1> QED  BY <1>1, <1>2 DEF TypeOK, ControlTypes

LEMMA ControlTyped ==
    ASSUME TypeOK, ControlChange
    PROVE  TypeOK'
  <1>1. ControlTypes'
    <2> USE DEF TypeOK, ControlTypes
    <2>1. ASSUME NEW i \in Issues, issue_grant(i)  PROVE ControlTypes'
      <3>1. [owner |-> i.owner, scopes |-> i.scopes, status |-> "active", exp |-> now + i.ttl] \in GrantRow
        BY EnforcementAssumption, CallFields DEF GrantRow, Times
      <3> QED  BY <2>1, <3>1 DEF issue_grant
    <2>2. ASSUME NEW r \in Refs, revoke_grant(r)  PROVE ControlTypes'
      <3>1. [grants[r] EXCEPT !.status = "revoked"] \in GrantRow
        BY RevokedRows
      <3> QED  BY <2>2, <3>1 DEF revoke_grant
    <2>3. ASSUME NEW t \in Tokens, revoke_subject_token(t)  PROVE ControlTypes'
      <3>1. [tokens[t] EXCEPT !.status = "revoked"] \in TokenRow
        BY RevokedRows
      <3> QED  BY <2>3, <3>1 DEF revoke_subject_token
    <2>4. ASSUME NEW b \in Boundaries, NEW status \in {"active", "disabled"},
                 register_boundary(b, status) \/ set_boundary_status(b, status)
          PROVE  ControlTypes'
      BY <2>4 DEF register_boundary, set_boundary_status
    <2>5. ASSUME NEW h \in Holders, NEW m \in Mandates, NEW value \in {"on", "off"},
                 set_mandate(h, m, value)
          PROVE  ControlTypes'
      <3>1. [settings[h] EXCEPT ![m] = value] \in [AllMandates -> Setting]
        BY EnforcementAssumption DEF Setting
      <3> QED  BY <2>5, <3>1 DEF set_mandate
    <2>6. CASE Tick
      BY <2>6, EnforcementAssumption DEF Tick, Times
    <2> QED  BY <2>1, <2>2, <2>3, <2>4, <2>5, <2>6 DEF ControlChange
  <1>2. ControlStep
    BY DEF ControlChange, issue_grant, revoke_grant, revoke_subject_token, register_boundary,
           set_boundary_status, set_mandate, Tick
  <1>3. LocalTypes'
    BY <1>2 DEF ControlStep, local, answer, LocalTypes, TypeOK
  <1>4. SinceTyped'
    BY <1>2 DEF ControlStep, Observe, SinceTyped, TypeOK
  <1> QED  BY <1>1, <1>3, <1>4 DEF TypeOK, ControlTypes, LocalTypes, SinceTyped

-----------------------------------------------------------------------------
(***************************************************************************)
(* Rows: written once, then only revoked.                                  *)
(***************************************************************************)
GrantStays(r) ==
    grants[r].status # None =>
        /\ grants'[r].status # None
        /\ grants'[r].owner = grants[r].owner /\ grants'[r].exp = grants[r].exp
        /\ grants[r].status = "revoked" => grants'[r].status = "revoked"

TokenStays(t) ==
    tokens[t].status # None =>
        /\ tokens'[t].status # None
        /\ tokens'[t].agent = tokens[t].agent /\ tokens'[t].ref = tokens[t].ref
        /\ tokens'[t].audience = tokens[t].audience /\ tokens'[t].exp = tokens[t].exp
        /\ tokens'[t].pop = tokens[t].pop
        /\ tokens[t].status = "revoked" => tokens'[t].status = "revoked"

RowsStay == (\A r \in Refs : GrantStays(r)) /\ (\A t \in Tokens : TokenStays(t))

LEMMA ControlRows ==
    ASSUME TypeOK, ControlChange
    PROVE  RowsStay /\ \A t \in Tokens : tokens'[t].status # None => tokens[t].status # None
  <1> DEFINE P == RowsStay /\ \A t \in Tokens : tokens'[t].status # None => tokens[t].status # None
  <1> USE DEF RowsStay, GrantStays, TokenStays, TypeOK
  <1>1. ASSUME NEW i \in Issues, issue_grant(i)  PROVE P
    BY <1>1, CallFields DEF issue_grant, NoGrant
  <1>2. ASSUME NEW r \in Refs, revoke_grant(r)  PROVE P
    BY <1>2 DEF revoke_grant, GrantRow, None
  <1>3. ASSUME NEW t \in Tokens, revoke_subject_token(t)  PROVE P
    BY <1>3 DEF revoke_subject_token, TokenRow, None
  <1>4. CASE UNCHANGED <<grants, tokens>>
    BY <1>4
  <1> QED  BY <1>1, <1>2, <1>3, <1>4 DEF ControlChange, register_boundary,
              set_boundary_status, set_mandate, Tick

LEMMA ServeRows ==
    ASSUME TypeOK, NEW w \in Workers, OfItsKind(w), Serve(w)
    PROVE  RowsStay
  <1> USE DEF RowsStay, GrantStays, TokenStays
  <1>1. CASE UNCHANGED tokens
    BY <1>1, ServeControl
  <1>2. CASE Mint(w)
    <2>1. call[w].token \in Tokens
      BY <1>2, CallFields DEF Mint, OfItsKind, Minting
    <2>2. CASE tokens[call[w].token] = NoToken
      <3>1. tokens[call[w].token].status = None
        BY <2>2 DEF NoToken
      <3>2. \A t \in Tokens \ {call[w].token} : tokens'[t] = tokens[t]
        BY <1>2 DEF Mint, TypeOK
      <3> QED  BY <3>1, <3>2, ServeControl
    <2> QED  BY <1>1, <1>2, <2>2 DEF Mint
  <1> QED  BY <1>1, <1>2, ServeControl

\* A token is minted within the grant it names, and neither row changes in that.
LEMMA TokensWithin ==
    ASSUME IInv, [Next]_vars
    PROVE  TokensStayWithinTheirGrant' /\ TokensHaveGrants'
  <1> SUFFICES ASSUME NEW t \in Tokens, tokens'[t].status # None
               PROVE  /\ tokens'[t].exp <= grants'[tokens'[t].ref].exp
                      /\ tokens'[t].agent = grants'[tokens'[t].ref].owner
                      /\ tokens'[t].ref \in Refs /\ grants'[tokens'[t].ref].status # None
    BY DEF TokensStayWithinTheirGrant, TokensHaveGrants
  <1> USE DEF IInv
  <1>1. ASSUME tokens[t].status # None, RowsStay
        PROVE  /\ tokens'[t].exp <= grants'[tokens'[t].ref].exp
               /\ tokens'[t].agent = grants'[tokens'[t].ref].owner
               /\ tokens'[t].ref \in Refs /\ grants'[tokens'[t].ref].status # None
    BY <1>1 DEF RowsStay, GrantStays, TokenStays, TokensStayWithinTheirGrant, TokensHaveGrants
  <1>2. ASSUME NEW w \in Workers, Mint(w), tokens' # tokens
        PROVE  /\ tokens'[t].exp <= grants'[tokens'[t].ref].exp
               /\ tokens'[t].agent = grants'[tokens'[t].ref].owner
               /\ tokens'[t].ref \in Refs /\ grants'[tokens'[t].ref].status # None
    <2>1. /\ Sound(w) /\ call[w] \in Mints /\ UNCHANGED grants
          /\ tokens' = [tokens EXCEPT ![call[w].token] =
               [status |-> "live", agent |-> call[w].agent, ref |-> call[w].ref,
                audience |-> call[w].audience, exp |-> Expiry(w), bound |-> call[w].bound,
                pop |-> call[w].pop]]
      BY <1>2 DEF Mint, Sound, OfItsKind, Minting
    <2>2. CASE t = call[w].token
      <3>1. /\ tokens'[t].ref = call[w].ref /\ tokens'[t].agent = call[w].agent
            /\ tokens'[t].exp = Expiry(w)
        BY <2>1, <2>2 DEF TypeOK
      <3>2. /\ grants[call[w].ref].status # None /\ grants[call[w].ref].owner = call[w].agent
            /\ grants[call[w].ref].exp = grant[w].exp
        BY <1>2, <2>1 DEF Sound, GrantIsRead, Mint, Stages
      <3>3. grant[w].exp \in Nat /\ reading[w] \in Nat /\ call[w].ttl \in Nat
        BY <2>1, CallFields DEF TypeOK, GrantRow
      <3>4. Expiry(w) <= grant[w].exp
        BY <3>3 DEF Expiry
      <3> QED  BY <2>1, <3>1, <3>2, <3>4, CallFields
    <2>3. CASE t # call[w].token
      <3>1. tokens'[t] = tokens[t]
        BY <2>1, <2>3 DEF TypeOK
      <3> QED  BY <2>1, <3>1 DEF TokensStayWithinTheirGrant, TokensHaveGrants
    <2> QED  BY <2>2, <2>3
  <1>3. CASE ControlChange
    <2>1. RowsStay /\ tokens[t].status # None
      BY <1>3, ControlRows
    <2> QED  BY <1>1, <2>1
  <1>4. ASSUME NEW w \in Workers, Serve(w)
        PROVE  /\ tokens'[t].exp <= grants'[tokens'[t].ref].exp
               /\ tokens'[t].agent = grants'[tokens'[t].ref].owner
               /\ tokens'[t].ref \in Refs /\ grants'[tokens'[t].ref].status # None
    <2>1. RowsStay /\ (Mint(w) \/ UNCHANGED tokens)
      BY <1>4, ServeRows, ServeControl DEF Sound
    <2> QED  BY <1>1, <1>2, <2>1
  <1>5. CASE UNCHANGED vars
    BY <1>5 DEF vars, control, TokensStayWithinTheirGrant, TokensHaveGrants
  <1> QED  BY <1>3, <1>4, <1>5, StepCases

-----------------------------------------------------------------------------
(***************************************************************************)
(* Mandates: the row that decides.                                         *)
(***************************************************************************)
\* An agent's row that says nothing goes on saying nothing while another row,
\* or none, decides.
LEMMA DeciderStays ==
    ASSUME NEW old, NEW new, NEW a \in Agents, NEW m,
           old[a][m] = "unset", Decider(new, a, m) = Decider(old, a, m)
    PROVE  new[a][m] = "unset"
  <1> SUFFICES ASSUME new[a][m] # "unset"  PROVE FALSE
    OBVIOUS
  <1>1. Decider(new, a, m) = a
    BY DEF Decider
  <1>2. CASE old[Home[a]][m] # "unset"
    <2>1. Decider(old, a, m) = Home[a]
      BY <1>2 DEF Decider
    <2> QED  BY <1>1, <1>2, <2>1
  <1>3. CASE old[Home[a]][m] = "unset"
    <2>1. Decider(old, a, m) = None
      BY <1>3 DEF Decider
    <2> QED  BY <1>1, <2>1, EnforcementAssumption
  <1> QED  BY <1>2, <1>3

\* What the rows say of a mandate in force.
LEMMA ForceIsSaid ==
    ASSUME NEW set, NEW a \in Agents, NEW m, InForce(set, a, m)
    PROVE  \/ set[a][m] = "on"
           \/ set[a][m] = "unset" /\ set[Home[a]][m] = "on"
           \/ set[a][m] = "unset" /\ set[Home[a]][m] = "unset" /\ m \in DefaultOn
  <1>0. a # None /\ Home[a] # None
    BY EnforcementAssumption
  <1>1. CASE set[a][m] # "unset"
    <2>1. Decider(set, a, m) = a
      BY <1>1 DEF Decider
    <2> QED  BY <1>0, <2>1 DEF InForce
  <1>2. CASE set[a][m] = "unset" /\ set[Home[a]][m] # "unset"
    <2>1. Decider(set, a, m) = Home[a]
      BY <1>2 DEF Decider
    <2> QED  BY <1>0, <1>2, <2>1 DEF InForce
  <1>3. CASE set[a][m] = "unset" /\ set[Home[a]][m] = "unset"
    <2>1. Decider(set, a, m) = None
      BY <1>3 DEF Decider
    <2> QED  BY <1>3, <2>1 DEF InForce
  <1> QED  BY <1>1, <1>2, <1>3

-----------------------------------------------------------------------------
(***************************************************************************)
(* A request is not disturbed by what others do.                           *)
(***************************************************************************)
\* The request's own state stays, its history is brought up to date.
Undisturbed(w) ==
    /\ pc'[w] = pc[w] /\ call'[w] = call[w] /\ reading'[w] = reading[w] /\ grant'[w] = grant[w]
    /\ required'[w] = required[w] /\ partial'[w] = partial[w] /\ verified'[w] = verified[w]
    /\ verdict'[w] = verdict[w]
    /\ since'[w].dead \subseteq since[w].dead
    /\ \A b \in Boundaries \cap since'[w].dead : boundary'[b] # "active"
    /\ since'[w].steady \subseteq since[w].steady
    /\ pc[w] # "idle" =>
         \A m \in since'[w].steady :
            /\ InForce(settings', call[w].agent, m)
            /\ settings[call[w].agent][m] = "unset" => settings'[call[w].agent][m] = "unset"

LEMMA AgentOf ==
    ASSUME NEW w \in Workers, TypeOK, OfItsKind(w), pc[w] # "idle"
    PROVE  call[w].agent \in Agents /\ call[w].ref \in Refs /\ call[w] # NoCall
  <1>1. call[w] \in Calls \cup Mints
    BY DEF OfItsKind, TypeOK, Stages, Deciding, Minting
  <1>2. call[w].agent \in Agents /\ call[w].ref \in Refs
    BY <1>1, CallFields
  <1>3. NoCall.agent \notin Agents
    BY EnforcementAssumption DEF NoCall
  <1> QED  BY <1>2, <1>3

LEMMA SoundUndisturbed ==
    ASSUME NEW w \in Workers, TypeOK, Sound(w), RowsStay, Undisturbed(w)
    PROVE  Sound(w)'
  <1> USE DEF Undisturbed
  <1>1. OfItsKind(w)'
    BY DEF OfItsKind, Sound
  <1>2. DeadRows(w)'
    <2>1. ASSUME NEW r \in Refs \cap since'[w].dead  PROVE Spent(grants'[r], reading[w])
      <3>1. Spent(grants[r], reading[w])
        BY <2>1 DEF Sound, DeadRows
      <3>2. grants[r].status # None
        BY <3>1 DEF Spent, None
      <3> QED  BY <3>1, <3>2 DEF Spent, RowsStay, GrantStays
    <2>2. ASSUME NEW t \in Tokens \cap since'[w].dead  PROVE Spent(tokens'[t], reading[w])
      <3>1. Spent(tokens[t], reading[w])
        BY <2>2 DEF Sound, DeadRows
      <3>2. tokens[t].status # None
        BY <3>1 DEF Spent, None
      <3> QED  BY <3>1, <3>2 DEF Spent, RowsStay, TokenStays
    <2> QED  BY <2>1, <2>2 DEF DeadRows
  <1>3. GrantIsRead(w)'
    <2> SUFFICES ASSUME pc[w] \in Stages \ {"idle", "grant", "mint_grant"}
                 PROVE  /\ grant[w].owner = call[w].agent
                        /\ grants'[call[w].ref].status # None
                        /\ grants'[call[w].ref].owner = grant[w].owner
                        /\ grants'[call[w].ref].exp = grant[w].exp
      BY DEF GrantIsRead
    <2>1. call[w].ref \in Refs
      BY AgentOf DEF Sound
    <2> QED  BY <2>1 DEF RowsStay, GrantStays, Sound, GrantIsRead
  <1>4. AuthorityIsLive(w)'
    <2> SUFFICES ASSUME pc[w] \in Deciding \ {"grant"}
                 PROVE  AuthorityIsLive(w)'
      BY DEF AuthorityIsLive
    <2>1. AuthorityIsLive(w)
      BY DEF Sound
    <2>2. verified[w] \in Tokens \cup {None}
      BY DEF TypeOK
    <2>3. verified[w] # None => TokenStays(verified[w])
      BY <2>2 DEF RowsStay
    <2> QED  BY <2>1, <2>3 DEF AuthorityIsLive, TokenStays, WorkspaceAgrees
  <1>5. VerifiedLate(w)'
    BY DEF Sound, VerifiedLate
  <1>6. MandatesAreFound(w)'
    BY DEF Sound, MandatesAreFound, Asked
  <1>7. MandatesAreMet(w)'
    <2>1. verified[w] \in Tokens \cup {None}
      BY DEF TypeOK
    <2>2. verified[w] # None => TokenStays(verified[w])
      BY <2>1 DEF RowsStay
    <2>3. verified[w] # None /\ pc[w] \in Deciding \ {"grant"} => tokens[verified[w]].status # None
      BY DEF Sound, AuthorityIsLive
    <2> QED  BY <2>2, <2>3 DEF Sound, MandatesAreMet, TokenStays, Deciding
  <1>8. PermitIsSound(w)'
    BY DEF Sound, PermitIsSound
  <1> QED  BY <1>1, <1>2, <1>3, <1>4, <1>5, <1>6, <1>7, <1>8 DEF Sound

LEMMA ControlDisturbsNone ==
    ASSUME NEW w \in Workers, TypeOK, Sound(w), ControlChange
    PROVE  Undisturbed(w)
  <1>1. ControlStep
    BY DEF ControlChange, issue_grant, revoke_grant, revoke_subject_token, register_boundary,
           set_boundary_status, set_mandate, Tick
  <1>2. /\ pc'[w] = pc[w] /\ call'[w] = call[w] /\ reading'[w] = reading[w] /\ grant'[w] = grant[w]
        /\ required'[w] = required[w] /\ partial'[w] = partial[w] /\ verified'[w] = verified[w]
        /\ verdict'[w] = verdict[w]
    BY <1>1 DEF ControlStep, local
  <1>3. CASE pc[w] = "idle"
    <2>1. since'[w] = since[w]
      BY <1>1, <1>3 DEF ControlStep, Observe
    <2>2. since[w].dead = {} /\ since[w].steady = {}
      BY <1>3 DEF Sound, OfItsKind
    <2> QED  BY <1>2, <1>3, <2>1, <2>2 DEF Undisturbed
  <1>4. CASE pc[w] # "idle"
    <2>1. call[w].agent \in Agents /\ call[w] # NoCall
      BY <1>4, AgentOf DEF Sound
    <2>2. since'[w] = [steady |-> {m \in since[w].steady :
                         /\ InForce(settings', call[w].agent, m)
                         /\ Decider(settings', call[w].agent, m) = Decider(settings, call[w].agent, m)},
                       dead |-> since[w].dead \cap DeadNow(grants', tokens', boundary', now')]
      BY <1>1, <1>4, <2>1 DEF ControlStep, Observe
    <2>3. \A b \in Boundaries \cap since'[w].dead : boundary'[b] # "active"
      BY <2>2, EnforcementAssumption DEF DeadNow
    <2>4. \A m \in since'[w].steady :
            /\ InForce(settings', call[w].agent, m)
            /\ settings[call[w].agent][m] = "unset" => settings'[call[w].agent][m] = "unset"
      BY <2>1, <2>2, DeciderStays
    <2> QED  BY <1>2, <2>2, <2>3, <2>4 DEF Undisturbed
  <1> QED  BY <1>3, <1>4

\* A step of one request leaves the others' alone.
Same(w) ==
    /\ pc'[w] = pc[w] /\ call'[w] = call[w] /\ reading'[w] = reading[w] /\ grant'[w] = grant[w]
    /\ required'[w] = required[w] /\ partial'[w] = partial[w] /\ verified'[w] = verified[w]
    /\ verdict'[w] = verdict[w] /\ since'[w] = since[w]

LEMMA AnswerLeavesOthers ==
    ASSUME TypeOK, NEW v \in Workers, NEW w \in Workers \ {v}, NEW r, NEW event, Answer(v, r, event)
    PROVE  Same(w)
  BY DEF TypeOK, Answer, Same

LEMMA ForbidLeavesOthers ==
    ASSUME TypeOK, NEW v \in Workers, NEW w \in Workers \ {v}, Forbid(v) \/ Unavailable(v)
    PROVE  Same(w)
  BY AnswerLeavesOthers DEF Forbid, Unavailable

LEMMA GotoLeavesOthers ==
    ASSUME TypeOK, NEW v \in Workers, NEW w \in Workers \ {v}, NEW stage, Goto(v, stage),
           grant'[w] = grant[w], required'[w] = required[w],
           partial'[w] = partial[w], verified'[w] = verified[w]
    PROVE  Same(w)
  BY DEF TypeOK, Goto, Same

LEMMA LookUpLeavesOthers ==
    ASSUME TypeOK, NEW v \in Workers, NEW w \in Workers \ {v}, NEW m, NEW stage,
           LookUp(v, m, stage), UNCHANGED <<grant, verified>>
    PROVE  Same(w)
  <1>1. partial'[w] = partial[w] /\ required'[w] = required[w]
    BY DEF LookUp, TypeOK
  <1>2. PICK s : Goto(v, s)
    BY DEF LookUp
  <1> QED  BY <1>1, <1>2, GotoLeavesOthers

LEMMA ServeDisturbsNone ==
    ASSUME NEW v \in Workers, NEW w \in Workers \ {v}, TypeOK, Sound(v), Sound(w), Serve(v)
    PROVE  Undisturbed(w)
  <1>1. Same(w)
    <2>1. CASE Forbid(v) \/ Unavailable(v)
      BY <2>1, ForbidLeavesOthers
    <2>2. ASSUME NEW c, NEW stage, Begin(v, c, stage)  PROVE Same(w)
      BY <2>2 DEF TypeOK, Begin, Same
    <2>3. CASE ReadGrant(v) \/ ReadGrantToMint(v)
      <3> SUFFICES ASSUME ~(Forbid(v) \/ Unavailable(v))  PROVE Same(w)
        BY <2>1
      <3>1. grant'[w] = grant[w] /\ UNCHANGED <<required, partial, verified>>
        BY <2>3 DEF ReadGrant, ReadGrantToMint, TypeOK
      <3>2. PICK stage : Goto(v, stage)
        BY <2>3 DEF ReadGrant, ReadGrantToMint
      <3> QED  BY <3>1, <3>2, GotoLeavesOthers
    <2>4. CASE ReadTokenMandate(v) \/ ReadPopMandate(v) \/ ReadBoundaryMandate(v)
      BY <2>4, <2>1, LookUpLeavesOthers DEF ReadTokenMandate, ReadPopMandate, ReadBoundaryMandate
    <2>5. CASE ReadToken(v) \/ VerifyProof(v)
      <3> SUFFICES ASSUME ~(Forbid(v) \/ Unavailable(v))  PROVE Same(w)
        BY <2>1
      <3>1. verified'[w] = verified[w] /\ UNCHANGED <<grant, required, partial>>
        BY <2>5 DEF ReadToken, VerifyProof, TypeOK
      <3>2. PICK stage : Goto(v, stage)
        BY <2>5 DEF ReadToken, VerifyProof
      <3> QED  BY <3>1, <3>2, GotoLeavesOthers
    <2>6. CASE Evaluate(v)
      <3>1. CASE Answer(v, "invalid", None) \/ Unavailable(v)
        BY <3>1, <2>1, AnswerLeavesOthers
      <3>2. CASE /\ \E d : verdict' = [verdict EXCEPT ![v] = d]
                 /\ pc' = [pc EXCEPT ![v] = "record"]
                 /\ UNCHANGED <<call, reading, grant, required, partial, verified, answer, since>>
        BY <3>2 DEF TypeOK, Same
      <3> QED  BY <2>6, <3>1, <3>2 DEF Evaluate
    <2>7. CASE Record(v) \/ Respond(v) \/ Mint(v)
      <3>1. ASSUME NEW event, Recorded(v, event)  PROVE Same(w)
        BY <3>1 DEF TypeOK, Recorded, Same, local
      <3> QED  BY <2>7, <2>1, <3>1, AnswerLeavesOthers DEF Record, Respond, Mint
    <2> QED  BY <2>2, <2>3, <2>4, <2>5, <2>6, <2>7 DEF Serve
  <1>2. UNCHANGED <<boundary, settings>>
    BY ServeControl DEF Sound
  <1>3. /\ \A b \in Boundaries \cap since[w].dead : boundary[b] # "active"
        /\ pc[w] # "idle" => \A m \in since[w].steady : InForce(settings, call[w].agent, m)
    BY DEF Sound, DeadRows, MandatesAreFound
  <1> QED  BY <1>1, <1>2, <1>3 DEF Undisturbed, Same

-----------------------------------------------------------------------------
(***************************************************************************)
(* A request's own step.                                                   *)
(***************************************************************************)
LEMMA AnswerIsSound ==
    ASSUME TypeOK, NEW w \in Workers, NEW r, NEW event, Answer(w, r, event)
    PROVE  Sound(w)'
  <1>1. /\ pc'[w] = "idle" /\ partial'[w] = None /\ verified'[w] = None
        /\ since'[w].dead = {} /\ since'[w].steady = {}
    BY DEF TypeOK, Answer
  <1>2. OfItsKind(w)' /\ DeadRows(w)'
    BY <1>1 DEF OfItsKind, DeadRows, Deciding, Minting
  <1>3. GrantIsRead(w)' /\ AuthorityIsLive(w)' /\ VerifiedLate(w)'
    BY <1>1 DEF GrantIsRead, AuthorityIsLive, VerifiedLate, Deciding
  <1>4. MandatesAreFound(w)' /\ MandatesAreMet(w)' /\ PermitIsSound(w)'
    BY <1>1 DEF MandatesAreFound, MandatesAreMet, PermitIsSound, Deciding
  <1> QED  BY <1>2, <1>3, <1>4 DEF Sound

LEMMA ForbidIsSound ==
    ASSUME TypeOK, NEW w \in Workers, Forbid(w) \/ Unavailable(w)
    PROVE  Sound(w)'
  BY AnswerIsSound DEF Forbid, Unavailable

\* A request that goes on keeps its call and its history.
LEMMA GotoKeeps ==
    ASSUME TypeOK, NEW w \in Workers, NEW stage, Goto(w, stage), UNCHANGED control, Sound(w),
           \/ pc[w] \in Deciding /\ stage \in Deciding
           \/ pc[w] \in Minting /\ stage \in Minting
    PROVE  /\ pc'[w] = stage /\ call'[w] = call[w] /\ reading'[w] = reading[w]
           /\ verdict'[w] = verdict[w] /\ since'[w] = since[w]
           /\ OfItsKind(w)' /\ DeadRows(w)'
  <1>1. /\ pc'[w] = stage /\ call'[w] = call[w] /\ reading'[w] = reading[w]
        /\ verdict'[w] = verdict[w] /\ since'[w] = since[w]
    BY DEF TypeOK, Goto
  <1>2. OfItsKind(w)'
    BY <1>1 DEF OfItsKind, Sound, Deciding, Minting
  <1>3. DeadRows(w)'
    BY <1>1 DEF DeadRows, Sound, control
  <1> QED  BY <1>1, <1>2, <1>3

LEMMA BeginIsSound ==
    ASSUME TypeOK, NEW w \in Workers, Sound(w),
           \/ \E c \in Calls : Begin(w, c, "grant")
           \/ \E m \in Mints : Begin(w, m, "mint_grant")
    PROVE  Sound(w)'
  <1>1. PICK c \in Calls \cup Mints, stage \in {"grant", "mint_grant"} :
            /\ Begin(w, c, stage)
            /\ stage = "grant" => c \in Calls
            /\ stage = "mint_grant" => c \in Mints
    OBVIOUS
  <1>2. /\ pc'[w] = stage /\ call'[w] = c /\ reading'[w] = now /\ since'[w] = SinceStart(c.agent)
        /\ partial'[w] = partial[w] /\ verified'[w] = verified[w]
        /\ UNCHANGED <<grants, tokens, boundary, settings>>
    BY <1>1 DEF TypeOK, Begin, control
  <1>3. partial[w] = None /\ verified[w] = None
    BY <1>1 DEF Begin, Sound, VerifiedLate, MandatesAreFound
  <1>4. OfItsKind(w)'
    BY <1>1, <1>2 DEF OfItsKind, Deciding, Minting
  <1>5. DeadRows(w)'
    <2>1. since'[w].dead = DeadNow(grants, tokens, boundary, now)
      BY <1>2 DEF SinceStart
    <2> QED  BY <1>2, <2>1, EnforcementAssumption DEF DeadRows, DeadNow
  <1>6. GrantIsRead(w)' /\ AuthorityIsLive(w)' /\ VerifiedLate(w)'
    BY <1>2, <1>3 DEF GrantIsRead, AuthorityIsLive, VerifiedLate, Deciding
  <1>7. MandatesAreFound(w)'
    <2>1. \A m \in since'[w].steady : InForce(settings', call'[w].agent, m)
      BY <1>2 DEF SinceStart
    <2> QED  BY <1>2, <1>3, <2>1 DEF MandatesAreFound, Deciding
  <1>8. MandatesAreMet(w)' /\ PermitIsSound(w)'
    BY <1>2 DEF MandatesAreMet, PermitIsSound
  <1> QED  BY <1>4, <1>5, <1>6, <1>7, <1>8 DEF Sound

LEMMA ReadGrantIsSound ==
    ASSUME TypeOK, RowsAreWhole, NEW w \in Workers, Sound(w), ReadGrant(w)
    PROVE  Sound(w)'
  <1> SUFFICES ASSUME ~(Forbid(w) \/ Unavailable(w))  PROVE Sound(w)'
    BY ForbidIsSound
  <1>1. /\ pc[w] = "grant" /\ UNCHANGED control
        /\ WorkspaceAgrees(call[w]) /\ Usable(grants[call[w].ref], call[w])
        /\ grant' = [grant EXCEPT ![w] = grants[call[w].ref]]
        /\ UNCHANGED <<required, partial, verified>>
    BY DEF ReadGrant
  <1>2. PICK stage \in {"boundary_mandate", "token_mandate"} :
            Goto(w, stage) /\ (stage = "boundary_mandate" => call[w].pep = None)
    BY DEF ReadGrant
  <1>3. /\ pc'[w] = stage /\ call'[w] = call[w] /\ reading'[w] = reading[w]
        /\ since'[w] = since[w] /\ OfItsKind(w)' /\ DeadRows(w)'
    BY <1>1, <1>2, GotoKeeps DEF Deciding
  <1>4. grant'[w] = grants[call[w].ref]
    BY <1>1 DEF TypeOK
  <1>5. partial'[w] = None /\ verified'[w] = None
    BY <1>1 DEF Sound, VerifiedLate, MandatesAreFound
  <1>6. call[w].ref \in Refs
    BY <1>1, AgentOf DEF Sound
  <1>7. GrantIsRead(w)'
    <2>1. grants[call[w].ref].status # None
      BY <1>1, <1>6 DEF Usable, RowsAreWhole
    <2> QED  BY <1>1, <1>3, <1>4, <2>1 DEF GrantIsRead, Usable, control
  <1>8. AuthorityIsLive(w)'
    <2>1. call[w].ref \in since[w].dead => Spent(grants[call[w].ref], reading[w])
      BY <1>6 DEF Sound, DeadRows
    <2>2. reading[w] \in Nat /\ grants[call[w].ref].exp \in Nat
      BY <1>6 DEF TypeOK, GrantRow
    <2>3. grant'[w].status = "active" /\ grant'[w].exp > reading[w] => call[w].ref \notin since[w].dead
      BY <1>4, <2>1, <2>2 DEF Spent
    <2> QED  BY <1>1, <1>3, <1>5, <2>3 DEF AuthorityIsLive, WorkspaceAgrees
  <1>9. VerifiedLate(w)'
    BY <1>5 DEF VerifiedLate
  <1>10. MandatesAreFound(w)'
    BY <1>1, <1>2, <1>3, <1>5 DEF MandatesAreFound, Sound, control
  <1>11. MandatesAreMet(w)' /\ PermitIsSound(w)'
    BY <1>2, <1>3 DEF MandatesAreMet, PermitIsSound
  <1> QED  BY <1>3, <1>7, <1>8, <1>9, <1>10, <1>11 DEF Sound

\* One read of a settings row: it leads to the next read, or it decides, and
\* then a mandate in force throughout is found.
LEMMA LookUpFinds ==
    ASSUME TypeOK, NEW w \in Workers, NEW m, NEW stage, Sound(w), LookUp(w, m, stage),
           pc[w] \in {"token_mandate", "pop_mandate", "boundary_mandate"}, m = Asked(pc[w])
    PROVE  \/ /\ Goto(w, pc[w]) /\ partial'[w] = "unset" /\ required'[w] = required[w]
              /\ settings[call[w].agent][m] = "unset"
           \/ /\ Goto(w, stage) /\ partial'[w] = None
              /\ required[w] \subseteq required'[w] /\ required'[w] \subseteq required[w] \cup {m}
              /\ m \in since[w].steady => m \in required'[w]
  <1>1. call[w].agent \in Agents
    BY AgentOf DEF Sound
  <1> DEFINE a == call[w].agent
             row == IF partial[w] = None THEN settings[a][m] ELSE settings[Home[a]][m]
             decided == row # "unset" \/ partial[w] # None
             on == row = "on" \/ (row = "unset" /\ m \in DefaultOn)
  <1>2. CASE /\ ~decided /\ Goto(w, pc[w])
             /\ partial' = [partial EXCEPT ![w] = "unset"] /\ UNCHANGED required
    BY <1>2 DEF TypeOK
  <1>3. CASE /\ decided /\ Goto(w, stage) /\ partial' = [partial EXCEPT ![w] = None]
             /\ required' = [required EXCEPT ![w] = IF on THEN @ \cup {m} ELSE @]
    <2>1. partial'[w] = None /\ required'[w] = IF on THEN required[w] \cup {m} ELSE required[w]
      BY <1>3 DEF TypeOK
    <2>2. ASSUME m \in since[w].steady  PROVE on
      <3>1. InForce(settings, a, m)
        BY <2>2 DEF Sound, MandatesAreFound
      <3>2. \/ settings[a][m] = "on"
            \/ settings[a][m] = "unset" /\ settings[Home[a]][m] = "on"
            \/ settings[a][m] = "unset" /\ settings[Home[a]][m] = "unset" /\ m \in DefaultOn
        BY <1>1, <3>1, ForceIsSaid
      <3>3. partial[w] # None => settings[a][m] = "unset"
        BY <2>2 DEF Sound, MandatesAreFound
      <3> QED  BY <1>3, <3>2, <3>3
    <2> HIDE DEF on
    <2> QED  BY <1>3, <2>1, <2>2
  <1> QED  BY <1>2, <1>3 DEF LookUp

LEMMA LookUpIsSound ==
    ASSUME TypeOK, NEW w \in Workers, Sound(w),
           ReadTokenMandate(w) \/ ReadPopMandate(w) \/ ReadBoundaryMandate(w)
    PROVE  Sound(w)'
  <1> SUFFICES ASSUME ~Unavailable(w)  PROVE Sound(w)'
    BY ForbidIsSound
  <1>1. /\ pc[w] \in {"token_mandate", "pop_mandate", "boundary_mandate"}
        /\ UNCHANGED control /\ UNCHANGED <<grant, verified>>
    BY DEF ReadTokenMandate, ReadPopMandate, ReadBoundaryMandate
  <1> DEFINE m == Asked(pc[w])
             next == IF pc[w] = "token_mandate" THEN "pop_mandate"
                     ELSE IF pc[w] = "pop_mandate" THEN "token" ELSE "evaluate"
  <1>2. LookUp(w, m, next)
    BY DEF ReadTokenMandate, ReadPopMandate, ReadBoundaryMandate, Asked
  <1>3. \/ /\ Goto(w, pc[w]) /\ partial'[w] = "unset" /\ required'[w] = required[w]
           /\ settings[call[w].agent][m] = "unset"
        \/ /\ Goto(w, next) /\ partial'[w] = None
           /\ required[w] \subseteq required'[w] /\ required'[w] \subseteq required[w] \cup {m}
           /\ m \in since[w].steady => m \in required'[w]
    <2> HIDE DEF next
    <2> QED  BY <1>1, <1>2, LookUpFinds
  <1>4. PICK stage \in {pc[w], next} : Goto(w, stage) /\ pc'[w] = stage
    <2>1. \A s : Goto(w, s) => pc'[w] = s
      BY DEF Goto, TypeOK
    <2> QED  BY <1>3, <2>1
  <1>5. stage \in Deciding /\ pc[w] \in Deciding
    BY <1>1, <1>4 DEF Deciding
  <1>6. /\ call'[w] = call[w] /\ reading'[w] = reading[w] /\ verdict'[w] = verdict[w]
        /\ since'[w] = since[w] /\ OfItsKind(w)' /\ DeadRows(w)'
    BY <1>1, <1>4, <1>5, GotoKeeps
  <1>7. /\ grant'[w] = grant[w] /\ verified'[w] = verified[w]
        /\ UNCHANGED <<grants, tokens, boundary, settings>>
    BY <1>1 DEF control
  <1>8. GrantIsRead(w)'
    BY <1>1, <1>6, <1>7 DEF Sound, GrantIsRead, Stages
  <1>9. AuthorityIsLive(w)'
    BY <1>1, <1>6, <1>7 DEF Sound, AuthorityIsLive, WorkspaceAgrees, Deciding
  <1>10. VerifiedLate(w)'
    BY <1>1, <1>4, <1>7 DEF Sound, VerifiedLate
  <1>11. \/ /\ pc'[w] = pc[w] /\ partial'[w] = "unset" /\ required'[w] = required[w]
            /\ settings[call[w].agent][m] = "unset"
         \/ /\ pc'[w] = next /\ partial'[w] = None
            /\ required[w] \subseteq required'[w] /\ required'[w] \subseteq required[w] \cup {m}
            /\ m \in since[w].steady => m \in required'[w]
    <2>1. \A s : Goto(w, s) => pc'[w] = s
      BY DEF Goto, TypeOK
    <2> QED  BY <1>3, <2>1
  <1>12. MandatesAreFound(w)'
    <2>1. CASE /\ pc'[w] = pc[w] /\ partial'[w] = "unset" /\ required'[w] = required[w]
               /\ settings[call[w].agent][m] = "unset"
      BY <1>1, <1>6, <1>7, <2>1 DEF Sound, MandatesAreFound
    <2>2. CASE /\ pc'[w] = next /\ partial'[w] = None
               /\ required[w] \subseteq required'[w]
               /\ m \in since[w].steady => m \in required'[w]
      BY <1>1, <1>6, <1>7, <2>2 DEF Sound, MandatesAreFound, Asked, Deciding
    <2> QED  BY <1>11, <2>1, <2>2
  <1>13. MandatesAreMet(w)'
    <2> SUFFICES ASSUME pc'[w] \in {"proof", "boundary_mandate", "evaluate", "record", "respond"}
                 PROVE  MandatesAreMet(w)'
      BY DEF MandatesAreMet
    <2>1. pc[w] = "boundary_mandate" /\ required'[w] \cap {"token", "pop"} = required[w] \cap {"token", "pop"}
      BY <1>1, <1>11 DEF Asked
    <2> QED  BY <1>6, <1>7, <2>1 DEF Sound, MandatesAreMet
  <1>14. PermitIsSound(w)'
    BY <1>1, <1>11 DEF PermitIsSound
  <1> QED  BY <1>6, <1>8, <1>9, <1>10, <1>12, <1>13, <1>14 DEF Sound

LEMMA TokenIsSound ==
    ASSUME TypeOK, NEW w \in Workers, Sound(w), ReadToken(w) \/ VerifyProof(w)
    PROVE  Sound(w)'
  <1> SUFFICES ASSUME ~Forbid(w)  PROVE Sound(w)'
    BY ForbidIsSound
  <1>1. /\ pc[w] \in {"token", "proof"}
        /\ UNCHANGED control /\ UNCHANGED <<grant, required, partial>>
    BY DEF ReadToken, VerifyProof
  <1>2. PICK stage \in {"proof", "boundary_mandate"} : Goto(w, stage)
    BY DEF ReadToken, VerifyProof
  <1>3. /\ pc'[w] = stage /\ call'[w] = call[w] /\ reading'[w] = reading[w]
        /\ since'[w] = since[w] /\ OfItsKind(w)' /\ DeadRows(w)'
    BY <1>1, <1>2, GotoKeeps DEF Deciding
  <1>4. /\ grant'[w] = grant[w] /\ required'[w] = required[w] /\ partial'[w] = None
        /\ UNCHANGED <<grants, tokens, boundary, settings>>
    BY <1>1 DEF control, Sound, MandatesAreFound
  <1>5. call[w] \in Calls
    BY <1>1 DEF Sound, OfItsKind, Deciding
  <1>6. \* the token it goes on with, when there is one
        /\ verified'[w] # None =>
             /\ tokens[verified'[w]].status # None
             /\ tokens[verified'[w]].audience = call[w].pep
             /\ tokens[verified'[w]].agent = call[w].agent
             /\ verified'[w] \notin since[w].dead
        /\ call[w].pep # None =>
             /\ required[w] \cap {"token", "pop"} # {} => verified'[w] # None
             /\ "pop" \in required[w] => tokens[verified'[w]].pop
    <2>1. CASE VerifyProof(w)
      <3>1. verified'[w] = verified[w] /\ pc[w] = "proof"
        BY <2>1 DEF VerifyProof
      <3> QED  BY <3>1 DEF Sound, AuthorityIsLive, MandatesAreMet, Deciding
    <2>2. CASE pc[w] = "token" /\ ~TokenMissing(w) /\ call[w].token = None /\ UNCHANGED verified
      <3>1. verified'[w] = None
        BY <2>2 DEF Sound, VerifiedLate
      <3>2. required[w] \cap {"token", "pop"} = {}
        BY <2>2 DEF TokenMissing
      <3> QED  BY <3>1, <3>2
    <2>3. CASE LET t == IF call[w].token = Blank THEN NoToken ELSE tokens[call[w].token] IN
               /\ pc[w] = "token" /\ call[w].token # None /\ TokenGood(w, t)
               /\ t.pop \/ "pop" \notin required[w]
               /\ verified' = [verified EXCEPT ![w] = call[w].token]
      <3>1. call[w].token \in Tokens /\ call[w].token # Blank
        BY <1>5, <2>3, CallFields, EnforcementAssumption DEF TokenGood, NoToken, None
      <3>2. verified'[w] = call[w].token /\ TokenGood(w, tokens[call[w].token])
            /\ (tokens[call[w].token].pop \/ "pop" \notin required[w])
        BY <2>3, <3>1 DEF TypeOK
      <3>3. tokens[call[w].token] \in TokenRow /\ reading[w] \in Nat
        BY <3>1 DEF TypeOK
      <3>4. ~Spent(tokens[call[w].token], reading[w])
        BY <3>2, <3>3 DEF Spent, TokenGood, TokenRow
      <3>5. call[w].token \notin since[w].dead
        BY <3>1, <3>4 DEF Sound, DeadRows
      <3> QED  BY <2>3, <3>2, <3>5 DEF TokenGood, Agrees, None
    <2> QED  BY <2>1, <2>2, <2>3 DEF ReadToken
  <1>7. GrantIsRead(w)'
    BY <1>1, <1>3, <1>4 DEF Sound, GrantIsRead, Stages
  <1>8. AuthorityIsLive(w)'
    BY <1>1, <1>3, <1>4, <1>6 DEF Sound, AuthorityIsLive, WorkspaceAgrees, Deciding
  <1>9. VerifiedLate(w)'
    BY <1>3 DEF VerifiedLate
  <1>10. MandatesAreFound(w)'
    BY <1>1, <1>3, <1>4 DEF Sound, MandatesAreFound, Deciding
  <1>11. MandatesAreMet(w)' /\ PermitIsSound(w)'
    BY <1>3, <1>4, <1>6 DEF MandatesAreMet, PermitIsSound
  <1> QED  BY <1>3, <1>7, <1>8, <1>9, <1>10, <1>11 DEF Sound

LEMMA EvaluateIsSound ==
    ASSUME TypeOK, NEW w \in Workers, Sound(w), Evaluate(w)
    PROVE  Sound(w)'
  <1> SUFFICES ASSUME ~(Answer(w, "invalid", None) \/ Unavailable(w))  PROVE Sound(w)'
    BY ForbidIsSound, AnswerIsSound
  <1>1. /\ pc[w] = "evaluate" /\ UNCHANGED control
        /\ verdict' = [verdict EXCEPT ![w] = IF evaluate_enforce(w) THEN "permit" ELSE "deny"]
        /\ pc' = [pc EXCEPT ![w] = "record"]
        /\ UNCHANGED <<call, reading, grant, required, partial, verified, answer, since>>
    BY DEF Evaluate
  <1>2. /\ pc'[w] = "record" /\ (verdict'[w] = "permit" => evaluate_enforce(w))
        /\ call'[w] = call[w] /\ reading'[w] = reading[w] /\ grant'[w] = grant[w]
        /\ required'[w] = required[w] /\ partial'[w] = partial[w] /\ verified'[w] = verified[w]
        /\ since'[w] = since[w] /\ UNCHANGED <<grants, tokens, boundary, settings>>
    BY <1>1 DEF TypeOK, control
  <1>3. OfItsKind(w)' /\ DeadRows(w)'
    BY <1>1, <1>2 DEF Sound, OfItsKind, DeadRows, Deciding, Minting
  <1>4. GrantIsRead(w)' /\ VerifiedLate(w)'
    BY <1>1, <1>2 DEF Sound, GrantIsRead, VerifiedLate, Stages
  <1>5. AuthorityIsLive(w)'
    BY <1>1, <1>2 DEF Sound, AuthorityIsLive, WorkspaceAgrees, Deciding
  <1>6. MandatesAreFound(w)'
    BY <1>1, <1>2 DEF Sound, MandatesAreFound, Deciding
  <1>7. MandatesAreMet(w)'
    BY <1>1, <1>2 DEF Sound, MandatesAreMet
  <1>8. PermitIsSound(w)'
    <2> SUFFICES ASSUME evaluate_enforce(w)
                 PROVE  /\ grant[w].status = "active" /\ grant[w].exp > reading[w]
                        /\ call[w].boundary # None =>
                             /\ Home[call[w].boundary] = Home[call[w].agent]
                             /\ call[w].boundary \notin since[w].dead
                        /\ "boundary" \in required[w] => call[w].boundary # None
      BY <1>2 DEF PermitIsSound
    <2>1. grant[w].owner = call[w].agent
      BY <1>1 DEF Sound, GrantIsRead, Stages
    <2>2. call[w].boundary \in Boundaries \cup {None}
      BY <1>1, CallFields DEF Sound, OfItsKind, Deciding
    <2>3. call[w].boundary # None /\ boundary[call[w].boundary] = "active"
            => call[w].boundary \notin since[w].dead
      BY <2>2 DEF Sound, DeadRows
    <2> QED  BY <2>1, <2>3 DEF evaluate_enforce, _resolve_boundary
  <1> QED  BY <1>3, <1>4, <1>5, <1>6, <1>7, <1>8 DEF Sound

\* Writing the event changes nothing the decision rests on.
LEMMA RecordedIsSound ==
    ASSUME TypeOK, NEW w \in Workers, Sound(w), pc[w] = "record", NEW event, Recorded(w, event),
           UNCHANGED control
    PROVE  Sound(w)'
  <1>1. /\ pc'[w] = "respond"
        /\ UNCHANGED <<call, reading, grant, required, partial, verified, verdict, since>>
        /\ UNCHANGED <<grants, tokens, boundary, settings>>
    BY DEF TypeOK, Recorded, local, control
  <1>2. OfItsKind(w)' /\ DeadRows(w)'
    BY <1>1 DEF Sound, OfItsKind, DeadRows, Deciding, Minting
  <1>3. GrantIsRead(w)' /\ VerifiedLate(w)' /\ PermitIsSound(w)'
    BY <1>1 DEF Sound, GrantIsRead, VerifiedLate, PermitIsSound, Stages
  <1>4. AuthorityIsLive(w)'
    BY <1>1 DEF Sound, AuthorityIsLive, WorkspaceAgrees, Deciding
  <1>5. MandatesAreFound(w)' /\ MandatesAreMet(w)'
    BY <1>1 DEF Sound, MandatesAreFound, MandatesAreMet, Deciding
  <1> QED  BY <1>2, <1>3, <1>4, <1>5 DEF Sound

LEMMA ReadGrantToMintIsSound ==
    ASSUME TypeOK, NEW w \in Workers, Sound(w), ReadGrantToMint(w)
    PROVE  Sound(w)'
  <1> SUFFICES ASSUME ~(Forbid(w) \/ Unavailable(w))  PROVE Sound(w)'
    BY ForbidIsSound
  <1>1. /\ pc[w] = "mint_grant" /\ UNCHANGED control
        /\ grants[call[w].ref].owner = call[w].agent
        /\ _grant_is_valid(grants[call[w].ref], reading[w])
        /\ grant' = [grant EXCEPT ![w] = grants[call[w].ref]]
        /\ Goto(w, "mint") /\ UNCHANGED <<required, partial, verified>>
    BY DEF ReadGrantToMint
  <1>2. /\ pc'[w] = "mint" /\ call'[w] = call[w] /\ reading'[w] = reading[w]
        /\ since'[w] = since[w] /\ OfItsKind(w)' /\ DeadRows(w)'
    BY <1>1, GotoKeeps DEF Minting
  <1>3. grant'[w] = grants[call[w].ref] /\ UNCHANGED <<grants, settings>>
    BY <1>1 DEF TypeOK, control
  <1>4. partial'[w] = None /\ verified'[w] = None
    BY <1>1 DEF Sound, VerifiedLate, MandatesAreFound
  <1>5. GrantIsRead(w)' /\ AuthorityIsLive(w)' /\ VerifiedLate(w)'
    BY <1>1, <1>2, <1>3, <1>4 DEF GrantIsRead, AuthorityIsLive, VerifiedLate, _grant_is_valid,
       Deciding, None
  <1>6. MandatesAreFound(w)'
    BY <1>1, <1>2, <1>3, <1>4 DEF Sound, MandatesAreFound, Deciding
  <1>7. MandatesAreMet(w)' /\ PermitIsSound(w)'
    BY <1>2 DEF MandatesAreMet, PermitIsSound
  <1> QED  BY <1>2, <1>5, <1>6, <1>7 DEF Sound

LEMMA ServeIsSound ==
    ASSUME TypeOK, RowsAreWhole, NEW w \in Workers, Sound(w), Serve(w)
    PROVE  Sound(w)'
  <1>1. CASE Record(w) \/ Respond(w) \/ Mint(w)
    BY <1>1, AnswerIsSound, ForbidIsSound, RecordedIsSound DEF Record, Respond, Mint
  <1> QED
    BY <1>1, BeginIsSound, ReadGrantIsSound, LookUpIsSound, TokenIsSound, EvaluateIsSound,
       ReadGrantToMintIsSound DEF Serve

-----------------------------------------------------------------------------
(***************************************************************************)
(* The invariant holds at the start and every step keeps it.               *)
(***************************************************************************)
LEMMA InitialInvariant ==
    ASSUME Init
    PROVE  IInv
  <1>1. TypeOK
    BY BlankRows, EnforcementAssumption
       DEF Init, TypeOK, Times, Setting, Stages, Events
  <1>2. RowsAreWhole /\ TokensStayWithinTheirGrant /\ TokensHaveGrants
    BY DEF Init, RowsAreWhole, TokensStayWithinTheirGrant, TokensHaveGrants, NoToken
  <1>3. ASSUME NEW w \in Workers  PROVE Sound(w)
    <2>1. /\ pc[w] = "idle" /\ partial[w] = None /\ verified[w] = None
          /\ since[w].dead = {} /\ since[w].steady = {}
      BY DEF Init
    <2> QED  BY <2>1 DEF Sound, OfItsKind, DeadRows, GrantIsRead, AuthorityIsLive, VerifiedLate,
                MandatesAreFound, MandatesAreMet, PermitIsSound, Deciding, Minting
  <1> QED  BY <1>1, <1>2, <1>3 DEF IInv

LEMMA TypesStay ==
    ASSUME IInv, [Next]_vars
    PROVE  TypeOK'
  <1>1. CASE ControlChange
    BY <1>1, ControlTyped DEF IInv
  <1>2. ASSUME NEW w \in Workers, Serve(w)  PROVE TypeOK'
    <2>1. LocalTypes' /\ SinceTyped' /\ ControlTypes'
      BY <1>2, ServeTyped, ServeControl DEF IInv, Sound
    <2> QED  BY <2>1 DEF TypeOK, LocalTypes, SinceTyped, ControlTypes
  <1>3. CASE UNCHANGED vars
    BY <1>3 DEF IInv, TypeOK, vars, control, local, answer
  <1> QED  BY <1>1, <1>2, <1>3, StepCases

LEMMA RowsStayWhole ==
    ASSUME IInv, [Next]_vars
    PROVE  RowsAreWhole'
  <1> USE DEF IInv, TypeOK, RowsAreWhole
  <1>1. ASSUME NEW i \in Issues, issue_grant(i)  PROVE RowsAreWhole'
    BY <1>1, CallFields DEF issue_grant, None
  <1>2. ASSUME NEW r \in Refs, revoke_grant(r)  PROVE RowsAreWhole'
    BY <1>2 DEF revoke_grant, GrantRow, None
  <1>3. CASE UNCHANGED grants
    BY <1>3
  <1>4. CASE ControlChange
    BY <1>1, <1>2, <1>3, <1>4 DEF ControlChange, revoke_subject_token, register_boundary,
       set_boundary_status, set_mandate, Tick
  <1>5. ASSUME NEW w \in Workers, Serve(w)  PROVE UNCHANGED grants
    BY <1>5, ServeControl DEF Sound
  <1> QED  BY <1>3, <1>4, <1>5, StepCases DEF vars, control

LEMMA InvariantStep ==
    ASSUME IInv, [Next]_vars
    PROVE  IInv'
  <1>1. TypeOK' /\ RowsAreWhole' /\ TokensStayWithinTheirGrant' /\ TokensHaveGrants'
    BY TypesStay, RowsStayWhole, TokensWithin
  <1>2. ASSUME NEW w \in Workers  PROVE Sound(w)'
    <2>1. TypeOK /\ RowsAreWhole /\ Sound(w)
      BY DEF IInv
    <2>2. CASE ControlChange
      BY <2>1, <2>2, ControlRows, ControlDisturbsNone, SoundUndisturbed
    <2>3. ASSUME NEW v \in Workers, Serve(v)  PROVE Sound(w)'
      <3>1. CASE v = w
        BY <2>1, <2>3, <3>1, ServeIsSound
      <3>2. CASE v # w
        <4>1. Sound(v) /\ OfItsKind(v)
          BY DEF IInv, Sound
        <4>2. RowsStay /\ Undisturbed(w)
          BY <2>1, <2>3, <3>2, <4>1, ServeRows, ServeDisturbsNone
        <4> QED  BY <2>1, <4>2, SoundUndisturbed
      <3> QED  BY <3>1, <3>2
    <2>4. CASE UNCHANGED vars
      BY <2>1, <2>4 DEF vars, control, local, Sound, OfItsKind, DeadRows, GrantIsRead,
         AuthorityIsLive, VerifiedLate, MandatesAreFound, MandatesAreMet, PermitIsSound, Asked,
         WorkspaceAgrees
    <2> QED  BY <2>2, <2>3, <2>4, StepCases
  <1> QED  BY <1>1, <1>2 DEF IInv

\* The invariant holds in every state the decision path can be in.
THEOREM EnforcementInvariant == Spec => []IInv
  BY InitialInvariant, InvariantStep, PTL DEF Spec

\* The rows, the requests in flight and their answers are well formed throughout.
THEOREM EnforcementTypes == Spec => []TypeOK
  <1>1. IInv => TypeOK
    BY DEF IInv
  <1> QED  BY <1>1, EnforcementInvariant, PTL

\* A permit rests on a grant, a token and a boundary of the caller's own
\* workspace, none of them revoked, expired or inactive throughout the request,
\* and a token never outlives its grant, however reads of the request and
\* changes of the control plane interleave.
THEOREM PermitsRestOnLiveAuthority == Spec => []PermitsAreSound
  <1>1. IInv => PermitsAreSound
    <2> SUFFICES ASSUME IInv  PROVE PermitsAreSound
      OBVIOUS
    <2> SUFFICES ASSUME NEW w \in Permitting
                 PROVE  /\ {call[w].ref, verified[w], call[w].boundary} \cap since[w].dead = {}
                        /\ grants[call[w].ref].owner = call[w].agent
                        /\ call[w].pep # None => Home[call[w].pep] = Home[call[w].agent]
                        /\ call[w].boundary # None => Home[call[w].boundary] = Home[call[w].agent]
                        /\ verified[w] # None =>
                             /\ tokens[verified[w]].audience = call[w].pep
                             /\ tokens[verified[w]].agent = call[w].agent
      BY DEF IInv, PermitsAreSound, DeadAuthorityNeverPermits, PermitsStayInTheirWorkspace
    <2>1. w \in Workers /\ Sound(w) /\ pc[w] \in {"record", "respond"} /\ verdict[w] = "permit"
      BY DEF Permitting, IInv
    <2>2. PermitIsSound(w) /\ GrantIsRead(w) /\ AuthorityIsLive(w)
      BY <2>1 DEF Sound
    <2>3. None \notin since[w].dead
      BY <2>1, EnforcementAssumption DEF IInv, TypeOK
    <2>4. call[w].ref \notin since[w].dead /\ verified[w] \notin since[w].dead
          /\ call[w].boundary \notin since[w].dead
      BY <2>1, <2>2, <2>3 DEF PermitIsSound, AuthorityIsLive, Deciding
    <2> QED  BY <2>1, <2>2, <2>4 DEF PermitIsSound, GrantIsRead, AuthorityIsLive, Deciding, Stages,
                WorkspaceAgrees
  <1> QED  BY <1>1, EnforcementInvariant, PTL

\* A mandate that one settings row keeps in force for the whole of a request is
\* obeyed by a permit of that request, though the rows are read one by one.
THEOREM SteadyMandatesHold == Spec => []SteadyMandatesAreObeyed
  <1>1. IInv => SteadyMandatesAreObeyed
    <2> SUFFICES ASSUME IInv, NEW w \in Permitting, NEW m \in since[w].steady  PROVE Obeys(w, m)
      BY DEF SteadyMandatesAreObeyed
    <2>1. w \in Workers /\ Sound(w) /\ pc[w] \in {"record", "respond"} /\ verdict[w] = "permit"
      BY DEF Permitting, IInv
    <2>2. m \in AllMandates
      BY <2>1 DEF IInv, TypeOK
    <2>3. PermitIsSound(w) /\ MandatesAreFound(w) /\ MandatesAreMet(w)
      BY <2>1 DEF Sound
    <2>4. CASE m = "boundary"
      BY <2>1, <2>3, <2>4 DEF Obeys, PermitIsSound, MandatesAreFound
    <2>5. CASE m = "token"
      BY <2>1, <2>3, <2>5 DEF Obeys, MandatesAreMet, MandatesAreFound, Deciding
    <2>6. CASE m = "pop"
      BY <2>1, <2>3, <2>6 DEF Obeys, MandatesAreMet, MandatesAreFound, Deciding
    <2> QED  BY <2>2, <2>4, <2>5, <2>6 DEF AllMandates
  <1> QED  BY <1>1, EnforcementInvariant, PTL

\* Why: a request under way has answered nothing, and once its event is written
\* the decision it goes on to answer is the one in the event.
Recording(w) ==
    /\ pc[w] # "idle" => reply[w] = None
    /\ pc[w] = "respond" => trail[w] = verdict[w]
    /\ reply[w] \in {"permit", "deny"} => trail[w] = reply[w]
    /\ reply[w] \in {"forbidden", "invalid"} => trail[w] = None

LEMMA AnswersAreRecorded ==
    ASSUME TypeOK, NEW v \in Workers, NEW w \in Workers, Recording(w), NEW r, NEW event,
           Answer(v, r, event),
           r \in {"permit", "deny"} => event = r, r \in {"forbidden", "invalid"} => event = None
    PROVE  Recording(w)'
  BY DEF TypeOK, Recording, Answer

LEMMA WorkIsRecorded ==
    ASSUME TypeOK, NEW w \in Workers, Recording(w), NEW v \in Workers, Serve(v), Recording(v)
    PROVE  Recording(w)'
  <1>1. CASE Forbid(v) \/ Unavailable(v) \/ Answer(v, "invalid", None)
    BY <1>1, AnswersAreRecorded DEF Forbid, Unavailable
  <1>2. ASSUME NEW c, NEW stage \in {"grant", "mint_grant"}, Begin(v, c, stage)
        PROVE  Recording(w)'
    BY <1>2 DEF TypeOK, Recording, Begin, None
  <1>3. ASSUME NEW stage \in Stages \ {"idle", "respond"}, Goto(v, stage), pc[v] # "idle"
        PROVE  Recording(w)'
    BY <1>3 DEF TypeOK, Recording, Goto, answer
  <1>4. CASE Record(v) \/ Respond(v) \/ Mint(v)
    <2>1. verdict[v] \in {None, "permit", "deny"}
      BY DEF TypeOK
    <2>2. CASE Recorded(v, verdict[v]) /\ pc[v] = "record"
      BY <2>2 DEF TypeOK, Recording, Recorded, local, None
    <2>3. ASSUME NEW event, Answer(v, "unavailable", event)  PROVE Recording(w)'
      BY <2>3, AnswersAreRecorded
    <2>4. ASSUME Respond(v), NEW r \in {None, verdict[v]}, Answer(v, r, trail[v])
          PROVE  Recording(w)'
      <3>1. trail[v] = verdict[v] /\ r \notin {"forbidden", "invalid"}
        BY <2>1, <2>4 DEF Respond, Recording, None
      <3>2. r \in {"permit", "deny"} => trail[v] = r
        BY <2>4, <3>1 DEF None
      <3> QED  BY <2>4, <3>1, <3>2, AnswersAreRecorded
    <2>5. CASE Answer(v, "minted", "minted")
      BY <2>5, AnswersAreRecorded
    <2> QED  BY <1>1, <1>4, <2>2, <2>3, <2>4, <2>5 DEF Record, Respond, Mint
  <1>5. CASE Evaluate(v)
    <2>1. CASE /\ pc[v] = "evaluate" /\ pc' = [pc EXCEPT ![v] = "record"]
               /\ \E d : verdict' = [verdict EXCEPT ![v] = d]
               /\ UNCHANGED answer
      BY <2>1 DEF TypeOK, Recording, answer
    <2> QED  BY <1>1, <1>5, <2>1 DEF Evaluate
  <1>6. CASE ReadGrant(v) \/ ReadGrantToMint(v) \/ ReadToken(v) \/ VerifyProof(v)
    <2> SUFFICES ASSUME ~(Forbid(v) \/ Unavailable(v))  PROVE Recording(w)'
      BY <1>1
    <2>1. PICK stage \in Stages \ {"idle", "respond"} : Goto(v, stage)
      BY <1>6 DEF ReadGrant, ReadGrantToMint, ReadToken, VerifyProof, Stages
    <2> QED  BY <1>3, <1>6, <2>1 DEF ReadGrant, ReadGrantToMint, ReadToken, VerifyProof
  <1>7. CASE ReadTokenMandate(v) \/ ReadPopMandate(v) \/ ReadBoundaryMandate(v)
    <2> SUFFICES ASSUME ~Unavailable(v)  PROVE Recording(w)'
      BY <1>1
    <2>1. PICK stage \in Stages \ {"idle", "respond"} : Goto(v, stage)
      BY <1>7 DEF ReadTokenMandate, ReadPopMandate, ReadBoundaryMandate, LookUp, Stages
    <2> QED  BY <1>3, <1>7, <2>1 DEF ReadTokenMandate, ReadPopMandate, ReadBoundaryMandate
  <1> QED  BY <1>2, <1>4, <1>5, <1>6, <1>7 DEF Serve

\* The trail says what the caller was told: a permit or a denial that is answered
\* has its event there with the same decision, a refusal without a decision has
\* none, whichever of the write, its acknowledgement and the answer fails.
THEOREM DecisionsHaveEvents == Spec => []DecisionsAreRecorded
  <1> DEFINE Kept == \A w \in Workers : Recording(w)
  <1>1. Init => Kept
    BY DEF Init, Recording, None
  <1>2. TypeOK /\ Kept /\ [Next]_vars => Kept'
    <2> SUFFICES ASSUME TypeOK, Kept, [Next]_vars, NEW w \in Workers  PROVE Recording(w)'
      OBVIOUS
    <2>1. CASE UNCHANGED <<pc, verdict, answer>>
      BY <2>1 DEF Recording, answer
    <2>2. CASE ControlChange
      <3>1. ControlStep
        BY <2>2 DEF ControlChange, issue_grant, revoke_grant, revoke_subject_token,
           register_boundary, set_boundary_status, set_mandate, Tick
      <3> QED  BY <2>1, <3>1 DEF ControlStep, local
    <2>3. ASSUME NEW v \in Workers, Serve(v)  PROVE Recording(w)'
      BY <2>3, WorkIsRecorded
    <2> QED  BY <2>1, <2>2, <2>3, StepCases DEF vars, local
  <1>3. Kept => DecisionsAreRecorded
    BY DEF Recording, DecisionsAreRecorded
  <1> QED  BY <1>1, <1>2, <1>3, EnforcementTypes, PTL DEF Spec

=============================================================================
