--------------------------- MODULE GrantLifecycle ---------------------------
(***************************************************************************)
(* How authority comes to be: agents ask for grants, a workspace approves, *)
(* rejects or lets its rules approve, operators issue grants directly, and *)
(* all of it runs against bounds and rules that others change.             *)
(*                                                                         *)
(* A decision is one transaction, one at a time per request.  On           *)
(* PostgreSQL a transaction-scoped advisory lock on a hash of the request  *)
(* id serializes deciders, and each statement sees, under READ COMMITTED,  *)
(* what others have committed by then: those statements are the steps.  On *)
(* SQLite, BEGIN IMMEDIATE serializes the whole transaction with every     *)
(* other writer, which leaves a subset of these behaviours.  A direct      *)
(* issue is a transaction without the lock.                                *)
(***************************************************************************)
EXTENDS Scope, FiniteSets

CONSTANTS
    Deciders,       \* threads that decide or issue
    RequestIds, RuleIds, Agents, Workspaces,
    Home,           \* the workspace of each agent
    LockKey,        \* the hash of a request id: two ids may share a key
    Asks,           \* what may be asked for: agent, scopes, ttl
    BoundRows,      \* the bounds an operator may set: scopes, cap
    RuleRows,       \* the rules an operator may write
    DefaultTTL, Ceiling,
    None,
    MaxBegun,       \* bound on decisions and issues
    MaxChanges      \* bound on changes of bounds and rules

Keys == {LockKey[r] : r \in RequestIds}
Ask == [agent : Agents, scopes : SUBSET GrantScopes, ttl : Nat]
Bound == [scopes : SUBSET GrantScopes, cap : Nat \cup {None}]
Rule == [agent : Agents, scopes : SUBSET GrantScopes, ttl : Nat, status : {"active", "disabled"}]
Request == [ask : Ask, status : {"pending", "approved", "rejected"}, ref : Nat]
Grant == [ref : Nat \ {0}, req : RequestIds \cup {None}, agent : Agents,
          scopes : SUBSET GrantScopes, ttl : Nat \ {0}]
Kinds == {"approve", "reject", "auto", "issue"}
Results == {"not_found", "not_pending", "no_rule", "refused", "rejected", "approved", "issued", "error"}

ASSUME GrantsAssumption ==
    /\ Home \in [Agents -> Workspaces]
    /\ Asks \subseteq Ask
    /\ BoundRows \subseteq Bound /\ RuleRows \subseteq Rule
    /\ DefaultTTL \in Nat \ {0} /\ Ceiling \in Nat
    /\ None \notin Nat \cup Deciders \cup RequestIds \cup RuleIds \cup Kinds \cup Results
    /\ None \notin Bound /\ None \notin Rule /\ None \notin Request /\ None \notin Grant
    /\ MaxBegun \in Nat /\ MaxChanges \in Nat

VARIABLES
    requests,   \* grant_requests: what is asked, the status, the grant ref once approved
    grants,     \* rows of grants
    bounds,     \* the bounds row of each agent, or None
    rules,      \* auto_approval_rules
    lock,       \* the advisory locks: who holds each key
    txn,        \* per decider: its transaction
    reply,      \* per decider: the last answer
    begun, changes,
    seen        \* history: the bounds and rules in force during each transaction

shared == <<requests, grants, bounds, rules>>
vars == <<shared, lock, txn, reply, begun, changes, seen>>

\* A grant's ref is random: here, the number of the transaction that makes it.
Idle == [stage |-> "idle", kind |-> None, ws |-> None, req |-> None, ask |-> None,
         rule |-> None, decision |-> None, ref |-> 0, grant |-> None, result |-> None]
NoReply == [result |-> None, req |-> None, ref |-> 0]
Unseen == [bounds |-> {}, rules |-> {}]

Init ==
    /\ requests = [r \in RequestIds |-> None]
    /\ grants = {}
    /\ bounds = [a \in Agents |-> None]
    /\ rules = [i \in RuleIds |-> None]
    /\ lock = [k \in Keys |-> None]
    /\ txn = [d \in Deciders |-> Idle]
    /\ reply = [d \in Deciders |-> NoReply]
    /\ begun = 0 /\ changes = 0
    /\ seen = [d \in Deciders |-> Unseen]

Running == {d \in Deciders : txn[d].stage # "idle"}

-----------------------------------------------------------------------------
(***************************************************************************)
(* Operators and agents.                                                   *)
(***************************************************************************)
Observe(newBounds, newRules) ==
    seen' = [d \in Deciders |-> IF d \in Running
               THEN [bounds |-> seen[d].bounds \cup {<<a, newBounds[a]>> : a \in Agents},
                     rules |-> seen[d].rules \cup {newRules[i] : i \in RuleIds}]
               ELSE seen[d]]

\* set_bounds, a policy apply, or a rollback that removes the row.
SetBounds(a, row) ==
    /\ changes < MaxChanges
    /\ bounds' = [bounds EXCEPT ![a] = row]
    /\ changes' = changes + 1
    /\ Observe(bounds', rules)
    /\ UNCHANGED <<requests, grants, rules, lock, txn, reply, begun>>

\* A rule created, updated, disabled, or removed by a rollback.
SetRule(i, row) ==
    /\ changes < MaxChanges
    /\ rules' = [rules EXCEPT ![i] = row]
    /\ changes' = changes + 1
    /\ Observe(bounds, rules')
    /\ UNCHANGED <<requests, grants, bounds, lock, txn, reply, begun>>

create_grant_request(r, ask) ==
    /\ requests[r] = None
    /\ ask.ttl > 0 /\ ask.scopes # {}
    /\ requests' = [requests EXCEPT ![r] = [ask |-> ask, status |-> "pending", ref |-> 0]]
    /\ UNCHANGED <<grants, bounds, rules, lock, txn, reply, begun, changes, seen>>

-----------------------------------------------------------------------------
(***************************************************************************)
(* A transaction.                                                          *)
(***************************************************************************)
Start(d, new) ==
    /\ txn[d].stage = "idle"
    /\ begun < MaxBegun
    /\ begun' = begun + 1
    /\ txn' = [txn EXCEPT ![d] = [new EXCEPT !.ref = begun + 1]]
    /\ reply' = [reply EXCEPT ![d] = NoReply]
    /\ seen' = [seen EXCEPT ![d] = [bounds |-> {<<a, bounds[a]>> : a \in Agents},
                                    rules |-> {rules[i] : i \in RuleIds}]]
    /\ UNCHANGED <<shared, lock, changes>>

\* approve, reject and auto-approve.
Begin(d, kind, ws, r) ==
    Start(d, [Idle EXCEPT !.stage = "lock", !.kind = kind, !.ws = ws, !.req = r])

BeginIssue(d, ask) ==
    Start(d, [Idle EXCEPT !.stage = "issue", !.kind = "issue", !.ask = ask])

Step(d, new) ==
    /\ txn' = [txn EXCEPT ![d] = new]
    /\ UNCHANGED <<shared, reply, begun, changes, seen>>

\* The transaction goes on to its commit with this result and nothing written.
Give(d, result) == [txn[d] EXCEPT !.stage = "commit", !.result = result]

\* pg_advisory_xact_lock
Lock(d) ==
    /\ txn[d].stage = "lock"
    /\ lock[LockKey[txn[d].req]] = None
    /\ lock' = [lock EXCEPT ![LockKey[txn[d].req]] = d]
    /\ Step(d, [txn[d] EXCEPT !.stage = "read"])

\* lookup_grant_request and the status check, by auto_approve_grant_request first,
\* by approve_grant_request or reject_grant_request then.
Read(d) ==
    LET r == txn[d].req
        mine == requests[r] # None /\ Home[requests[r].ask.agent] = txn[d].ws
    IN
    /\ txn[d].stage = "read"
    /\ Step(d,
         IF ~mine THEN Give(d, "not_found")
         ELSE IF requests[r].status # "pending" THEN Give(d, "not_pending")
         ELSE [txn[d] EXCEPT !.ask = requests[r].ask, !.stage =
                 IF txn[d].kind = "auto" /\ txn[d].rule = None THEN "evaluate" ELSE "claim"])
    /\ UNCHANGED lock

\* A plausible slip: the requested lifetime is not compared with the rule's.
AllowsScopes(rule, ask) ==
    /\ rule # None
    /\ rule.status = "active"
    /\ rule.agent = ask.agent
    /\ WithinBounds(ask.scopes, rule.scopes)

Allows(rule, ask) ==
    /\ rule # None
    /\ rule.status = "active"
    /\ rule.agent = ask.agent
    /\ WithinBounds(ask.scopes, rule.scopes)
    /\ ask.ttl <= rule.ttl

\* evaluate_auto_approval takes the first rule that allows the request: any, here.
Evaluate(d) ==
    /\ txn[d].stage = "evaluate"
    /\ \/ \E i \in RuleIds :
            /\ Allows(rules[i], txn[d].ask)
            /\ Step(d, [txn[d] EXCEPT !.rule = i, !.stage = "read"])
       \/ /\ ~\E i \in RuleIds : Allows(rules[i], txn[d].ask)
          /\ Step(d, Give(d, "no_rule"))
    /\ UNCHANGED lock

Outcome(d) == IF txn[d].kind = "reject" THEN "rejected" ELSE "approved"

\* decide_request: UPDATE ... WHERE status = 'pending', which waits for a row that
\* another transaction has written.
Claim(d) ==
    LET r == txn[d].req IN
    /\ txn[d].stage = "claim"
    /\ \A e \in Deciders \ {d} : txn[e].req = r => txn[e].decision = None
    /\ Step(d,
         IF requests[r].status # "pending" THEN Give(d, "not_pending")
         ELSE IF Outcome(d) = "rejected" THEN [Give(d, "rejected") EXCEPT !.decision = "rejected"]
         ELSE [txn[d] EXCEPT !.decision = "approved", !.stage = "issue"])
    /\ UNCHANGED lock

AppliedTTL(ask) == IF ask.ttl > 0 THEN ask.ttl ELSE DefaultTTL

Covers(row, scopes, ttl) ==
    /\ row # None
    /\ WithinBounds(scopes, row.scopes)
    /\ row.cap # None => ttl <= row.cap

\* A plausible slip: the declared lifetime is compared, not the applied one.
IssuableAsAsked(ask, row) ==
    /\ AppliedTTL(ask) <= Ceiling
    /\ Covers(row, ask.scopes, ask.ttl)

Issuable(ask, row) ==
    /\ AppliedTTL(ask) <= Ceiling
    /\ ask.scopes # {}
    /\ Covers(row, ask.scopes, AppliedTTL(ask))

GrantOf(d) ==
    LET ask == txn[d].ask IN
    [ref |-> txn[d].ref, req |-> txn[d].req, agent |-> ask.agent, scopes |-> ask.scopes,
     ttl |-> AppliedTTL(ask)]

\* A plausible slip: the refusal leaves the claim in place.
IssueKeepingClaim(d) ==
    /\ txn[d].stage = "issue"
    /\ Step(d,
         IF Issuable(txn[d].ask, bounds[txn[d].ask.agent])
         THEN [Give(d, IF txn[d].kind = "issue" THEN "issued" ELSE "approved")
                 EXCEPT !.grant = GrantOf(d)]
         ELSE Give(d, "refused"))
    /\ UNCHANGED lock

\* issue_grant: one read of the bounds row.  A refusal releases the claim
\* (update_request) and commits.
Issue(d) ==
    /\ txn[d].stage = "issue"
    /\ Step(d,
         IF Issuable(txn[d].ask, bounds[txn[d].ask.agent])
         THEN [Give(d, IF txn[d].kind = "issue" THEN "issued" ELSE "approved")
                 EXCEPT !.grant = GrantOf(d)]
         ELSE [Give(d, "refused") EXCEPT !.decision = None])
    /\ UNCHANGED lock

\* A plausible slip: a session lock, which the end of the transaction does not release.
KeepLock(d) == UNCHANGED lock

Unlock(d) == lock' = [k \in Keys |-> IF lock[k] = d THEN None ELSE lock[k]]

Written(d) ==
    /\ requests' = IF txn[d].decision = None THEN requests
                   ELSE [requests EXCEPT ![txn[d].req].status = txn[d].decision,
                           ![txn[d].req].ref = IF txn[d].decision = "approved" THEN txn[d].ref ELSE 0]
    /\ grants' = IF txn[d].grant = None THEN grants ELSE grants \cup {txn[d].grant}

Unwritten(d) == UNCHANGED <<requests, grants>>

End(d, result) ==
    /\ reply' = [reply EXCEPT ![d] = [result |-> result, req |-> txn[d].req, ref |-> txn[d].ref]]
    /\ txn' = [txn EXCEPT ![d] = Idle]
    /\ seen' = [seen EXCEPT ![d] = Unseen]
    /\ Unlock(d)
    /\ UNCHANGED <<bounds, rules, begun, changes>>

Commit(d) ==
    /\ txn[d].stage = "commit"
    /\ Written(d)
    /\ End(d, txn[d].result)

\* A statement fails, or the commit's answer is lost: the caller gets an error and
\* the transaction has happened or not.
Fail(d) ==
    /\ txn[d].stage # "idle"
    /\ Unwritten(d) \/ (txn[d].stage = "commit" /\ Written(d))
    /\ End(d, "error")

Decide(d) == Read(d) \/ Evaluate(d) \/ Claim(d) \/ Issue(d) \/ Commit(d)

Next ==
    \/ \E a \in Agents, row \in BoundRows \cup {None} : SetBounds(a, row)
    \/ \E i \in RuleIds, row \in RuleRows \cup {None} : SetRule(i, row)
    \/ \E r \in RequestIds, ask \in Asks : create_grant_request(r, ask)
    \/ \E d \in Deciders :
         \/ \E kind \in Kinds \ {"issue"}, ws \in Workspaces, r \in RequestIds :
              Begin(d, kind, ws, r)
         \/ \E ask \in Asks : BeginIssue(d, ask)
         \/ Lock(d) \/ Decide(d) \/ Fail(d)

\* A thread goes on with its transaction; a lock that is free again and again is
\* given to a waiter: PostgreSQL queues them.
Spec == Init /\ [][Next]_vars
             /\ \A d \in Deciders : WF_vars(Decide(d)) /\ SF_vars(Lock(d))

-----------------------------------------------------------------------------
(***************************************************************************)
(* Properties.                                                             *)
(***************************************************************************)
Txn ==
    [stage : {"idle", "lock", "read", "evaluate", "claim", "issue", "commit"},
     kind : Kinds \cup {None}, ws : Workspaces \cup {None},
     req : RequestIds \cup {None}, ask : Ask \cup {None}, rule : RuleIds \cup {None},
     decision : {"approved", "rejected", None}, ref : Nat, grant : Grant \cup {None},
     result : Results \cup {None}]

TypeOK ==
    /\ requests \in [RequestIds -> Request \cup {None}]
    /\ grants \subseteq Grant
    /\ bounds \in [Agents -> Bound \cup {None}]
    /\ rules \in [RuleIds -> Rule \cup {None}]
    /\ lock \in [Keys -> Deciders \cup {None}]
    /\ txn \in [Deciders -> Txn]
    /\ reply \in [Deciders -> [result : Results \cup {None}, req : RequestIds \cup {None}, ref : Nat]]
    /\ begun \in 0..MaxBegun /\ changes \in 0..MaxChanges

\* A decision is final: whatever deciders race, fail, release their claim or lose
\* their commit's answer, an approved or rejected request never changes again.
DecidedOnce ==
    [][\A r \in RequestIds :
         requests[r] # None /\ requests[r].status # "pending" => requests'[r] = requests[r]]_vars

\* An approved request has exactly one grant, the one it names, for what was asked;
\* a request that is pending or rejected has none. No grant is left behind by a
\* decider that lost a race or was refused, no request is approved with nothing.
GrantsMatchRequests ==
    \A r \in RequestIds : requests[r] # None =>
        {<<g.ref, g.agent, g.scopes>> : g \in {x \in grants : x.req = r}} =
            IF requests[r].status = "approved"
            THEN {<<requests[r].ref, requests[r].ask.agent, requests[r].ask.scopes>>} ELSE {}

\* A new grant lies within one bounds row of its agent that was in force while the
\* transaction ran: the scopes and the lifetime, as granted, within the same row.
IssuedWithinBounds ==
    [][\A g \in grants' \ grants : \E d \in Deciders : \E s \in seen[d].bounds :
         /\ txn[d].ref = g.ref
         /\ s[1] = g.agent /\ Covers(s[2], g.scopes, g.ttl) /\ g.ttl <= Ceiling]_vars

\* What is approved automatically, an active rule for that agent allowed while the
\* decision ran, lifetime included.
AutoApprovalNeedsRule ==
    [][\A g \in grants' \ grants : \A d \in Deciders :
         txn[d].ref = g.ref /\ txn[d].kind = "auto" =>
           \E rule \in seen[d].rules :
             /\ rule # None /\ rule.status = "active" /\ rule.agent = g.agent
             /\ WithinBounds(g.scopes, rule.scopes) /\ g.ttl <= rule.ttl]_vars

\* What deciders are told stays true: an approval or a rejection has been stored, a
\* request said to be decided is, and a refusal has left no grant.
RepliesAreTrue ==
    \A d \in Deciders :
        LET a == reply[d]
            own == {g \in grants : g.ref = a.ref}
        IN CASE a.result = "approved" -> /\ requests[a.req].status = "approved"
                                         /\ requests[a.req].ref = a.ref /\ own # {}
             [] a.result = "rejected" -> requests[a.req].status = "rejected"
             [] a.result = "issued" -> own # {}
             [] a.result = "not_pending" -> requests[a.req].status \in {"approved", "rejected"}
             [] a.result \in {"refused", "no_rule", "not_found"} -> own = {}
             [] OTHER -> TRUE

\* Deciders that wait for one another on a request, or on the shared key of two, all
\* get their turn, whatever becomes of the transactions before them.
DecisionsEnd == \A d \in Deciders : txn[d].stage # "idle" ~> txn[d].stage = "idle"

\* The three accounts of a decision agree: the request, its grant, and what the
\* deciders were told, although they race, fail and lose the answers of commits.
DecisionsAgree == GrantsMatchRequests /\ RepliesAreTrue
=============================================================================
