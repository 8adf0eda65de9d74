------------------------ MODULE GrantLifecycleProofs ------------------------
(***************************************************************************)
(* Requests are decided once and grants stay within what was in force, for *)
(* any number of deciders, requests, bounds, rules and lock keys.          *)
(*                                                                         *)
(* The invariant says, for each transaction, what its stage stands for: it *)
(* holds the lock of its request from its first read on, and what it has   *)
(* read of a pending request is still so.                                  *)
(***************************************************************************)
EXTENDS GrantLifecycle, TLAPS

Holds(d) == txn[d].req \in RequestIds /\ lock[LockKey[txn[d].req]] = d

\* What the transaction has read of its request is still there.
Pending(d) ==
    /\ requests[txn[d].req] # None
    /\ requests[txn[d].req].status = "pending"
    /\ requests[txn[d].req].ask = txn[d].ask

Decided(r) == r \in RequestIds /\ requests[r] # None /\ requests[r].status # "pending"

\* The result a transaction goes to its commit with, and what it writes there.
Verdict(d) ==
    \/ txn[d].result = "approved" /\ txn[d].decision = "approved" /\ txn[d].grant # None
    \/ txn[d].result = "rejected" /\ txn[d].decision = "rejected" /\ txn[d].grant = None
    \/ /\ txn[d].result = "issued" /\ txn[d].decision = None /\ txn[d].grant # None
       /\ txn[d].req = None /\ txn[d].kind = "issue"
    \/ /\ txn[d].result \in {"refused", "no_rule", "not_found"}
       /\ txn[d].decision = None /\ txn[d].grant = None
    \/ /\ txn[d].result = "not_pending" /\ Decided(txn[d].req)
       /\ txn[d].decision = None /\ txn[d].grant = None

Sound(d) ==
    /\ txn[d].stage = "idle" => txn[d] = Idle
    /\ txn[d].stage \in {"lock", "read", "evaluate", "claim"} =>
         /\ txn[d].req \in RequestIds /\ txn[d].kind # "issue"
         /\ txn[d].decision = None /\ txn[d].grant = None
    /\ txn[d].stage = "lock" => txn[d].rule = None
    /\ txn[d].stage \in {"read", "evaluate", "claim"} => Holds(d)
    /\ txn[d].stage \in {"evaluate", "claim"} => Pending(d)
    /\ txn[d].stage = "read" /\ txn[d].rule # None => Pending(d)
    /\ txn[d].stage = "issue" =>
         /\ txn[d].ask \in Ask /\ txn[d].grant = None
         /\ IF txn[d].kind = "issue" THEN txn[d].decision = None /\ txn[d].req = None
            ELSE txn[d].decision = "approved"
    /\ txn[d].decision # None =>
         txn[d].stage \in {"issue", "commit"} /\ Holds(d) /\ Pending(d)
    /\ txn[d].grant # None =>
         /\ txn[d].stage = "commit"
         /\ txn[d].grant.ref = txn[d].ref /\ txn[d].grant.req = txn[d].req
         /\ txn[d].ask \in Ask
         /\ txn[d].grant.agent = txn[d].ask.agent /\ txn[d].grant.scopes = txn[d].ask.scopes
    /\ txn[d].stage = "commit" => Verdict(d)

AllSound == \A d \in Deciders : Sound(d)

\* References are fresh: of a transaction under way, no grant, no answer and no
\* other transaction has the reference.
RefsAreFresh ==
    /\ \A g \in grants : g.ref <= begun
    /\ \A e \in Deciders : reply[e].ref <= begun
    /\ \A d \in Deciders : txn[d].stage # "idle" =>
         /\ txn[d].ref \in 1..begun
         /\ \A g \in grants : g.ref # txn[d].ref
         /\ \A e \in Deciders : reply[e].ref # txn[d].ref
         /\ \A e \in Deciders \ {d} : txn[e].stage # "idle" => txn[e].ref # txn[d].ref

-----------------------------------------------------------------------------
\* Operators' changes and requests' creations do not touch transactions.
LEMMA StepCases ==
    ASSUME [Next]_vars
    PROVE  \/ \E a \in Agents, row \in BoundRows \cup {None} : SetBounds(a, row)
           \/ \E i \in RuleIds, row \in RuleRows \cup {None} : SetRule(i, row)
           \/ \E r \in RequestIds, ask \in Asks : create_grant_request(r, ask)
           \/ \E d \in Deciders, kind \in Kinds \ {"issue"},
                 ws \in Workspaces, r \in RequestIds : Begin(d, kind, ws, r)
           \/ \E d \in Deciders, ask \in Asks : BeginIssue(d, ask)
           \/ \E d \in Deciders : Lock(d)
           \/ \E d \in Deciders : Read(d)
           \/ \E d \in Deciders : Evaluate(d)
           \/ \E d \in Deciders : Claim(d)
           \/ \E d \in Deciders : Issue(d)
           \/ \E d \in Deciders : Commit(d)
           \/ \E d \in Deciders : Fail(d)
           \/ UNCHANGED vars
  BY Zenon DEF Next, Decide

\* The grant a transaction makes is well formed, its lifetime never zero.
LEMMA GrantTyped ==
    ASSUME NEW d \in Deciders, txn[d] \in Txn, txn[d].ask \in Ask, txn[d].ref # 0
    PROVE  GrantOf(d) \in Grant
  BY GrantsAssumption DEF GrantOf, Grant, AppliedTTL, Ask, Txn

\* What a transaction writes when it commits is well formed.
LEMMA WrittenTyped ==
    ASSUME TypeOK, NEW d \in Deciders, Sound(d), Written(d) \/ Unwritten(d)
    PROVE  requests' \in [RequestIds -> Request \cup {None}] /\ grants' \subseteq Grant
  <1>1. CASE Unwritten(d)
    BY <1>1 DEF Unwritten, TypeOK
  <1>2. CASE Written(d)
    <2> USE GrantsAssumption
    <2>1. txn[d] \in Txn
      BY DEF TypeOK
    <2>2. grants' \subseteq Grant
      BY <1>2, <2>1 DEF Written, TypeOK, Txn
    <2>3. CASE txn[d].decision = None
      BY <1>2, <2>2, <2>3 DEF Written, TypeOK
    <2>4. CASE txn[d].decision # None
      <3>1. txn[d].req \in RequestIds /\ requests[txn[d].req] \in Request
        BY <2>4 DEF Sound, Holds, Pending, TypeOK
      <3>2. txn[d].decision \in {"approved", "rejected"} /\ txn[d].ref \in Nat
        BY <2>1, <2>4 DEF Txn
      <3> QED  BY <1>2, <2>2, <2>4, <3>1, <3>2 DEF Written, TypeOK, Request
    <2> QED  BY <2>3, <2>4
  <1> QED  BY <1>1, <1>2

LEMMA TypeStep ==
    ASSUME TypeOK, AllSound, RefsAreFresh, [Next]_vars
    PROVE  TypeOK'
  <1> USE GrantsAssumption
  <1> DEFINE Replies == [result : Results \cup {None}, req : RequestIds \cup {None}, ref : Nat]
  <1>0. \A d \in Deciders : txn[d] \in Txn
    BY DEF TypeOK
  <1>1. ASSUME NEW d \in Deciders, NEW new \in Txn, Step(d, new),
               lock' \in [Keys -> Deciders \cup {None}]
        PROVE  TypeOK'
    BY <1>1 DEF Step, shared, TypeOK
  <1>2. ASSUME NEW d \in Deciders, NEW new \in Txn, Start(d, new)
        PROVE  TypeOK'
    <2>1. begun' \in 0..MaxBegun /\ begun + 1 \in Nat
      BY <1>2 DEF Start, TypeOK
    <2>2. [new EXCEPT !.ref = begun + 1] \in Txn
      BY <2>1 DEF Txn
    <2>3. txn' \in [Deciders -> Txn] /\ reply' \in [Deciders -> Replies]
      BY <1>2, <2>2 DEF Start, TypeOK, NoReply
    <2> QED  BY <1>2, <2>1, <2>3 DEF Start, TypeOK, shared
  <1>3. ASSUME NEW d \in Deciders, NEW result \in Results, End(d, result), Written(d) \/ Unwritten(d)
        PROVE  TypeOK'
    <2>1. requests' \in [RequestIds -> Request \cup {None}] /\ grants' \subseteq Grant
      BY <1>3, WrittenTyped DEF AllSound
    <2>2. txn' \in [Deciders -> Txn]
      BY <1>3 DEF End, TypeOK, Idle, Txn
    <2>3. reply' \in [Deciders -> Replies]
      BY <1>3 DEF End, TypeOK, Txn
    <2>4. lock' \in [Keys -> Deciders \cup {None}]
      BY <1>3 DEF End, Unlock, TypeOK
    <2> QED  BY <1>3, <2>1, <2>2, <2>3, <2>4 DEF End, TypeOK
  <1>4. ASSUME NEW d \in Deciders, NEW result \in Results
        PROVE  Give(d, result) \in Txn
    BY <1>0, <1>4 DEF Give, Txn
  <1>5. ASSUME NEW a \in Agents, NEW row \in BoundRows \cup {None}, SetBounds(a, row)  PROVE TypeOK'
    BY <1>5 DEF SetBounds, TypeOK
  <1>6. ASSUME NEW i \in RuleIds, NEW row \in RuleRows \cup {None}, SetRule(i, row)  PROVE TypeOK'
    BY <1>6 DEF SetRule, TypeOK
  <1>7. ASSUME NEW r \in RequestIds, NEW ask \in Asks, create_grant_request(r, ask)  PROVE TypeOK'
    BY <1>7 DEF create_grant_request, TypeOK, Request
  <1>8. ASSUME NEW d \in Deciders, NEW kind \in Kinds \ {"issue"},
               NEW ws \in Workspaces, NEW r \in RequestIds, Begin(d, kind, ws, r)
        PROVE  TypeOK'
    <2>1. [Idle EXCEPT !.stage = "lock", !.kind = kind, !.ws = ws, !.req = r] \in Txn
      BY DEF Idle, Txn
    <2> QED  BY <1>2, <1>8, <2>1 DEF Begin
  <1>9. ASSUME NEW d \in Deciders, NEW ask \in Asks, BeginIssue(d, ask)  PROVE TypeOK'
    <2>1. [Idle EXCEPT !.stage = "issue", !.kind = "issue", !.ask = ask] \in Txn
      BY DEF Idle, Txn, Kinds
    <2> QED  BY <1>2, <1>9, <2>1 DEF BeginIssue
  <1>10. ASSUME NEW d \in Deciders, Lock(d)  PROVE TypeOK'
    <2>1. [txn[d] EXCEPT !.stage = "read"] \in Txn
      BY <1>0 DEF Txn
    <2>2. lock' \in [Keys -> Deciders \cup {None}]
      BY <1>10 DEF Lock, TypeOK
    <2> QED  BY <1>1, <1>10, <2>1, <2>2 DEF Lock
  <1>11. ASSUME NEW d \in Deciders, Read(d)  PROVE TypeOK'
    <2>1. lock' \in [Keys -> Deciders \cup {None}]
      BY <1>11 DEF Read, TypeOK
    <2> DEFINE r == txn[d].req
    <2>2. r \in RequestIds
      BY <1>11 DEF AllSound, Sound, Read
    <2>3. requests[r] # None => requests[r].ask \in Ask
      BY <2>2 DEF TypeOK, Request
    <2>4. PICK new : /\ Step(d, new)
                     /\ \/ new = Give(d, "not_found") \/ new = Give(d, "not_pending")
                        \/ /\ requests[r] # None
                           /\ \/ new = [txn[d] EXCEPT !.ask = requests[r].ask, !.stage = "evaluate"]
                              \/ new = [txn[d] EXCEPT !.ask = requests[r].ask, !.stage = "claim"]
      BY <1>11 DEF Read
    <2>5. new \in Txn
      <3>1. CASE new = Give(d, "not_found") \/ new = Give(d, "not_pending")
        BY <3>1, <1>4 DEF Results
      <3>2. CASE /\ requests[r] # None
                 /\ \/ new = [txn[d] EXCEPT !.ask = requests[r].ask, !.stage = "evaluate"]
                    \/ new = [txn[d] EXCEPT !.ask = requests[r].ask, !.stage = "claim"]
        BY <1>0, <3>2, <2>3 DEF Txn
      <3> QED  BY <2>4, <3>1, <3>2
    <2> QED  BY <1>1, <2>1, <2>4, <2>5
  <1>12. ASSUME NEW d \in Deciders, Evaluate(d)  PROVE TypeOK'
    <2>1. lock' \in [Keys -> Deciders \cup {None}]
      BY <1>12 DEF Evaluate, TypeOK
    <2>2. \A i \in RuleIds : [txn[d] EXCEPT !.rule = i, !.stage = "read"] \in Txn
      BY <1>0 DEF Txn
    <2>3. Give(d, "no_rule") \in Txn
      BY <1>4 DEF Results
    <2> QED  BY <1>1, <1>12, <2>1, <2>2, <2>3 DEF Evaluate
  <1>13. ASSUME NEW d \in Deciders, Claim(d)  PROVE TypeOK'
    <2>1. lock' \in [Keys -> Deciders \cup {None}]
      BY <1>13 DEF Claim, TypeOK
    <2>2. Give(d, "not_pending") \in Txn /\ Give(d, "rejected") \in Txn
      BY <1>4 DEF Results
    <2>3. [Give(d, "rejected") EXCEPT !.decision = "rejected"] \in Txn
      BY <2>2 DEF Txn
    <2>4. [txn[d] EXCEPT !.decision = "approved", !.stage = "issue"] \in Txn
      BY <1>0 DEF Txn
    <2> QED  BY <1>1, <1>13, <2>1, <2>2, <2>3, <2>4 DEF Claim
  <1>14. ASSUME NEW d \in Deciders, Issue(d)  PROVE TypeOK'
    <2>1. lock' \in [Keys -> Deciders \cup {None}]
      BY <1>14 DEF Issue, TypeOK
    <2>2. txn[d] \in Txn /\ txn[d].ask \in Ask /\ txn[d].ref # 0
      BY <1>14 DEF Issue, AllSound, Sound, RefsAreFresh, TypeOK
    <2>3. GrantOf(d) \in Grant
      BY <2>2, GrantTyped
    <2>4. /\ Give(d, "issued") \in Txn /\ Give(d, "approved") \in Txn /\ Give(d, "refused") \in Txn
      BY <1>4 DEF Results
    <2>5. /\ [Give(d, "issued") EXCEPT !.grant = GrantOf(d)] \in Txn
          /\ [Give(d, "approved") EXCEPT !.grant = GrantOf(d)] \in Txn
          /\ [Give(d, "refused") EXCEPT !.decision = None] \in Txn
      BY <2>3, <2>4 DEF Txn
    <2> QED  BY <1>1, <1>14, <2>1, <2>5 DEF Issue
  <1>15. ASSUME NEW d \in Deciders, Commit(d)  PROVE TypeOK'
    <2>1. txn[d].result \in Results
      BY <1>15 DEF Commit, AllSound, Sound, Verdict, Results
    <2> QED  BY <1>3, <1>15, <2>1 DEF Commit
  <1>16. ASSUME NEW d \in Deciders, Fail(d)  PROVE TypeOK'
    BY <1>3, <1>16 DEF Fail, Results
  <1>17. CASE UNCHANGED vars
    BY <1>17 DEF vars, shared, TypeOK
  <1> QED  BY <1>5, <1>6, <1>7, <1>8, <1>9, <1>10, <1>11, <1>12, <1>13, <1>14, <1>15,
              <1>16, <1>17, StepCases

\* A commit changes no request but its own, and that one only from pending.
LEMMA WritesOwnRequest ==
    ASSUME TypeOK, NEW d \in Deciders, Sound(d), Written(d) \/ Unwritten(d),
           NEW r \in RequestIds, requests'[r] # requests[r]
    PROVE  r = txn[d].req /\ txn[d].decision # None /\ Holds(d) /\ Pending(d)
  BY DEF Written, Unwritten, Sound, TypeOK

\* A transaction stays sound while nobody takes its lock or its request.
LEMMA Undisturbed ==
    ASSUME NEW e \in Deciders, Sound(e), txn'[e] = txn[e],
           Holds(e) => lock'[LockKey[txn[e].req]] = e,
           Holds(e) /\ requests[txn[e].req] # None => requests'[txn[e].req] = requests[txn[e].req],
           Decided(txn[e].req) => requests'[txn[e].req] = requests[txn[e].req]
    PROVE  Sound(e)'
  <1>1. Holds(e) => Holds(e)'
    BY DEF Holds
  <1>2. Holds(e) /\ Pending(e) => Pending(e)'
    BY DEF Pending
  <1>3. Verdict(e) => Verdict(e)'
    BY DEF Verdict, Decided
  <1> QED  BY <1>1, <1>2, <1>3 DEF Sound

LEMMA SoundStep ==
    ASSUME TypeOK, AllSound, RefsAreFresh, [Next]_vars
    PROVE  AllSound'
  <1> USE GrantsAssumption
  <1>0. \A d \in Deciders : txn[d] \in Txn /\ Sound(d)
    BY DEF TypeOK, AllSound
  <1>1. ASSUME txn' = txn, lock' = lock,
               \A r \in RequestIds : requests[r] # None => requests'[r] = requests[r]
        PROVE  AllSound'
    <2> SUFFICES ASSUME NEW e \in Deciders  PROVE Sound(e)'
      BY DEF AllSound
    <2> QED  BY <1>0, <1>1, Undisturbed DEF Holds, Decided
  <1>2. ASSUME NEW d \in Deciders, requests' = requests, Sound(d)',
               \A e \in Deciders \ {d} : txn'[e] = txn[e],
               \A k \in Keys : lock[k] # None => lock'[k] = lock[k]
        PROVE  AllSound'
    <2> SUFFICES ASSUME NEW e \in Deciders \ {d}  PROVE Sound(e)'
      BY <1>2 DEF AllSound
    <2>1. Holds(e) => lock'[LockKey[txn[e].req]] = e
      BY <1>2 DEF Holds, Keys
    <2> QED  BY <1>0, <1>2, <2>1, Undisturbed
  <1>3. ASSUME NEW d \in Deciders, NEW result \in Results, End(d, result), Written(d) \/ Unwritten(d)
        PROVE  AllSound'
    <2> SUFFICES ASSUME NEW e \in Deciders  PROVE Sound(e)'
      BY DEF AllSound
    <2>1. CASE e = d
      BY <1>3, <2>1 DEF End, TypeOK, Sound, Idle, Results
    <2>2. CASE e # d
      <3>1. txn'[e] = txn[e]
        BY <1>3, <2>2 DEF End, TypeOK
      <3>2. Holds(e) => lock'[LockKey[txn[e].req]] = e
        BY <1>3, <2>2 DEF End, Unlock, Holds, Keys
      <3>3. Holds(e) => requests'[txn[e].req] = requests[txn[e].req]
        BY <1>0, <1>3, <2>2, WritesOwnRequest DEF Holds
      <3>4. Decided(txn[e].req) => requests'[txn[e].req] = requests[txn[e].req]
        BY <1>0, <1>3, WritesOwnRequest DEF Decided, Pending
      <3> QED  BY <1>0, <3>1, <3>2, <3>3, <3>4, Undisturbed
    <2> QED  BY <2>1, <2>2
  <1>5. ASSUME NEW a \in Agents, NEW row \in BoundRows \cup {None}, SetBounds(a, row)  PROVE AllSound'
    BY <1>1, <1>5 DEF SetBounds
  <1>6. ASSUME NEW i \in RuleIds, NEW row \in RuleRows \cup {None}, SetRule(i, row)  PROVE AllSound'
    BY <1>1, <1>6 DEF SetRule
  <1>7. ASSUME NEW r \in RequestIds, NEW ask \in Asks, create_grant_request(r, ask)  PROVE AllSound'
    BY <1>1, <1>7 DEF create_grant_request, TypeOK
  <1>8. ASSUME NEW d \in Deciders, NEW kind \in Kinds \ {"issue"},
               NEW ws \in Workspaces, NEW r \in RequestIds, Begin(d, kind, ws, r)
        PROVE  AllSound'
    <2>1. Sound(d)'
      BY <1>8 DEF Begin, Start, Idle, Sound, TypeOK
    <2> QED  BY <1>2, <1>8, <2>1 DEF Begin, Start, shared, TypeOK
  <1>9. ASSUME NEW d \in Deciders, NEW ask \in Asks, BeginIssue(d, ask)  PROVE AllSound'
    <2>1. Sound(d)'
      BY <1>9 DEF BeginIssue, Start, Idle, Sound, TypeOK
    <2> QED  BY <1>2, <1>9, <2>1 DEF BeginIssue, Start, shared, TypeOK
  <1>10. ASSUME NEW d \in Deciders, Lock(d)  PROVE AllSound'
    <2>1. Sound(d)'
      <3>1. txn'[d] = [txn[d] EXCEPT !.stage = "read"] /\ requests' = requests
        BY <1>10 DEF Lock, Step, shared, TypeOK
      <3>2. txn[d].req \in RequestIds /\ txn[d].decision = None /\ txn[d].grant = None /\ txn[d].kind # "issue"
        BY <1>0, <1>10 DEF Lock, Sound
      <3>3. lock'[LockKey[txn[d].req]] = d
        BY <1>10, <3>2 DEF Lock, TypeOK, Keys
      <3>4. txn[d].rule = None
        BY <1>0, <1>10 DEF Lock, Sound
      <3> QED  BY <1>0, <3>1, <3>2, <3>3, <3>4 DEF Txn, Sound, Holds
    <2> QED  BY <1>2, <1>10, <2>1 DEF Lock, Step, shared, TypeOK
  <1>11. ASSUME NEW d \in Deciders, Read(d)  PROVE AllSound'
    <2>1. Sound(d)'
      <3>1. /\ txn[d].req \in RequestIds /\ txn[d].kind # "issue" /\ Holds(d)
            /\ txn[d].decision = None /\ txn[d].grant = None
            /\ requests' = requests /\ lock' = lock
        BY <1>0, <1>11 DEF Read, Step, shared, Sound
      <3>2. \/ txn'[d] = Give(d, "not_found")
            \/ txn'[d] = Give(d, "not_pending") /\ Decided(txn[d].req)
            \/ /\ requests[txn[d].req] # None /\ requests[txn[d].req].status = "pending"
               /\ \/ txn'[d] = [txn[d] EXCEPT !.ask = requests[txn[d].req].ask, !.stage = "evaluate"]
                  \/ txn'[d] = [txn[d] EXCEPT !.ask = requests[txn[d].req].ask, !.stage = "claim"]
        BY <1>11, <3>1 DEF Read, Step, Decided, TypeOK
      <3>3. CASE txn'[d] = Give(d, "not_found")
        BY <1>0, <3>1, <3>3 DEF Give, Txn, Sound, Verdict
      <3>4. CASE txn'[d] = Give(d, "not_pending") /\ Decided(txn[d].req)
        BY <1>0, <3>1, <3>4 DEF Give, Txn, Sound, Verdict, Decided
      <3>5. CASE /\ requests[txn[d].req] # None /\ requests[txn[d].req].status = "pending"
                 /\ \/ txn'[d] = [txn[d] EXCEPT !.ask = requests[txn[d].req].ask, !.stage = "evaluate"]
                    \/ txn'[d] = [txn[d] EXCEPT !.ask = requests[txn[d].req].ask, !.stage = "claim"]
        <4>1. CASE txn'[d] = [txn[d] EXCEPT !.ask = requests[txn[d].req].ask, !.stage = "evaluate"]
          BY <1>0, <3>1, <3>5, <4>1 DEF Txn, Sound, Holds, Pending
        <4>2. CASE txn'[d] = [txn[d] EXCEPT !.ask = requests[txn[d].req].ask, !.stage = "claim"]
          BY <1>0, <3>1, <3>5, <4>2 DEF Txn, Sound, Holds, Pending
        <4> QED  BY <3>5, <4>1, <4>2
      <3> QED  BY <3>2, <3>3, <3>4, <3>5
    <2> QED  BY <1>2, <1>11, <2>1 DEF Read, Step, shared, TypeOK
  <1>12. ASSUME NEW d \in Deciders, Evaluate(d)  PROVE AllSound'
    <2>1. Sound(d)'
      <3>1. /\ txn[d].req \in RequestIds /\ txn[d].kind # "issue" /\ Holds(d) /\ Pending(d)
            /\ txn[d].decision = None /\ txn[d].grant = None
            /\ requests' = requests /\ lock' = lock
        BY <1>0, <1>12 DEF Evaluate, Step, shared, Sound
      <3>2. CASE \E i \in RuleIds : Step(d, [txn[d] EXCEPT !.rule = i, !.stage = "read"])
        <4>1. PICK i \in RuleIds : txn'[d] = [txn[d] EXCEPT !.rule = i, !.stage = "read"]
          BY <3>2 DEF Step, TypeOK
        <4> QED  BY <1>0, <3>1, <4>1 DEF Txn, Sound, Holds, Pending
      <3>3. CASE Step(d, Give(d, "no_rule"))
        <4>1. txn'[d] = Give(d, "no_rule")
          BY <3>3 DEF Step, TypeOK
        <4> QED  BY <1>0, <3>1, <4>1 DEF Give, Txn, Sound, Verdict
      <3> QED  BY <1>12, <3>2, <3>3 DEF Evaluate
    <2> QED  BY <1>2, <1>12, <2>1 DEF Evaluate, Step, shared, TypeOK
  <1>13. ASSUME NEW d \in Deciders, Claim(d)  PROVE AllSound'
    <2>1. Sound(d)'
      <3>1. /\ txn[d].req \in RequestIds /\ txn[d].kind # "issue" /\ Holds(d) /\ Pending(d)
            /\ txn[d].decision = None /\ txn[d].grant = None
            /\ requests' = requests /\ lock' = lock
        BY <1>0, <1>13 DEF Claim, Step, shared, Sound
      <3>2. txn[d].ask \in Ask
        BY <3>1 DEF Pending, TypeOK, Request
      <3>3. \/ txn'[d] = [Give(d, "rejected") EXCEPT !.decision = "rejected"]
            \/ txn'[d] = [txn[d] EXCEPT !.decision = "approved", !.stage = "issue"]
        BY <1>13, <3>1 DEF Claim, Step, Pending, TypeOK
      <3>4. CASE txn'[d] = [Give(d, "rejected") EXCEPT !.decision = "rejected"]
        BY <1>0, <3>1, <3>4 DEF Give, Txn, Sound, Verdict, Holds, Pending, Results
      <3>5. CASE txn'[d] = [txn[d] EXCEPT !.decision = "approved", !.stage = "issue"]
        BY <1>0, <3>1, <3>2, <3>5 DEF Txn, Sound, Holds, Pending, Results
      <3> QED  BY <3>3, <3>4, <3>5
    <2> QED  BY <1>2, <1>13, <2>1 DEF Claim, Step, shared, TypeOK
  <1>14. ASSUME NEW d \in Deciders, Issue(d)  PROVE AllSound'
    <2>1. Sound(d)'
      <3>1. /\ txn[d].ask \in Ask /\ txn[d].grant = None
            /\ requests' = requests /\ lock' = lock
            /\ IF txn[d].kind = "issue" THEN txn[d].decision = None /\ txn[d].req = None
               ELSE txn[d].decision = "approved" /\ Holds(d) /\ Pending(d)
        BY <1>0, <1>14 DEF Issue, Step, shared, Sound, Results
      <3>2. \/ txn[d].kind = "issue" /\ txn'[d] = [Give(d, "issued") EXCEPT !.grant = GrantOf(d)]
            \/ txn[d].kind # "issue" /\ txn'[d] = [Give(d, "approved") EXCEPT !.grant = GrantOf(d)]
            \/ txn'[d] = [Give(d, "refused") EXCEPT !.decision = None]
        BY <1>14 DEF Issue, Step, TypeOK
      <3>3. /\ GrantOf(d).ref = txn[d].ref /\ GrantOf(d).req = txn[d].req
            /\ GrantOf(d).agent = txn[d].ask.agent /\ GrantOf(d).scopes = txn[d].ask.scopes
        BY DEF GrantOf
      <3>7. GrantOf(d) # None
        BY <1>0, <1>14, <3>1, GrantTyped DEF Issue, RefsAreFresh
      <3>4. CASE txn[d].kind = "issue" /\ txn'[d] = [Give(d, "issued") EXCEPT !.grant = GrantOf(d)]
        BY <1>0, <3>1, <3>3, <3>4, <3>7 DEF Give, Txn, Sound, Verdict
      <3>5. CASE txn[d].kind # "issue" /\ txn'[d] = [Give(d, "approved") EXCEPT !.grant = GrantOf(d)]
        BY <1>0, <3>1, <3>3, <3>5, <3>7 DEF Give, Txn, Sound, Verdict, Holds, Pending
      <3>6. CASE txn'[d] = [Give(d, "refused") EXCEPT !.decision = None]
        BY <1>0, <3>1, <3>6 DEF Give, Txn, Sound, Verdict, Results
      <3> QED  BY <3>2, <3>4, <3>5, <3>6
    <2> QED  BY <1>2, <1>14, <2>1 DEF Issue, Step, shared, TypeOK
  <1>15. ASSUME NEW d \in Deciders, Commit(d)  PROVE AllSound'
    <2>1. txn[d].result \in Results
      BY <1>0, <1>15 DEF Commit, Sound, Verdict, Results
    <2> QED  BY <1>3, <1>15, <2>1 DEF Commit
  <1>16. ASSUME NEW d \in Deciders, Fail(d)  PROVE AllSound'
    BY <1>3, <1>16 DEF Fail, Results
  <1>17. CASE UNCHANGED vars
    BY <1>1, <1>17 DEF vars, shared
  <1> QED  BY <1>5, <1>6, <1>7, <1>8, <1>9, <1>10, <1>11, <1>12, <1>13, <1>14, <1>15,
              <1>16, <1>17, StepCases

LEMMA RefsStep ==
    ASSUME TypeOK, AllSound, RefsAreFresh, [Next]_vars
    PROVE  RefsAreFresh'
  <1> USE GrantsAssumption
  <1>0. \A d \in Deciders : txn[d] \in Txn /\ Sound(d)
    BY DEF TypeOK, AllSound
  <1>n. begun \in Nat
    BY DEF TypeOK
  <1>1. ASSUME \A e \in Deciders : txn'[e].ref = txn[e].ref /\ (txn[e].stage = "idle" => txn'[e].stage = "idle"),
               UNCHANGED <<grants, reply, begun>>
        PROVE  RefsAreFresh'
    BY <1>1 DEF RefsAreFresh
  <1>2. ASSUME NEW d \in Deciders, NEW new, Start(d, new), new \in Txn
        PROVE  RefsAreFresh'
    <2>1. /\ begun' = begun + 1 /\ grants' = grants
          /\ txn'[d].ref = begun + 1 /\ reply'[d].ref = 0
          /\ \A e \in Deciders \ {d} : txn'[e] = txn[e] /\ reply'[e] = reply[e]
      BY <1>2 DEF Start, shared, TypeOK, NoReply, Txn
    <2>2. /\ \A g \in grants : g.ref \in Nat
          /\ \A e \in Deciders : reply[e].ref \in Nat /\ txn[e].ref \in Nat
      BY <1>0 DEF TypeOK, Grant, Txn
    <2> QED  BY <1>n, <2>1, <2>2 DEF RefsAreFresh
  <1>3. ASSUME NEW d \in Deciders, txn[d].stage # "idle", NEW result, End(d, result), Written(d) \/ Unwritten(d)
        PROVE  RefsAreFresh'
    <2>1. /\ begun' = begun /\ txn'[d].stage = "idle" /\ reply'[d].ref = txn[d].ref
          /\ \A e \in Deciders \ {d} : txn'[e] = txn[e] /\ reply'[e] = reply[e]
      BY <1>3 DEF End, TypeOK, Idle
    <2>2. \A g \in grants' : g \in grants \/ g.ref = txn[d].ref
      BY <1>0, <1>3 DEF Written, Unwritten, Sound
    <2> QED  BY <1>3, <2>1, <2>2 DEF RefsAreFresh
  <1>4. ASSUME NEW d \in Deciders, NEW new, Step(d, new), txn'[d].ref = txn[d].ref, txn[d].stage # "idle"
        PROVE  RefsAreFresh'
    BY <1>1, <1>4 DEF Step, shared, TypeOK
  <1>5. ASSUME \/ \E a \in Agents, row \in BoundRows \cup {None} : SetBounds(a, row)
               \/ \E i \in RuleIds, row \in RuleRows \cup {None} : SetRule(i, row)
               \/ \E r \in RequestIds, ask \in Asks : create_grant_request(r, ask)
               \/ UNCHANGED vars
        PROVE  RefsAreFresh'
    BY <1>1, <1>5 DEF SetBounds, SetRule, create_grant_request, vars, shared
  <1>8. ASSUME NEW d \in Deciders, NEW kind \in Kinds \ {"issue"},
               NEW ws \in Workspaces, NEW r \in RequestIds, Begin(d, kind, ws, r)
        PROVE  RefsAreFresh'
    <2>1. [Idle EXCEPT !.stage = "lock", !.kind = kind, !.ws = ws, !.req = r] \in Txn
      BY DEF Idle, Txn
    <2> QED  BY <1>2, <1>8, <2>1 DEF Begin
  <1>9. ASSUME NEW d \in Deciders, NEW ask \in Asks, BeginIssue(d, ask)  PROVE RefsAreFresh'
    <2>1. [Idle EXCEPT !.stage = "issue", !.kind = "issue", !.ask = ask] \in Txn
      BY DEF Idle, Txn, Kinds
    <2> QED  BY <1>2, <1>9, <2>1 DEF BeginIssue
  <1>10. ASSUME NEW d \in Deciders, Lock(d)  PROVE RefsAreFresh'
    <2>1. txn'[d].ref = txn[d].ref
      BY <1>0, <1>10 DEF Lock, Step, Txn, TypeOK
    <2> QED  BY <1>4, <1>10, <2>1 DEF Lock
  <1>11. ASSUME NEW d \in Deciders, Read(d)  PROVE RefsAreFresh'
    <2>1. txn'[d].ref = txn[d].ref
      BY <1>0, <1>11 DEF Read, Step, Give, Txn, TypeOK
    <2> QED  BY <1>4, <1>11, <2>1 DEF Read
  <1>12. ASSUME NEW d \in Deciders, Evaluate(d)  PROVE RefsAreFresh'
    <2>1. \/ \E i \in RuleIds : txn'[d] = [txn[d] EXCEPT !.rule = i, !.stage = "read"]
          \/ txn'[d] = Give(d, "no_rule")
      BY <1>12 DEF Evaluate, Step, TypeOK
    <2>2. txn'[d].ref = txn[d].ref
      BY <1>0, <2>1 DEF Give, Txn
    <2> QED  BY <1>4, <1>12, <2>2 DEF Evaluate
  <1>13. ASSUME NEW d \in Deciders, Claim(d)  PROVE RefsAreFresh'
    <2>1. txn'[d].ref = txn[d].ref
      BY <1>0, <1>13 DEF Claim, Step, Give, Txn, TypeOK
    <2> QED  BY <1>4, <1>13, <2>1 DEF Claim
  <1>14. ASSUME NEW d \in Deciders, Issue(d)  PROVE RefsAreFresh'
    <2>1. txn'[d].ref = txn[d].ref
      BY <1>0, <1>14 DEF Issue, Step, Give, Txn, TypeOK
    <2> QED  BY <1>4, <1>14, <2>1 DEF Issue
  <1>15. ASSUME NEW d \in Deciders, Commit(d)  PROVE RefsAreFresh'
    BY <1>3, <1>15 DEF Commit
  <1>16. ASSUME NEW d \in Deciders, Fail(d)  PROVE RefsAreFresh'
    BY <1>3, <1>16 DEF Fail
  <1> QED  BY <1>5, <1>8, <1>9, <1>10, <1>11, <1>12, <1>13, <1>14, <1>15, <1>16, StepCases

\* Requests, grants, bounds, rules, locks and transactions stay well formed
\* through every decision, failure and change.
THEOREM TypeCorrect == Spec => [](TypeOK /\ AllSound /\ RefsAreFresh)
  <1> USE GrantsAssumption
  <1>1. Init => TypeOK /\ AllSound /\ RefsAreFresh
    <2> SUFFICES ASSUME Init  PROVE TypeOK /\ AllSound /\ RefsAreFresh
      OBVIOUS
    <2>1. Idle \in Txn /\ NoReply \in [result : Results \cup {None}, req : RequestIds \cup {None}, ref : Nat]
      BY DEF Idle, Txn, NoReply
    <2>2. TypeOK
      BY <2>1 DEF Init, TypeOK
    <2>3. AllSound
      BY DEF Init, AllSound, Sound, Idle, Results
    <2>4. RefsAreFresh
      BY DEF Init, RefsAreFresh, Idle, NoReply
    <2> QED  BY <2>2, <2>3, <2>4
  <1> QED  BY <1>1, TypeStep, SoundStep, RefsStep, PTL DEF Spec
-----------------------------------------------------------------------------
\* Every step but a creation and an end leaves requests, grants and answers of
\* others alone.
LEMMA RequestSteps ==
    ASSUME TypeOK, AllSound, [Next]_vars
    PROVE  \/ \E r \in RequestIds, ask \in Asks : create_grant_request(r, ask)
           \/ \E d \in Deciders, result \in Results :
                /\ txn[d].stage # "idle"
                /\ End(d, result)
                /\ Unwritten(d) \/ (txn[d].stage = "commit" /\ Written(d))
                /\ result # "error" => Written(d) /\ txn[d].stage = "commit" /\ result = txn[d].result
           \/ /\ UNCHANGED <<requests, grants>>
              /\ \A d \in Deciders : reply'[d] = reply[d] \/ reply'[d] = NoReply
  <1>1. ASSUME NEW d \in Deciders, Commit(d)
        PROVE  /\ txn[d].result \in Results /\ txn[d].result # "error" /\ txn[d].stage = "commit"
               /\ End(d, txn[d].result) /\ Written(d)
    BY <1>1 DEF Commit, AllSound, Sound, Verdict, Results
  <1>2. ASSUME NEW d \in Deciders, Fail(d)
        PROVE  /\ txn[d].stage # "idle" /\ End(d, "error")
               /\ Unwritten(d) \/ (txn[d].stage = "commit" /\ Written(d))
    BY <1>2 DEF Fail
  <1>3. ASSUME NEW d \in Deciders, NEW new, Start(d, new)
        PROVE  UNCHANGED <<requests, grants>> /\ \A e \in Deciders : reply'[e] = reply[e] \/ reply'[e] = NoReply
    BY <1>3 DEF Start, shared, TypeOK
  <1>4. "error" \in Results
    BY DEF Results
  <1> QED  BY <1>1, <1>2, <1>3, <1>4, StepCases
             DEF SetBounds, SetRule, Begin, BeginIssue, Lock, Read, Evaluate, Claim, Issue,
                 Step, shared, vars

\* Whatever deciders race, fail, release their claim or lose their commit's answer,
\* an approved or rejected request never changes again.
THEOREM DecisionsAreFinal == Spec => DecidedOnce
  <1>1. ASSUME TypeOK, AllSound, [Next]_vars, NEW r \in RequestIds,
               requests[r] # None, requests[r].status # "pending"
        PROVE  requests'[r] = requests[r]
    <2>1. CASE \E q \in RequestIds, ask \in Asks : create_grant_request(q, ask)
      BY <1>1, <2>1 DEF create_grant_request, TypeOK
    <2>2. ASSUME NEW d \in Deciders, Written(d) \/ Unwritten(d)
          PROVE  requests'[r] = requests[r]
      BY <1>1, <2>2, WritesOwnRequest DEF AllSound, Pending
    <2> QED  BY <1>1, <2>1, <2>2, RequestSteps
  <1>2. TypeOK /\ AllSound /\ [Next]_vars
          => [\A r \in RequestIds : requests[r] # None /\ requests[r].status # "pending"
                => requests'[r] = requests[r]]_vars
    BY <1>1
  <1> QED  BY <1>2, TypeCorrect, PTL DEF Spec, DecidedOnce
\* What GrantsMatchRequests says, request by request and grant by grant.
Matching(r) ==
    /\ \A g \in grants : g.req = r =>
         /\ requests[r] # None /\ requests[r].status = "approved"
         /\ g.ref = requests[r].ref
         /\ g.agent = requests[r].ask.agent /\ g.scopes = requests[r].ask.scopes
    /\ requests[r] # None /\ requests[r].status = "approved" => \E g \in grants : g.req = r

AllMatch == \A r \in RequestIds : Matching(r)

\* An approved request has exactly the one grant it names, and no other request
\* has any: neither a refused approval nor a lost race leaves a grant behind.
THEOREM GrantsAgree == Spec => []GrantsMatchRequests
  <1> USE GrantsAssumption
  <1>1. Init => AllMatch
    BY DEF Init, AllMatch, Matching
  <1>2. TypeOK /\ AllSound /\ AllMatch /\ [Next]_vars => AllMatch'
    <2> SUFFICES ASSUME TypeOK, AllSound, AllMatch, [Next]_vars, NEW r \in RequestIds
                 PROVE  Matching(r)'
      BY DEF AllMatch
    <2>0. Matching(r)
      BY DEF AllMatch
    <2>1. ASSUME NEW q \in RequestIds, NEW ask \in Asks, create_grant_request(q, ask)
          PROVE  Matching(r)'
      BY <2>0, <2>1 DEF create_grant_request, Matching, TypeOK
    <2>2. CASE UNCHANGED <<requests, grants>>
      BY <2>0, <2>2 DEF Matching
    <2>3. ASSUME NEW d \in Deciders, txn[d].stage = "commit", Written(d)
          PROVE  Matching(r)'
      <3>0. Sound(d) /\ Verdict(d) /\ txn[d] \in Txn
        BY <2>3 DEF AllSound, Sound, TypeOK
      <3>1. CASE r # txn[d].req
        <4>1. requests'[r] = requests[r]
          BY <2>3, <3>0, <3>1, WritesOwnRequest
        <4>2. \A g \in grants' : g.req = r => g \in grants
          BY <2>3, <3>0, <3>1 DEF Written, Sound
        <4>3. grants \subseteq grants'
          BY <2>3 DEF Written
        <4> QED  BY <2>0, <4>1, <4>2, <4>3 DEF Matching
      <3>2. CASE r = txn[d].req /\ txn[d].decision = None
        <4>1. txn[d].grant = None
          BY <3>0, <3>2 DEF Verdict, Results
        <4> QED  BY <2>0, <2>2, <2>3, <3>2, <4>1 DEF Written
      <3>3. CASE r = txn[d].req /\ txn[d].decision = "rejected"
        <4>1. txn[d].grant = None /\ Pending(d)
          BY <3>0, <3>3 DEF Verdict, Results, Sound
        <4>2. grants' = grants /\ \A g \in grants : g.req # r
          BY <2>0, <2>3, <3>3, <4>1 DEF Written, Matching, Pending
        <4>3. requests'[r].status = "rejected"
          BY <2>3, <3>3, <4>1 DEF Written, TypeOK, Results, Pending, Request
        <4> QED  BY <4>2, <4>3 DEF Matching
      <3>4. CASE r = txn[d].req /\ txn[d].decision = "approved"
        <4>1. /\ txn[d].grant # None /\ Pending(d)
              /\ txn[d].grant.req = r /\ txn[d].grant.ref = txn[d].ref
              /\ txn[d].grant.agent = txn[d].ask.agent /\ txn[d].grant.scopes = txn[d].ask.scopes
          BY <3>0, <3>4 DEF Verdict, Results, Sound
        <4>2. grants' = grants \cup {txn[d].grant} /\ \A g \in grants : g.req # r
          BY <2>0, <2>3, <3>4, <4>1 DEF Written, Matching, Pending
        <4>3. requests[r] \in Request /\ requests[r].ask = txn[d].ask
          BY <3>4, <4>1 DEF TypeOK, Pending
        <4>4. requests' = [requests EXCEPT ![r].status = "approved", ![r].ref = txn[d].ref]
          BY <2>3, <3>4 DEF Written, Results
        <4>5. /\ requests'[r].status = "approved" /\ requests'[r].ref = txn[d].ref
              /\ requests'[r].ask = txn[d].ask /\ requests'[r] \in Request
          BY <3>0, <4>3, <4>4 DEF Request, Txn, TypeOK
        <4> QED  BY <4>1, <4>2, <4>5 DEF Matching
      <3> QED  BY <3>0, <3>1, <3>2, <3>3, <3>4 DEF Txn
    <2> QED  BY <2>1, <2>2, <2>3, RequestSteps DEF Unwritten
  <1>3. AllMatch => GrantsMatchRequests
    <2> SUFFICES ASSUME AllMatch, NEW r \in RequestIds, requests[r] # None
                 PROVE  {<<g.ref, g.agent, g.scopes>> : g \in {x \in grants : x.req = r}} =
                          IF requests[r].status = "approved"
                          THEN {<<requests[r].ref, requests[r].ask.agent, requests[r].ask.scopes>>}
                          ELSE {}
      BY DEF GrantsMatchRequests
    <2>1. Matching(r)
      BY DEF AllMatch
    <2>2. CASE requests[r].status = "approved"
      <3>1. PICK h \in grants : h.req = r
        BY <2>1, <2>2 DEF Matching
      <3>2. \A g \in grants : g.req = r =>
              <<g.ref, g.agent, g.scopes>> =
                <<requests[r].ref, requests[r].ask.agent, requests[r].ask.scopes>>
        BY <2>1 DEF Matching
      <3> QED  BY <2>2, <3>1, <3>2, Zenon
    <2>3. CASE requests[r].status # "approved"
      BY <2>1, <2>3 DEF Matching
    <2> QED  BY <2>2, <2>3
  <1> QED  BY <1>1, <1>2, <1>3, TypeCorrect, PTL DEF Spec
\* What an answer says, with the request it is about.
TrueReply(d) ==
    /\ reply[d].result \in {"approved", "rejected", "not_pending"} => Decided(reply[d].req)
    /\ reply[d].result = "approved" => /\ requests[reply[d].req].status = "approved"
                                       /\ requests[reply[d].req].ref = reply[d].ref
    /\ reply[d].result = "rejected" => requests[reply[d].req].status = "rejected"
    /\ reply[d].result \in {"approved", "issued"} => \E g \in grants : g.ref = reply[d].ref
    /\ reply[d].result \in {"refused", "no_rule", "not_found"} =>
         \A g \in grants : g.ref # reply[d].ref

AllTrue == \A d \in Deciders : TrueReply(d)

\* What deciders are told stays true, however many decide after them.
THEOREM AnswersStayTrue == Spec => []RepliesAreTrue
  <1> USE GrantsAssumption
  <1>1. Init => AllTrue
    BY DEF Init, AllTrue, TrueReply, NoReply, Results
  <1>2. TypeOK /\ AllSound /\ RefsAreFresh /\ AllTrue /\ [Next]_vars => AllTrue'
    <2> SUFFICES ASSUME TypeOK, AllSound, RefsAreFresh, AllTrue, [Next]_vars, NEW e \in Deciders
                 PROVE  TrueReply(e)'
      BY DEF AllTrue
    <2>0. TrueReply(e)
      BY DEF AllTrue
    <2>1. ASSUME reply'[e] = NoReply  PROVE TrueReply(e)'
      BY <2>1 DEF NoReply, TrueReply, Results
    <2>2. ASSUME reply'[e] = reply[e], grants \subseteq grants',
                 \A g \in grants' \ grants : g.ref # reply[e].ref,
                 \A r \in RequestIds : Decided(r) => requests'[r] = requests[r]
          PROVE  TrueReply(e)'
      BY <2>0, <2>2 DEF TrueReply, Decided
    <2>3. ASSUME NEW r \in RequestIds, NEW ask \in Asks, create_grant_request(r, ask)
          PROVE  TrueReply(e)'
      BY <2>2, <2>3 DEF create_grant_request, Decided, TypeOK
    <2>4. ASSUME NEW d \in Deciders, NEW result \in Results, txn[d].stage # "idle", End(d, result),
                 Unwritten(d) \/ (txn[d].stage = "commit" /\ Written(d)),
                 result # "error" => Written(d) /\ txn[d].stage = "commit" /\ result = txn[d].result
          PROVE  TrueReply(e)'
      <3>0. Sound(d) /\ txn[d] \in Txn
        BY DEF AllSound, TypeOK
      <3>1. \A r \in RequestIds : Decided(r) => requests'[r] = requests[r]
        BY <2>4, <3>0, WritesOwnRequest DEF Decided, Pending
      <3>2. grants \subseteq grants' /\ \A g \in grants' \ grants : g.ref = txn[d].ref /\ g = txn[d].grant
        BY <2>4, <3>0 DEF Written, Unwritten, Sound
      <3>3. CASE e # d
        <4>1. reply'[e] = reply[e]
          BY <2>4, <3>3 DEF End, TypeOK
        <4>2. reply[e].ref # txn[d].ref
          BY <2>4 DEF RefsAreFresh
        <4> QED  BY <2>2, <3>1, <3>2, <4>1, <4>2
      <3>4. CASE e = d /\ result = "error"
        BY <2>4, <3>4 DEF End, TypeOK, TrueReply
      <3>5. CASE e = d /\ result # "error"
        <4>1. /\ Written(d) /\ Verdict(d) /\ result = txn[d].result
              /\ reply'[e] = [result |-> result, req |-> txn[d].req, ref |-> txn[d].ref]
          BY <2>4, <3>0, <3>5 DEF End, TypeOK, Sound
        <4>2. CASE result = "approved"
          <5>1. /\ txn[d].decision = "approved" /\ txn[d].grant # None /\ Pending(d)
                /\ txn[d].req \in RequestIds /\ txn[d].grant.ref = txn[d].ref
            BY <3>0, <4>1, <4>2 DEF Verdict, Sound, Holds, Results
          <5>2. requests' = [requests EXCEPT ![txn[d].req].status = "approved", ![txn[d].req].ref = txn[d].ref]
            BY <4>1, <5>1 DEF Written, Results
          <5>3. requests[txn[d].req] \in Request
            BY <5>1 DEF Pending, TypeOK
          <5>4. /\ requests'[txn[d].req].status = "approved" /\ requests'[txn[d].req].ref = txn[d].ref
                /\ requests'[txn[d].req] \in Request
            BY <3>0, <5>1, <5>2, <5>3 DEF Request, Txn, TypeOK
          <5>5. txn[d].grant \in grants'
            BY <4>1, <5>1 DEF Written
          <5> QED  BY <4>1, <4>2, <5>1, <5>4, <5>5 DEF TrueReply, Decided
        <4>3. CASE result = "rejected"
          <5>1. /\ txn[d].decision = "rejected" /\ Pending(d) /\ txn[d].req \in RequestIds
            BY <3>0, <4>1, <4>3 DEF Verdict, Sound, Holds, Results
          <5>2. requests' = [requests EXCEPT ![txn[d].req].status = "rejected", ![txn[d].req].ref = 0]
            BY <4>1, <5>1 DEF Written, Results
          <5>3. requests[txn[d].req] \in Request
            BY <5>1 DEF Pending, TypeOK
          <5>4. requests'[txn[d].req].status = "rejected" /\ requests'[txn[d].req] \in Request
            BY <5>1, <5>2, <5>3 DEF Request, TypeOK
          <5> QED  BY <4>1, <4>3, <5>1, <5>4 DEF TrueReply, Decided
        <4>4. CASE result = "issued"
          <5>1. txn[d].grant # None /\ txn[d].grant.ref = txn[d].ref
            BY <3>0, <4>1, <4>4 DEF Verdict, Sound
          <5>2. txn[d].grant \in grants'
            BY <4>1, <5>1 DEF Written
          <5> QED  BY <4>1, <4>4, <5>1, <5>2 DEF TrueReply
        <4>5. CASE result = "not_pending"
          <5>1. Decided(txn[d].req) /\ txn[d].grant = None
            BY <4>1, <4>5 DEF Verdict
          <5> QED  BY <3>1, <4>1, <4>5, <5>1 DEF TrueReply, Decided
        <4>6. CASE result \in {"refused", "no_rule", "not_found"}
          <5>1. txn[d].grant = None
            BY <4>1, <4>6 DEF Verdict
          <5>2. grants' = grants /\ \A g \in grants : g.ref # txn[d].ref
            BY <2>4, <4>1, <5>1 DEF Written, RefsAreFresh
          <5> QED  BY <4>1, <4>6, <5>2 DEF TrueReply
        <4> QED  BY <3>5, <4>2, <4>3, <4>4, <4>5, <4>6 DEF Results
      <3> QED  BY <3>3, <3>4, <3>5
    <2> QED  BY <2>1, <2>2, <2>3, <2>4, RequestSteps
  <1>3. TypeOK /\ AllTrue => RepliesAreTrue
    <2> SUFFICES ASSUME TypeOK, AllTrue, NEW d \in Deciders
                 PROVE  LET a == reply[d]
                            own == {g \in grants : g.ref = a.ref}
                        IN CASE a.result = "approved" -> /\ requests[a.req].status = "approved"
                                                         /\ requests[a.req].ref = a.ref /\ own # {}
                             [] a.result = "rejected" -> requests[a.req].status = "rejected"
                             [] a.result = "issued" -> own # {}
                             [] a.result = "not_pending" ->
                                  requests[a.req].status \in {"approved", "rejected"}
                             [] a.result \in {"refused", "no_rule", "not_found"} -> own = {}
                             [] OTHER -> TRUE
      BY DEF RepliesAreTrue
    <2>1. TrueReply(d)
      BY DEF AllTrue
    <2>2. Decided(reply[d].req) => requests[reply[d].req].status \in {"approved", "rejected"}
      BY DEF Decided, TypeOK, Request
    <2> QED  BY <2>1, <2>2 DEF TrueReply
  <1> QED  BY <1>1, <1>2, <1>3, TypeCorrect, PTL DEF Spec
-----------------------------------------------------------------------------
\* A row that covers the grant, and a rule that allows the ask, were in force while
\* the transaction ran.
Covered(d) == \E s \in seen[d].bounds : /\ s[1] = txn[d].grant.agent
                                        /\ Covers(s[2], txn[d].grant.scopes, txn[d].grant.ttl)
Allowed(d) == \E rule \in seen[d].rules : Allows(rule, txn[d].ask)

Witnessed(d) ==
    /\ txn[d].stage # "idle" => /\ \A a \in Agents : <<a, bounds[a]>> \in seen[d].bounds
                                /\ \A i \in RuleIds : rules[i] \in seen[d].rules
    /\ txn[d].grant # None => /\ txn[d].grant.ttl = AppliedTTL(txn[d].ask)
                              /\ txn[d].grant.ttl <= Ceiling /\ Covered(d)
    /\ txn[d].kind = "auto" /\ txn[d].rule # None => Allowed(d)
    /\ txn[d].kind = "auto" /\ txn[d].stage \in {"claim", "issue"} => txn[d].rule # None
    /\ txn[d].kind = "auto" /\ txn[d].grant # None => txn[d].rule # None

AllWitnessed ==
    /\ seen \in [Deciders -> [bounds : SUBSET (Agents \X (Bound \cup {None})),
                              rules : SUBSET (Rule \cup {None})]]
    /\ \A d \in Deciders : Witnessed(d)
    /\ \A r \in RequestIds : requests[r] # None => requests[r].ask.ttl > 0

LEMMA WitnessStep ==
    ASSUME TypeOK, AllSound, RefsAreFresh, AllWitnessed, [Next]_vars
    PROVE  AllWitnessed'
  <1> USE GrantsAssumption
  <1> DEFINE Seen == [bounds : SUBSET (Agents \X (Bound \cup {None})), rules : SUBSET (Rule \cup {None})]
             Positive == \A r \in RequestIds : requests[r] # None => requests[r].ask.ttl > 0
  <1>0. \A d \in Deciders : txn[d] \in Txn /\ Sound(d) /\ Witnessed(d) /\ seen[d] \in Seen
    BY DEF TypeOK, AllSound, AllWitnessed
  <1>1. ASSUME NEW e \in Deciders, txn'[e] = txn[e],
               seen[e].bounds \subseteq seen'[e].bounds, seen[e].rules \subseteq seen'[e].rules,
               txn[e].stage # "idle" => /\ \A a \in Agents : <<a, bounds'[a]>> \in seen'[e].bounds
                                        /\ \A i \in RuleIds : rules'[i] \in seen'[e].rules
        PROVE  Witnessed(e)'
    <2>1. Covered(e) => Covered(e)'
      BY <1>1 DEF Covered
    <2>2. Allowed(e) => Allowed(e)'
      BY <1>1 DEF Allowed
    <2> QED  BY <1>0, <1>1, <2>1, <2>2 DEF Witnessed
  <1>2. ASSUME NEW d \in Deciders, seen' = seen, requests' = requests, bounds' = bounds, rules' = rules,
               Witnessed(d)', \A e \in Deciders \ {d} : txn'[e] = txn[e]
        PROVE  AllWitnessed'
    <2>1. \A e \in Deciders : Witnessed(e)'
      BY <1>0, <1>1, <1>2 DEF Witnessed
    <2> QED  BY <1>2, <2>1 DEF AllWitnessed
  <1>3. ASSUME NEW newBounds \in [Agents -> Bound \cup {None}], NEW newRules \in [RuleIds -> Rule \cup {None}],
               Observe(newBounds, newRules), bounds' = newBounds, rules' = newRules,
               txn' = txn, requests' = requests
        PROVE  AllWitnessed'
    <2>1. ASSUME NEW e \in Deciders
          PROVE  /\ seen'[e] \in Seen
                 /\ seen[e].bounds \subseteq seen'[e].bounds /\ seen[e].rules \subseteq seen'[e].rules
                 /\ txn[e].stage # "idle" => /\ \A a \in Agents : <<a, newBounds[a]>> \in seen'[e].bounds
                                             /\ \A i \in RuleIds : newRules[i] \in seen'[e].rules
      <3>1. CASE e \in Running
        <4> DEFINE nb == {<<a, newBounds[a]>> : a \in Agents}
                   nr == {newRules[i] : i \in RuleIds}
        <4>1. seen'[e] = [bounds |-> seen[e].bounds \cup nb, rules |-> seen[e].rules \cup nr]
          BY <1>3, <3>1 DEF Observe
        <4>2. nb \subseteq Agents \X (Bound \cup {None}) /\ nr \subseteq Rule \cup {None}
          BY <1>3
        <4> QED  BY <1>0, <4>1, <4>2
      <3>2. CASE e \notin Running
        BY <1>0, <1>3, <3>2 DEF Observe, Running
      <3> QED  BY <3>1, <3>2
    <2>2. \A e \in Deciders : Witnessed(e)'
      BY <1>1, <1>3, <2>1
    <2>3. seen' \in [Deciders -> Seen]
      <3>1. seen' = [e \in Deciders |-> seen'[e]]
        BY <1>3 DEF Observe
      <3> QED  BY <2>1, <3>1
    <2> QED  BY <1>3, <2>2, <2>3 DEF AllWitnessed
  <1>4. ASSUME NEW d \in Deciders, NEW new \in Txn, Start(d, new), new.grant = None, new.rule = None,
               new.kind # "auto" \/ new.stage = "lock"
        PROVE  AllWitnessed'
    <2> DEFINE now == [bounds |-> {<<a, bounds[a]>> : a \in Agents}, rules |-> {rules[i] : i \in RuleIds}]
    <2>1. now \in Seen
      BY DEF TypeOK
    <2>2. /\ seen' = [seen EXCEPT ![d] = now] /\ txn' = [txn EXCEPT ![d] = [new EXCEPT !.ref = begun + 1]]
          /\ requests' = requests /\ bounds' = bounds /\ rules' = rules
      BY <1>4 DEF Start, shared
    <2>3. seen' \in [Deciders -> Seen] /\ seen'[d] = now
      BY <2>1, <2>2 DEF AllWitnessed
    <2>4. /\ txn'[d].grant = None /\ txn'[d].rule = None
          /\ txn'[d].kind = new.kind /\ txn'[d].stage = new.stage
      BY <1>4, <2>2 DEF TypeOK, Txn
    <2>5. Witnessed(d)'
      BY <1>4, <2>2, <2>3, <2>4 DEF Witnessed
    <2>6. \A e \in Deciders \ {d} : txn'[e] = txn[e] /\ seen'[e] = seen[e]
      BY <2>2 DEF TypeOK, AllWitnessed
    <2>7. \A e \in Deciders \ {d} : Witnessed(e)'
      BY <1>0, <1>1, <2>2, <2>6 DEF Witnessed
    <2> QED  BY <2>2, <2>3, <2>5, <2>7 DEF AllWitnessed
  <1>5. ASSUME NEW d \in Deciders, NEW result, End(d, result), Written(d) \/ Unwritten(d)
        PROVE  AllWitnessed'
    <2>1. /\ seen' = [seen EXCEPT ![d] = Unseen] /\ txn' = [txn EXCEPT ![d] = Idle]
          /\ bounds' = bounds /\ rules' = rules
      BY <1>5 DEF End
    <2>2. seen' \in [Deciders -> Seen]
      BY <2>1 DEF AllWitnessed, Unseen
    <2>3. txn'[d] = Idle
      BY <2>1 DEF TypeOK
    <2>4. Witnessed(d)'
      BY <2>3 DEF Witnessed, Idle, Kinds
    <2>5. \A e \in Deciders \ {d} : txn'[e] = txn[e] /\ seen'[e] = seen[e]
      BY <2>1 DEF TypeOK, AllWitnessed
    <2>6. \A e \in Deciders \ {d} : Witnessed(e)'
      BY <1>0, <1>1, <2>1, <2>5 DEF Witnessed
    <2>7. Positive'
      <3> SUFFICES ASSUME NEW r \in RequestIds, requests'[r] # None  PROVE requests'[r].ask.ttl > 0
        OBVIOUS
      <3>1. CASE requests'[r] = requests[r]
        BY <3>1 DEF AllWitnessed
      <3>2. CASE requests'[r] # requests[r]
        <4>1. r = txn[d].req /\ txn[d].decision # None /\ Pending(d)
          BY <1>0, <1>5, <3>2, WritesOwnRequest
        <4>2. requests[r] \in Request /\ requests[r].ask.ttl > 0
          BY <4>1 DEF Pending, TypeOK, AllWitnessed
        <4>3. \E s, f : requests' = [requests EXCEPT ![r].status = s, ![r].ref = f]
          BY <1>5, <3>2, <4>1 DEF Written, Unwritten
        <4>4. requests'[r].ask = requests[r].ask
          BY <4>2, <4>3 DEF TypeOK, Request
        <4> QED  BY <4>2, <4>4
      <3> QED  BY <3>1, <3>2
    <2> QED  BY <2>2, <2>4, <2>6, <2>7 DEF AllWitnessed
  <1>6. ASSUME NEW a \in Agents, NEW row \in BoundRows \cup {None}, SetBounds(a, row)  PROVE AllWitnessed'
    <2>1. [bounds EXCEPT ![a] = row] \in [Agents -> Bound \cup {None}] /\ rules \in [RuleIds -> Rule \cup {None}]
      BY DEF TypeOK
    <2> QED  BY <1>3, <1>6, <2>1 DEF SetBounds
  <1>7. ASSUME NEW i \in RuleIds, NEW row \in RuleRows \cup {None}, SetRule(i, row)  PROVE AllWitnessed'
    <2>1. [rules EXCEPT ![i] = row] \in [RuleIds -> Rule \cup {None}] /\ bounds \in [Agents -> Bound \cup {None}]
      BY DEF TypeOK
    <2> QED  BY <1>3, <1>7, <2>1 DEF SetRule
  <1>8. ASSUME NEW r \in RequestIds, NEW ask \in Asks, create_grant_request(r, ask)  PROVE AllWitnessed'
    <2>1. \A e \in Deciders : Witnessed(e)'
      BY <1>0, <1>1, <1>8 DEF create_grant_request, Witnessed
    <2>2. Positive'
      BY <1>8 DEF create_grant_request, TypeOK, AllWitnessed
    <2> QED  BY <1>8, <2>1, <2>2 DEF create_grant_request, AllWitnessed
  <1>9. ASSUME NEW d \in Deciders, NEW kind \in Kinds \ {"issue"},
               NEW ws \in Workspaces, NEW r \in RequestIds, Begin(d, kind, ws, r)
        PROVE  AllWitnessed'
    <2> DEFINE new == [Idle EXCEPT !.stage = "lock", !.kind = kind, !.ws = ws, !.req = r]
    <2>1. new \in Txn /\ new.grant = None /\ new.rule = None /\ new.stage = "lock"
      BY DEF Idle, Txn
    <2> QED  BY <1>4, <1>9, <2>1 DEF Begin
  <1>10. ASSUME NEW d \in Deciders, NEW ask \in Asks, BeginIssue(d, ask)  PROVE AllWitnessed'
    <2> DEFINE new == [Idle EXCEPT !.stage = "issue", !.kind = "issue", !.ask = ask]
    <2>1. new \in Txn /\ new.grant = None /\ new.rule = None /\ new.kind # "auto"
      BY DEF Idle, Txn, Kinds
    <2> QED  BY <1>4, <1>10, <2>1 DEF BeginIssue
  <1>11. ASSUME NEW d \in Deciders, Lock(d)  PROVE AllWitnessed'
    <2>1. txn'[d] = [txn[d] EXCEPT !.stage = "read"]
      BY <1>11 DEF Lock, Step, TypeOK
    <2>2. Witnessed(d)'
      BY <1>0, <1>11, <2>1 DEF Lock, Step, shared, Txn, Witnessed, Sound, Allowed
    <2> QED  BY <1>2, <1>11, <2>2 DEF Lock, Step, shared, TypeOK
  <1>12. ASSUME NEW d \in Deciders, Read(d)  PROVE AllWitnessed'
    <2>1. \/ txn'[d] = Give(d, "not_found") \/ txn'[d] = Give(d, "not_pending")
          \/ /\ txn[d].kind = "auto" /\ txn[d].rule = None
             /\ txn'[d] = [txn[d] EXCEPT !.ask = requests[txn[d].req].ask, !.stage = "evaluate"]
          \/ /\ txn[d].kind # "auto" \/ txn[d].rule # None
             /\ txn'[d] = [txn[d] EXCEPT !.ask = requests[txn[d].req].ask, !.stage = "claim"]
      BY <1>12 DEF Read, Step, TypeOK
    <2>2. txn[d].grant = None /\ (txn[d].rule # None => txn[d].ask = requests[txn[d].req].ask)
      BY <1>0, <1>12 DEF Read, Sound, Pending
    <2>3. UNCHANGED <<seen, bounds, rules>> /\ txn[d].stage = "read"
      BY <1>12 DEF Read, Step, shared
    <2>4. Witnessed(d)'
      <3>1. CASE txn'[d] = Give(d, "not_found") \/ txn'[d] = Give(d, "not_pending")
        <4>1. /\ txn'[d].ask = txn[d].ask /\ txn'[d].rule = txn[d].rule /\ txn'[d].kind = txn[d].kind
              /\ txn'[d].grant = txn[d].grant /\ txn'[d].stage = "commit"
          BY <1>0, <3>1 DEF Give, Txn
        <4> QED  BY <1>0, <2>2, <2>3, <4>1 DEF Witnessed, Allowed
      <3>2. CASE /\ txn[d].kind = "auto" /\ txn[d].rule = None
                 /\ txn'[d] = [txn[d] EXCEPT !.ask = requests[txn[d].req].ask, !.stage = "evaluate"]
        BY <1>0, <2>2, <2>3, <3>2 DEF Txn, Witnessed
      <3>3. CASE /\ txn[d].kind # "auto" \/ txn[d].rule # None
                 /\ txn'[d] = [txn[d] EXCEPT !.ask = requests[txn[d].req].ask, !.stage = "claim"]
        BY <1>0, <2>2, <2>3, <3>3 DEF Txn, Witnessed, Allowed
      <3> QED  BY <2>1, <3>1, <3>2, <3>3
    <2> QED  BY <1>2, <1>12, <2>4 DEF Read, Step, shared, TypeOK
  <1>13. ASSUME NEW d \in Deciders, Evaluate(d)  PROVE AllWitnessed'
    <2>1. UNCHANGED <<seen, bounds, rules>> /\ txn[d].stage = "evaluate" /\ txn[d].grant = None
      BY <1>0, <1>13 DEF Evaluate, Step, shared, Sound
    <2>2. ASSUME \E i \in RuleIds : /\ Allows(rules[i], txn[d].ask)
                                    /\ Step(d, [txn[d] EXCEPT !.rule = i, !.stage = "read"])
          PROVE  Witnessed(d)'
      <3>1. PICK i \in RuleIds : /\ Allows(rules[i], txn[d].ask)
                                 /\ txn'[d] = [txn[d] EXCEPT !.rule = i, !.stage = "read"]
        BY <2>2 DEF Step, TypeOK
      <3>2. rules[i] \in seen[d].rules /\ txn'[d].ask = txn[d].ask
        BY <1>0, <2>1, <3>1 DEF Witnessed, Txn
      <3>3. Allowed(d)'
        BY <2>1, <3>1, <3>2 DEF Allowed
      <3> QED  BY <1>0, <2>1, <3>1, <3>3 DEF Txn, Witnessed
    <2>3. ASSUME Step(d, Give(d, "no_rule"))
          PROVE  Witnessed(d)'
      <3>1. txn'[d] = Give(d, "no_rule")
        BY <2>3 DEF Step, TypeOK
      <3>2. /\ txn'[d].ask = txn[d].ask /\ txn'[d].rule = txn[d].rule /\ txn'[d].kind = txn[d].kind
            /\ txn'[d].grant = txn[d].grant /\ txn'[d].stage = "commit"
        BY <1>0, <3>1 DEF Give, Txn
      <3> QED  BY <1>0, <2>1, <3>2 DEF Witnessed, Allowed
    <2>4. Witnessed(d)'
      BY <1>13, <2>2, <2>3 DEF Evaluate
    <2> QED  BY <1>2, <1>13, <2>4 DEF Evaluate, Step, shared, TypeOK
  <1>14. ASSUME NEW d \in Deciders, Claim(d)  PROVE AllWitnessed'
    <2>1. UNCHANGED <<seen, bounds, rules>> /\ txn[d].stage = "claim" /\ txn[d].grant = None
      BY <1>0, <1>14 DEF Claim, Step, shared, Sound
    <2>2. \/ txn'[d] = Give(d, "not_pending")
          \/ txn'[d] = [Give(d, "rejected") EXCEPT !.decision = "rejected"]
          \/ txn'[d] = [txn[d] EXCEPT !.decision = "approved", !.stage = "issue"]
      BY <1>14 DEF Claim, Step, TypeOK
    <2>3. /\ txn'[d].ask = txn[d].ask /\ txn'[d].rule = txn[d].rule /\ txn'[d].kind = txn[d].kind
          /\ txn'[d].grant = txn[d].grant
      BY <1>0, <2>2 DEF Give, Txn
    <2>4. Witnessed(d)'
      BY <1>0, <2>1, <2>3 DEF Witnessed, Allowed
    <2> QED  BY <1>2, <1>14, <2>4 DEF Claim, Step, shared, TypeOK
  <1>15. ASSUME NEW d \in Deciders, Issue(d)  PROVE AllWitnessed'
    <2>1. /\ UNCHANGED <<seen, bounds, rules>> /\ txn[d].stage = "issue" /\ txn[d].grant = None
          /\ txn[d].ask \in Ask
      BY <1>0, <1>15 DEF Issue, Step, shared, Sound
    <2>2. ASSUME Issuable(txn[d].ask, bounds[txn[d].ask.agent])
          PROVE  Witnessed(d)'
      <3>1. \/ txn'[d] = [Give(d, "issued") EXCEPT !.grant = GrantOf(d)]
            \/ txn'[d] = [Give(d, "approved") EXCEPT !.grant = GrantOf(d)]
        BY <1>15, <2>2 DEF Issue, Step, TypeOK
      <3>2. /\ txn'[d].ask = txn[d].ask /\ txn'[d].rule = txn[d].rule /\ txn'[d].kind = txn[d].kind
            /\ txn'[d].grant = GrantOf(d) /\ txn'[d].stage = "commit"
        BY <1>0, <3>1 DEF Give, Txn
      <3>3. /\ GrantOf(d).agent = txn[d].ask.agent /\ GrantOf(d).ttl = AppliedTTL(txn[d].ask)
            /\ GrantOf(d).scopes = txn[d].ask.scopes
        BY DEF GrantOf
      <3>4. /\ AppliedTTL(txn[d].ask) <= Ceiling
            /\ Covers(bounds[txn[d].ask.agent], GrantOf(d).scopes, GrantOf(d).ttl)
        BY <2>2, <3>3 DEF Issuable
      <3>5. <<txn[d].ask.agent, bounds[txn[d].ask.agent]>> \in seen[d].bounds
        BY <1>0, <2>1 DEF Witnessed, Ask
      <3>6. Covered(d)'
        <4> DEFINE s == <<txn[d].ask.agent, bounds[txn[d].ask.agent]>>
        <4>1. s[1] = GrantOf(d).agent /\ Covers(s[2], GrantOf(d).scopes, GrantOf(d).ttl)
          BY <3>3, <3>4
        <4> QED  BY <2>1, <3>2, <3>5, <4>1 DEF Covered
      <3> QED  BY <1>0, <2>1, <3>2, <3>3, <3>4, <3>6 DEF Witnessed, Allowed
    <2>3. ASSUME ~Issuable(txn[d].ask, bounds[txn[d].ask.agent])
          PROVE  Witnessed(d)'
      <3>1. txn'[d] = [Give(d, "refused") EXCEPT !.decision = None]
        BY <1>15, <2>3 DEF Issue, Step, TypeOK
      <3>2. /\ txn'[d].ask = txn[d].ask /\ txn'[d].rule = txn[d].rule /\ txn'[d].kind = txn[d].kind
            /\ txn'[d].grant = txn[d].grant /\ txn'[d].stage = "commit"
        BY <1>0, <3>1 DEF Give, Txn
      <3> QED  BY <1>0, <2>1, <3>2 DEF Witnessed, Allowed
    <2>4. Witnessed(d)'
      BY <2>2, <2>3
    <2> QED  BY <1>2, <1>15, <2>4 DEF Issue, Step, shared, TypeOK
  <1>16. ASSUME NEW d \in Deciders, Commit(d) \/ Fail(d)  PROVE AllWitnessed'
    BY <1>5, <1>16 DEF Commit, Fail
  <1>17. CASE UNCHANGED vars
    <2>1. \A e \in Deciders : Witnessed(e)'
      BY <1>0, <1>1, <1>17 DEF vars, shared, Witnessed
    <2> QED  BY <1>17, <2>1 DEF vars, shared, AllWitnessed
  <1> QED  BY <1>6, <1>7, <1>8, <1>9, <1>10, <1>11, <1>12, <1>13, <1>14, <1>15, <1>16,
              <1>17, StepCases

LEMMA AlwaysWitnessed == Spec => []AllWitnessed
  <1>1. Init => AllWitnessed
    BY GrantsAssumption DEF Init, AllWitnessed, Witnessed, Idle, Unseen, Kinds
  <1> QED  BY <1>1, TypeCorrect, WitnessStep, PTL DEF Spec

\* A new grant is the grant of a transaction that commits.
LEMMA NewGrants ==
    ASSUME TypeOK, AllSound, [Next]_vars, NEW g \in grants' \ grants
    PROVE  \E d \in Deciders : txn[d].stage # "idle" /\ txn[d].grant # None /\ g = txn[d].grant
  BY RequestSteps DEF create_grant_request, Written, Unwritten

\* Whatever an operator does to the bounds while a grant is on its way, one row that
\* was in force meanwhile covers it: its scopes, and its lifetime as applied.
THEOREM GrantsWithinBounds == Spec => IssuedWithinBounds
  <1>1. ASSUME TypeOK, AllSound, AllWitnessed, [Next]_vars, NEW g \in grants' \ grants
        PROVE  \E d \in Deciders : \E s \in seen[d].bounds :
                 /\ txn[d].ref = g.ref
                 /\ s[1] = g.agent /\ Covers(s[2], g.scopes, g.ttl) /\ g.ttl <= Ceiling
    <2>1. PICK d \in Deciders : txn[d].grant # None /\ g = txn[d].grant
      BY <1>1, NewGrants
    <2>2. g.ref = txn[d].ref /\ g.ttl <= Ceiling /\ Covered(d)
      BY <1>1, <2>1 DEF AllSound, Sound, AllWitnessed, Witnessed
    <2> QED  BY <2>1, <2>2 DEF Covered
  <1>2. TypeOK /\ AllSound /\ AllWitnessed /\ [Next]_vars
          => [\A g \in grants' \ grants : \E d \in Deciders : \E s \in seen[d].bounds :
                /\ txn[d].ref = g.ref
                /\ s[1] = g.agent /\ Covers(s[2], g.scopes, g.ttl) /\ g.ttl <= Ceiling]_vars
    BY <1>1
  <1> QED  BY <1>2, TypeCorrect, AlwaysWitnessed, PTL DEF Spec, IssuedWithinBounds

\* Nothing is approved automatically that no active rule of the agent allowed while
\* the decision ran.
THEOREM AutoApprovalsNeedRules == Spec => AutoApprovalNeedsRule
  <1>1. ASSUME TypeOK, AllSound, RefsAreFresh, AllWitnessed, [Next]_vars, NEW g \in grants' \ grants,
               NEW d \in Deciders, txn[d].ref = g.ref, txn[d].kind = "auto"
        PROVE  \E rule \in seen[d].rules :
                 /\ rule # None /\ rule.status = "active" /\ rule.agent = g.agent
                 /\ WithinBounds(g.scopes, rule.scopes) /\ g.ttl <= rule.ttl
    <2>0. Sound(d) /\ Witnessed(d) /\ txn[d] \in Txn
      BY <1>1 DEF AllSound, AllWitnessed, TypeOK
    <2>1. PICK e \in Deciders : txn[e].stage # "idle" /\ txn[e].grant # None /\ g = txn[e].grant
      BY <1>1, NewGrants
    <2>2. txn[d].stage # "idle"
      BY <1>1, <2>0, GrantsAssumption DEF Sound, Idle, Kinds
    <2>3. e = d
      BY <1>1, <2>1, <2>2 DEF AllSound, Sound, RefsAreFresh
    <2>4. /\ txn[d].ask \in Ask /\ g.agent = txn[d].ask.agent /\ g.scopes = txn[d].ask.scopes
          /\ g.ttl = AppliedTTL(txn[d].ask) /\ Allowed(d)
      BY <1>1, <2>0, <2>1, <2>3 DEF Sound, Witnessed
    <2>5. txn[d].decision # None /\ Pending(d) /\ txn[d].req \in RequestIds
      <3>1. txn[d].stage = "commit" /\ Verdict(d)
        BY <2>0, <2>1, <2>3 DEF Sound
      <3>2. txn[d].decision = "approved"
        BY <1>1, <2>1, <2>3, <3>1 DEF Verdict
      <3>3. txn[d].decision # None
        BY <3>2, GrantsAssumption DEF Results
      <3> QED  BY <2>0, <3>3 DEF Sound, Holds
    <2>6. txn[d].ask.ttl > 0
      BY <1>1, <2>5 DEF Pending, AllWitnessed
    <2>7. g.ttl = txn[d].ask.ttl
      BY <2>4, <2>6 DEF AppliedTTL
    <2> QED  BY <2>4, <2>7 DEF Allowed, Allows
  <1>2. TypeOK /\ AllSound /\ RefsAreFresh /\ AllWitnessed /\ [Next]_vars
          => [\A g \in grants' \ grants : \A d \in Deciders :
                txn[d].ref = g.ref /\ txn[d].kind = "auto" =>
                  \E rule \in seen[d].rules :
                    /\ rule # None /\ rule.status = "active" /\ rule.agent = g.agent
                    /\ WithinBounds(g.scopes, rule.scopes) /\ g.ttl <= rule.ttl]_vars
    BY <1>1
  <1> QED  BY <1>2, TypeCorrect, AlwaysWitnessed, PTL DEF Spec, AutoApprovalNeedsRule

\* The request, the grant and the answers agree, for any number of deciders,
\* requests and lost commits.
THEOREM AccountsAgree == Spec => []DecisionsAgree
  <1>1. GrantsMatchRequests /\ RepliesAreTrue => DecisionsAgree
    BY DEF DecisionsAgree
  <1> QED
    BY GrantsAgree, AnswersStayTrue, <1>1, PTL
=============================================================================
