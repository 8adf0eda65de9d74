------------------------- MODULE IdempotencyProofs -------------------------
(***************************************************************************)
(* Proofs about Idempotency, for every set of services, keys, versions and *)
(* nonces, every clock bound and every limit.                              *)
(***************************************************************************)
EXTENDS Idempotency, FiniteSetTheorems, TLAPS

LEMMA DefaultsTyped == NoRing \in Keyrings /\ NoRequest \in Requests
<1>1. \E k \in Keys, f \in Fingerprints : [key |-> k, fp |-> f] \in Requests
  BY InputsAssumption DEF Requests
<1>. QED
  BY <1>1, InputsAssumption DEF NoRing, NoRequest

\* Ending a request keeps the process variables well typed.
LEMMA FinishTyped ==
    ASSUME TypeOK, NEW s \in Services, NEW answer \in Replies, Finish(s, answer)
    PROVE  /\ pc' \in [Services -> Stages] /\ req' \in [Services -> Requests]
           /\ epoch' \in [Services -> Nat] /\ rsv' \in [Services -> SUBSET Reservation]
           /\ reply' \in [Services -> Replies]
  BY DEF TypeOK, Finish, Stages

LEMMA ClosedTyped ==
    ASSUME TypeOK, NEW s \in Services, Quarantine(s)
    PROVE  up' \subseteq Services /\ ring' \in [Services -> Keyrings]
  BY DefaultsTyped DEF TypeOK, Quarantine

LEMMA RepliesTyped ==
    /\ NoReply \in Replies /\ Conflict \in Replies /\ Unavailable \in Replies
    /\ \A e \in Effect : Response(e) \in Replies
  BY DEF NoReply, Conflict, Unavailable, Response, Replies

\* Answering or quarantining, with any well-typed answer.
LEMMA EndTyped ==
    ASSUME TypeOK, NEW s \in Services,
           (\E answer \in Replies : Answer(s, answer)) \/ Quarantine(s)
    PROVE  /\ pc' \in [Services -> Stages] /\ req' \in [Services -> Requests]
           /\ epoch' \in [Services -> Nat] /\ rsv' \in [Services -> SUBSET Reservation]
           /\ reply' \in [Services -> Replies]
           /\ up' \subseteq Services /\ ring' \in [Services -> Keyrings]
<1>1. CASE \E answer \in Replies : Answer(s, answer)
  <2>1. PICK answer \in Replies : Answer(s, answer)
    BY <1>1
  <2>. QED
    BY <2>1, FinishTyped DEF Answer, TypeOK
<1>2. CASE Quarantine(s)
  BY <1>2, FinishTyped, ClosedTyped, RepliesTyped DEF Quarantine
<1>. QED
  BY <1>1, <1>2

LEMMA AnswerFromRowTyped ==
    ASSUME TypeOK, NEW s \in Services, NEW t, NEW keyring, AnswerFromRow(s, keyring, t)
    PROVE  \E answer \in Replies : Answer(s, answer)
  BY RepliesTyped DEF AnswerFromRow, Replays, Row, TypeOK

LEMMA TypeInit == Init => TypeOK
<1>. SUFFICES ASSUME Init PROVE TypeOK
  OBVIOUS
<1>1. /\ reply \in [Services -> Replies] /\ ring \in [Services -> Keyrings]
      /\ req \in [Services -> Requests]
  BY DefaultsTyped, RepliesTyped DEF Init
<1>2. /\ pc \in [Services -> Stages] /\ disabled \in [Versions -> Reasons]
      /\ drainedAt \in [Versions -> Nat \cup {Never}]
  BY DEF Init, Stages, Reasons
<1>. QED
  BY <1>1, <1>2 DEF Init, TypeOK

LEMMA TypeNext == TypeOK /\ [Next]_vars => TypeOK'
<1>. SUFFICES ASSUME TypeOK, [Next]_vars PROVE TypeOK'
  OBVIOUS
<1>. USE RepliesTyped, DefaultsTyped
<1>1. CASE UNCHANGED vars
  BY <1>1 DEF vars, dbVars, procVars, TypeOK
<1>2. CASE Tick
  BY <1>2 DEF Tick, dbVars, procVars, TypeOK
<1>3. ASSUME NEW keyring \in Keyrings, NEW v \in Versions,
             WriteDisable(keyring, v) \/ CompleteDrain(keyring, v) \/ Retire(keyring, v)
      PROVE TypeOK'
  <2>. keyring.keys \subseteq Versions
    BY KeyringsAssumption
  <2>1. CASE WriteDisable(keyring, v)
    BY <2>1 DEF WriteDisable, OperatorOpens, procVars, TypeOK, Reasons
  <2>2. CASE CompleteDrain(keyring, v)
    BY <2>2 DEF CompleteDrain, OperatorOpens, procVars, TypeOK
  <2>3. CASE Retire(keyring, v)
    BY <2>3 DEF Retire, OperatorOpens, procVars, TypeOK
  <2>. QED
    BY <1>3, <2>1, <2>2, <2>3
<1>4. ASSUME NEW s \in Services, ServiceStep(s) PROVE TypeOK'
  <2>1. ASSUME NEW k \in Keys, NEW f \in Fingerprints, Receive(s, k, f) PROVE TypeOK'
    BY <2>1 DEF Receive, dbVars, TypeOK, Stages, Requests
  <2>2. CASE Lookup(s)
    <3>1. CASE AnswerFromRow(s, ring[s], epoch[s])
      BY <2>2, <3>1, AnswerFromRowTyped, EndTyped DEF Lookup, dbVars, TypeOK
    <3>2. CASE ~AnswerFromRow(s, ring[s], epoch[s])
      BY <2>2, <3>2 DEF Lookup, dbVars, TypeOK, Stages
    <3>. QED
      BY <3>1, <3>2
  <2>3. CASE Reserve(s)
    <3>1. ASSUME NEW n \in Nonces, RecordReservation(s, NextReservation(s, n)) PROVE TypeOK'
      <4>. DEFINE row == NextReservation(s, n)
      <4>1. row \in Reservation
        BY KeyringsAssumption DEF NextReservation, TypeOK, Requests, Reservation
      <4>2. /\ slots' \in [Versions -> Nat] /\ ledger' \subseteq Reservation
            /\ ledger \subseteq ledger'
        BY <3>1, <4>1 DEF RecordReservation, TypeOK, Reservation
      <4>3. CASE Quarantine(s)
        BY <2>3, <4>2, <4>3, EndTyped DEF Reserve, TypeOK
      <4>4. CASE ~Quarantine(s)
        BY <2>3, <3>1, <4>1, <4>2, <4>4 DEF RecordReservation, Reserve, TypeOK, Stages
      <4>. QED
        BY <4>3, <4>4
    <3>2. CASE AbortReservation(s, "nonce_collision") \/ AbortReservation(s, "hard_limit")
      BY <2>3, <3>2 DEF Reserve, AbortReservation, TypeOK, Stages
    <3>3. CASE (Answer(s, Unavailable) \/ Quarantine(s)) /\ UNCHANGED <<slots, ledger>>
      BY <2>3, <3>3, EndTyped DEF Reserve, TypeOK
    <3>. QED
      BY <2>3, <3>1, <3>2, <3>3 DEF Reserve
  <2>4. CASE WriteDisableOwn(s)
    <3>1. ring[s].active \in Versions
      BY KeyringsAssumption DEF TypeOK
    <3>2. disabled' \in [Versions -> Reasons]
      BY <2>4, <3>1 DEF WriteDisableOwn, TypeOK, Reasons
    <3>. QED
      BY <2>4, <3>2, EndTyped DEF WriteDisableOwn, TypeOK
  <2>5. CASE Recheck(s)
    <3>1. CASE AnswerFromRow(s, ring[s], now)
      BY <2>5, <3>1, AnswerFromRowTyped, EndTyped DEF Recheck, dbVars, TypeOK
    <3>2. CASE ~AnswerFromRow(s, ring[s], now)
      BY <2>5, <3>2 DEF Recheck, dbVars, TypeOK, Stages
    <3>. QED
      BY <3>1, <3>2
  <2>6. CASE Claim(s)
    <3>1. /\ claimed' \subseteq ledger
          /\ \/ pc' = [pc EXCEPT ![s] = "complete"] /\ UNCHANGED <<up, ring, req, epoch, rsv, reply>>
             \/ Quarantine(s) \/ Answer(s, Unavailable)
      BY <2>6 DEF Claim, TypeOK
    <3>2. CASE Quarantine(s) \/ Answer(s, Unavailable)
      BY <2>6, <3>1, <3>2, EndTyped DEF Claim, TypeOK
    <3>3. CASE pc' = [pc EXCEPT ![s] = "complete"] /\ UNCHANGED <<up, ring, req, epoch, rsv, reply>>
      BY <2>6, <3>1, <3>3 DEF Claim, TypeOK, Stages
    <3>. QED
      BY <3>1, <3>2, <3>3
  <2>7. CASE Complete(s)
    <3>1. PICK n \in rsv[s] :
             \/ Answer(s, Unavailable) /\ UNCHANGED <<results, performed, encrypted>>
             \/ AnswerFromRow(s, ring[s], now) /\ UNCHANGED <<results, performed, encrypted>>
             \/ RunMutation(s, n)
      BY <2>7 DEF Complete
    <3>2. n \in Reservation
      BY DEF TypeOK
    <3>3. CASE RunMutation(s, n)
      <4>1. PICK notAfter \in now..(now + MaxTTL) :
               LET e == EffectOf(s, n, TerminalExpiry(notAfter)) IN
               /\ encrypted' = encrypted \/ Encrypt(n)
               /\ \/ /\ performed' = performed \cup {e}
                     /\ \/ results' = (results \ Row(e.key)) \cup {e}
                        \/ results' = (results \ Row(e.key)) \cup {}
                     /\ Answer(s, Response(e)) \/ Quarantine(s)
                  \/ /\ performed' = performed /\ results' = results
                     /\ Answer(s, Unavailable) \/ Quarantine(s)
        BY <3>3 DEF RunMutation
      <4>2. TerminalExpiry(notAfter) \in Nat
        BY <4>1, BoundsAssumption DEF TerminalExpiry, TypeOK
      <4>. DEFINE e == EffectOf(s, n, TerminalExpiry(notAfter))
      <4>3. e \in Effect
        BY <3>2, <4>2 DEF EffectOf, Effect, Reservation, TypeOK, Requests
      <4>4. encrypted' \in [Versions \X Nonces -> Nat]
        BY <3>2, <4>1 DEF Encrypt, TypeOK, Reservation
      <4>5. performed' \subseteq Effect /\ results' \subseteq Effect
        BY <4>1, <4>3 DEF TypeOK
      <4>6. (\E answer \in Replies : Answer(s, answer)) \/ Quarantine(s)
        BY <4>1, <4>3
      <4>. QED
        BY <2>7, <4>4, <4>5, <4>6, EndTyped DEF Complete, TypeOK
    <3>4. CASE ~RunMutation(s, n)
      BY <2>7, <3>1, <3>4, AnswerFromRowTyped, EndTyped DEF Complete, TypeOK
    <3>. QED
      BY <3>3, <3>4
  <2>8. CASE CollectExpired(s)
    BY <2>8 DEF CollectExpired, procVars, TypeOK
  <2>9. CASE Stop(s)
    BY <2>9 DEF Stop, dbVars, TypeOK, Stages
  <2>10. ASSUME NEW keyring \in Keyrings, Start(s, keyring) PROVE TypeOK'
    BY <2>10, KeyringsAssumption DEF Start, TypeOK
  <2>. QED
    BY <1>4, <2>1, <2>2, <2>3, <2>4, <2>5, <2>6, <2>7, <2>8, <2>9, <2>10 DEF ServiceStep
<1>. QED
  BY <1>1, <1>2, <1>3, <1>4 DEF Next, OperatorStep

\* Every reachable state of the keyed-mutation protocol is well typed.
THEOREM TypeCorrect == Spec => []TypeOK
  BY TypeInit, TypeNext, PTL DEF Spec
-----------------------------------------------------------------------------
\* Why a mutation is not repeated: the row of every effect that is still live
\* is still stored, and the row of a key belongs to the key's newest effect.
StoreInv ==
    /\ results \subseteq performed
    /\ \A e \in performed : e.at <= now
    /\ \A e \in performed : e.exp > now => e \in results
    /\ \A r \in results, d \in performed : d.key = r.key => d.at <= r.at

\* The steps that only send an answer.
AnswerStep(s) ==
    /\ UNCHANGED <<now, results, performed, req>>
    /\ \E answer \in Replies :
          /\ reply' = [reply EXCEPT ![s] = answer]
          /\ \/ answer = Unavailable
             \/ answer = Conflict /\ \E r \in Row(req[s].key) : r.fp # req[s].fp
             \/ \E r \in Row(req[s].key) : answer = Response(r) /\ r.fp = req[s].fp

\* The steps that start or forget a request.
AskStep(s) ==
    /\ UNCHANGED <<now, results, performed>>
    /\ \E r \in Requests : req' = [req EXCEPT ![s] = r]
    /\ reply' = [reply EXCEPT ![s] = NoReply]

\* The steps that commit an effect.
EffectStep(s) ==
    /\ UNCHANGED <<now, req>>
    /\ \E e \in Effect :
          /\ e.key = req[s].key /\ e.fp = req[s].fp /\ e.at = now
          /\ \A r \in Row(e.key) : r.exp <= now
          /\ performed' = performed \cup {e}
          /\ results' = (results \ Row(e.key)) \cup (IF e.exp > now THEN {e} ELSE {})
          /\ \E answer \in {Response(e), Unavailable} : reply' = [reply EXCEPT ![s] = answer]

\* The steps no caller sees.
HiddenStep ==
    /\ UNCHANGED <<req, reply, performed>>
    /\ \/ now' = now /\ results' \subseteq results /\ \A r \in results : r \in results' \/ r.exp <= now
       \/ now' = now + 1 /\ results' = results

LEMMA AnswerFromRowStep ==
    ASSUME TypeOK, NEW s \in Services, NEW t, NEW keyring, AnswerFromRow(s, keyring, t),
           UNCHANGED <<now, results, performed>>
    PROVE  AnswerStep(s)
<1>1. CASE Answer(s, Unavailable)
  BY <1>1, RepliesTyped DEF AnswerStep, Answer, Finish
<1>2. CASE Conflicts(req[s].key, req[s].fp, keyring, t) /\ Answer(s, Conflict)
  BY <1>2, RepliesTyped DEF AnswerStep, Answer, Finish, Conflicts
<1>3. ASSUME NEW r \in Replays(req[s].key, req[s].fp, keyring, t), Answer(s, Response(r))
      PROVE AnswerStep(s)
  <2>1. r \in Row(req[s].key) /\ r.fp = req[s].fp /\ r \in Effect
    BY DEF Replays, Row, TypeOK
  <2>. QED
    BY <1>3, <2>1, RepliesTyped DEF AnswerStep, Answer, Finish
<1>. QED
  BY <1>1, <1>2, <1>3 DEF AnswerFromRow

LEMMA EndStep ==
    ASSUME NEW s \in Services, Answer(s, Unavailable) \/ Quarantine(s),
           UNCHANGED <<now, results, performed>>
    PROVE  AnswerStep(s)
  BY RepliesTyped DEF AnswerStep, Answer, Finish, Quarantine

\* Every step is one of the four, as far as effects and answers go.
LEMMA StepKinds ==
    ASSUME TypeOK, [Next]_vars
    PROVE  HiddenStep \/ \E s \in Services : AnswerStep(s) \/ AskStep(s) \/ EffectStep(s)
<1>1. CASE UNCHANGED vars
  BY <1>1 DEF vars, dbVars, procVars, HiddenStep
<1>2. CASE Tick
  BY <1>2 DEF Tick, dbVars, procVars, HiddenStep
<1>3. ASSUME NEW keyring \in Keyrings, NEW v \in Versions,
             WriteDisable(keyring, v) \/ CompleteDrain(keyring, v) \/ Retire(keyring, v)
      PROVE HiddenStep
  BY <1>3 DEF WriteDisable, CompleteDrain, Retire, procVars, HiddenStep
<1>4. ASSUME NEW s \in Services, ServiceStep(s)
      PROVE HiddenStep \/ AnswerStep(s) \/ AskStep(s) \/ EffectStep(s)
  <2>1. ASSUME NEW k \in Keys, NEW f \in Fingerprints, Receive(s, k, f) PROVE AskStep(s)
    BY <2>1 DEF Receive, dbVars, AskStep, Requests
  <2>2. CASE Lookup(s)
    <3>1. CASE AnswerFromRow(s, ring[s], epoch[s])
      BY <2>2, <3>1, AnswerFromRowStep DEF Lookup, dbVars
    <3>2. CASE ~AnswerFromRow(s, ring[s], epoch[s])
      BY <2>2, <3>2 DEF Lookup, dbVars, HiddenStep
    <3>. QED
      BY <3>1, <3>2
  <2>3. CASE Reserve(s)
    <3>1. CASE Answer(s, Unavailable) \/ Quarantine(s)
      BY <2>3, <3>1, EndStep DEF Reserve
    <3>2. CASE ~(Answer(s, Unavailable) \/ Quarantine(s))
      BY <2>3, <3>2 DEF Reserve, RecordReservation, AbortReservation, HiddenStep
    <3>. QED
      BY <3>1, <3>2
  <2>4. CASE WriteDisableOwn(s)
    BY <2>4, EndStep DEF WriteDisableOwn
  <2>5. CASE Recheck(s)
    <3>1. CASE AnswerFromRow(s, ring[s], now)
      BY <2>5, <3>1, AnswerFromRowStep DEF Recheck, dbVars
    <3>2. CASE ~AnswerFromRow(s, ring[s], now)
      BY <2>5, <3>2 DEF Recheck, dbVars, HiddenStep
    <3>. QED
      BY <3>1, <3>2
  <2>6. CASE Claim(s)
    <3>1. CASE Answer(s, Unavailable) \/ Quarantine(s)
      BY <2>6, <3>1, EndStep DEF Claim
    <3>2. CASE ~(Answer(s, Unavailable) \/ Quarantine(s))
      BY <2>6, <3>2 DEF Claim, HiddenStep
    <3>. QED
      BY <3>1, <3>2
  <2>7. CASE Complete(s)
    <3>1. PICK n \in rsv[s] :
             \/ Answer(s, Unavailable) /\ UNCHANGED <<results, performed, encrypted>>
             \/ AnswerFromRow(s, ring[s], now) /\ UNCHANGED <<results, performed, encrypted>>
             \/ Proceeds(req[s].key, ring[s], now) /\ RunMutation(s, n)
      BY <2>7 DEF Complete
    <3>2. CASE Answer(s, Unavailable) /\ UNCHANGED <<results, performed, encrypted>>
      BY <2>7, <3>2, EndStep DEF Complete
    <3>3. CASE AnswerFromRow(s, ring[s], now) /\ UNCHANGED <<results, performed, encrypted>>
      BY <2>7, <3>3, AnswerFromRowStep DEF Complete
    <3>4. CASE Proceeds(req[s].key, ring[s], now) /\ RunMutation(s, n)
      <4>1. n \in Reservation
        BY DEF TypeOK
      <4>2. PICK notAfter \in now..(now + MaxTTL) :
               LET e == EffectOf(s, n, TerminalExpiry(notAfter)) IN
               \/ /\ performed' = performed \cup {e}
                  /\ results' = (results \ Row(e.key)) \cup (IF e.exp > now THEN {e} ELSE {})
                  /\ Answer(s, Response(e)) \/ Quarantine(s)
               \/ /\ performed' = performed /\ results' = results
                  /\ Answer(s, Unavailable) \/ Quarantine(s)
        BY <3>4 DEF RunMutation
      <4>. DEFINE e == EffectOf(s, n, TerminalExpiry(notAfter))
      <4>3. TerminalExpiry(notAfter) \in Nat
        BY <4>2, BoundsAssumption DEF TerminalExpiry, TypeOK
      <4>4. /\ e \in Effect
            /\ e.key = req[s].key /\ e.fp = req[s].fp /\ e.at = now
        BY <4>1, <4>3 DEF EffectOf, Effect, Reservation, TypeOK, Requests
      <4>5. \A r \in Row(e.key) : r.exp <= now
        BY <3>4, <4>4 DEF Proceeds
      <4>. HIDE DEF e
      <4>6. CASE performed' = performed /\ results' = results
                 /\ (Answer(s, Unavailable) \/ Quarantine(s))
        BY <2>7, <4>6, EndStep DEF Complete
      <4>7. CASE /\ performed' = performed \cup {e}
                 /\ results' = (results \ Row(e.key)) \cup (IF e.exp > now THEN {e} ELSE {})
                 /\ Answer(s, Response(e)) \/ Quarantine(s)
        <5>1. /\ UNCHANGED <<now, req>>
              /\ \E answer \in {Response(e), Unavailable} : reply' = [reply EXCEPT ![s] = answer]
          BY <2>7, <4>7 DEF Complete, Answer, Quarantine, Finish
        <5>. QED
          BY <4>4, <4>5, <4>7, <5>1 DEF EffectStep
      <4>. QED
        BY <4>2, <4>6, <4>7 DEF e
    <3>. QED
      BY <3>1, <3>2, <3>3, <3>4
  <2>8. CASE CollectExpired(s)
    BY <2>8 DEF CollectExpired, procVars, HiddenStep
  <2>9. CASE Stop(s)
    BY <2>9, DefaultsTyped DEF Stop, dbVars, AskStep
  <2>10. ASSUME NEW keyring \in Keyrings, Start(s, keyring) PROVE HiddenStep
    BY <2>10 DEF Start, HiddenStep
  <2>. QED
    BY <1>4, <2>1, <2>2, <2>3, <2>4, <2>5, <2>6, <2>7, <2>8, <2>9, <2>10 DEF ServiceStep
<1>. QED
  BY <1>1, <1>2, <1>3, <1>4 DEF Next, OperatorStep

LEMMA StoreInit == Init => StoreInv
  BY DEF Init, StoreInv

LEMMA StoreNext == TypeOK /\ StoreInv /\ [Next]_vars => StoreInv'
<1>. SUFFICES ASSUME TypeOK, StoreInv, [Next]_vars PROVE StoreInv'
  OBVIOUS
<1>1. \A e \in performed : e.at \in Nat /\ e.exp \in Nat
  BY DEF TypeOK, Effect
<1>2. CASE HiddenStep
  BY <1>1, <1>2 DEF HiddenStep, StoreInv, TypeOK
<1>3. ASSUME NEW s \in Services, AnswerStep(s) \/ AskStep(s) PROVE StoreInv'
  BY <1>3 DEF AnswerStep, AskStep, StoreInv
<1>4. ASSUME NEW s \in Services, EffectStep(s) PROVE StoreInv'
  <2>1. PICK e \in Effect :
          /\ e.key = req[s].key /\ e.fp = req[s].fp /\ e.at = now
          /\ \A r \in Row(e.key) : r.exp <= now
          /\ performed' = performed \cup {e}
          /\ results' = (results \ Row(e.key)) \cup (IF e.exp > now THEN {e} ELSE {})
    BY <1>4 DEF EffectStep
  <2>2. now' = now /\ now \in Nat /\ e.exp \in Nat
    BY <1>4 DEF EffectStep, TypeOK, Effect
  <2>3. (results \subseteq performed)'
    BY <2>1 DEF StoreInv
  <2>4. (\A d \in performed : d.at <= now)'
    BY <2>1, <2>2 DEF StoreInv
  <2>5. (\A d \in performed : d.exp > now => d \in results)'
    BY <1>1, <2>1, <2>2 DEF StoreInv, Row
  <2>6. (\A r \in results, d \in performed : d.key = r.key => d.at <= r.at)'
    BY <1>1, <2>1, <2>2 DEF StoreInv, Row
  <2>. QED
    BY <2>3, <2>4, <2>5, <2>6 DEF StoreInv
<1>. QED
  BY <1>2, <1>3, <1>4, StepKinds

THEOREM StoreCorrect == Spec => []StoreInv
<1>1. TypeOK /\ StoreInv /\ [Next]_vars => StoreInv'
  BY StoreNext
<1>. QED
  BY TypeCorrect, StoreInit, <1>1, PTL DEF Spec

\* No retry, duplicate, crash, ambiguous commit or rotation repeats a mutation
\* while its first response could still be replayed.
THEOREM MutationsRunAtMostOnce == Spec => []AtMostOnce
<1>1. Init => AtMostOnce
  BY DEF Init, AtMostOnce
<1>2. TypeOK /\ StoreInv /\ AtMostOnce /\ [Next]_vars => AtMostOnce'
  <2>. SUFFICES ASSUME TypeOK, StoreInv, AtMostOnce, [Next]_vars PROVE AtMostOnce'
    OBVIOUS
  <2>1. CASE UNCHANGED performed
    BY <2>1 DEF AtMostOnce
  <2>2. ASSUME NEW s \in Services, EffectStep(s) PROVE AtMostOnce'
    <3>1. PICK e \in Effect : /\ e.at = now
                              /\ \A r \in Row(e.key) : r.exp <= now
                              /\ performed' = performed \cup {e}
      BY <2>2 DEF EffectStep
    <3>2. \A d \in performed : d.key = e.key => d.exp <= e.at
      BY <3>1 DEF StoreInv, Row, TypeOK, Effect
    <3>. QED
      BY <3>1, <3>2 DEF AtMostOnce
  <2>. QED
    BY <2>1, <2>2, StepKinds DEF HiddenStep, AnswerStep, AskStep
<1>. QED
  BY TypeCorrect, StoreCorrect, <1>1, <1>2, PTL DEF Spec

\* Every response sent is that of a committed effect of the caller's request.
THEOREM ResponsesAreCommitted == Spec => []ReplyIsCommitted
<1>1. Init => ReplyIsCommitted
  <2>1. Init => \A s \in Services : reply[s] = NoReply
    BY DEF Init
  <2>2. NoReply.effect = {}
    BY DEF NoReply
  <2>. QED
    BY <2>1, <2>2 DEF ReplyIsCommitted
<1>2. TypeOK /\ StoreInv /\ ReplyIsCommitted /\ [Next]_vars => ReplyIsCommitted'
  <2>. SUFFICES ASSUME TypeOK, StoreInv, ReplyIsCommitted, [Next]_vars
                PROVE ReplyIsCommitted'
    OBVIOUS
  <2>1. CASE HiddenStep
    BY <2>1 DEF HiddenStep, ReplyIsCommitted
  <2>2. ASSUME NEW s \in Services, AskStep(s) PROVE ReplyIsCommitted'
    BY <2>2 DEF AskStep, ReplyIsCommitted, NoReply, TypeOK
  <2>3. ASSUME NEW s \in Services, AnswerStep(s) PROVE ReplyIsCommitted'
    <3>1. PICK answer \in Replies :
             /\ reply' = [reply EXCEPT ![s] = answer]
             /\ \/ answer = Unavailable
                \/ answer = Conflict
                \/ \E r \in Row(req[s].key) : answer = Response(r) /\ r.fp = req[s].fp
      BY <2>3 DEF AnswerStep
    <3>2. \A e \in answer.effect : e \in performed /\ e.key = req[s].key /\ e.fp = req[s].fp
      BY <3>1 DEF Unavailable, Conflict, Response, Row, StoreInv
    <3>. QED
      BY <2>3, <3>1, <3>2 DEF AnswerStep, ReplyIsCommitted, TypeOK
  <2>4. ASSUME NEW s \in Services, EffectStep(s) PROVE ReplyIsCommitted'
    <3>1. PICK e \in Effect :
             /\ e.key = req[s].key /\ e.fp = req[s].fp
             /\ performed' = performed \cup {e}
             /\ \E answer \in {Response(e), Unavailable} : reply' = [reply EXCEPT ![s] = answer]
      BY <2>4 DEF EffectStep
    <3>. QED
      BY <2>4, <3>1 DEF EffectStep, ReplyIsCommitted, Response, Unavailable, TypeOK
  <2>. QED
    BY <2>1, <2>2, <2>3, <2>4, StepKinds
<1>. QED
  BY TypeCorrect, StoreCorrect, <1>1, <1>2, PTL DEF Spec

\* The protocol implements the one-step promise made to callers.
THEOREM ProtocolImplementsPromise == Spec => ImplementsPromise
<1>1. Init => Promise!AbsInit
  BY TypeInit DEF Init, Promise!AbsInit, NoReply, Promise!Nothing, TypeOK
<1>2. TypeOK /\ StoreInv /\ [Next]_vars => [Promise!AbsNext]_(Promise!absVars)
  <2>. SUFFICES ASSUME TypeOK, StoreInv, [Next]_vars
                PROVE  Promise!AbsNext \/ UNCHANGED Promise!absVars
    OBVIOUS
  <2>1. CASE HiddenStep
    BY <2>1 DEF HiddenStep, Promise!AbsNext, Promise!Advance, Promise!absVars
  <2>2. ASSUME NEW s \in Services, AskStep(s) PROVE Promise!AbsNext
    BY <2>2 DEF AskStep, Promise!AbsNext, Promise!Ask, NoReply, Promise!Nothing
  <2>3. ASSUME NEW s \in Services, AnswerStep(s) PROVE Promise!AbsNext
    <3>1. PICK answer \in Replies :
             /\ reply' = [reply EXCEPT ![s] = answer]
             /\ \/ answer = Unavailable
                \/ answer = Conflict /\ \E r \in Row(req[s].key) : r.fp # req[s].fp
                \/ \E r \in Row(req[s].key) : answer = Response(r) /\ r.fp = req[s].fp
      BY <2>3 DEF AnswerStep
    <3>2. UNCHANGED <<now, req, performed>>
      BY <2>3 DEF AnswerStep
    <3>3. CASE answer = Unavailable
      BY <3>1, <3>2, <3>3 DEF Promise!AbsNext, Promise!GiveUp, Unavailable, Promise!Unknown
    <3>4. CASE answer = Conflict /\ \E r \in Row(req[s].key) : r.fp # req[s].fp
      <4>1. Promise!Refuse(s)
        BY <3>1, <3>2, <3>4 DEF Promise!Refuse, Conflict, Promise!KeyReused, Row, StoreInv
      <4>. QED
        BY <4>1 DEF Promise!AbsNext
    <3>5. ASSUME NEW r \in Row(req[s].key), answer = Response(r), r.fp = req[s].fp
          PROVE Promise!AbsNext
      <4>1. r \in performed' /\ Promise!Replay(s, r)
        BY <3>1, <3>2, <3>5
           DEF Promise!Replay, Promise!OwnEffect, Response, Promise!Outcome, Row, StoreInv
      <4>. QED
        BY <4>1 DEF Promise!AbsNext
    <3>. QED
      BY <3>1, <3>3, <3>4, <3>5
  <2>4. ASSUME NEW s \in Services, EffectStep(s) PROVE Promise!AbsNext
    <3>1. PICK e \in Effect :
             /\ e.key = req[s].key /\ e.fp = req[s].fp /\ e.at = now
             /\ \A r \in Row(e.key) : r.exp <= now
             /\ performed' = performed \cup {e}
             /\ \E answer \in {Response(e), Unavailable} : reply' = [reply EXCEPT ![s] = answer]
      BY <2>4 DEF EffectStep
    <3>2. \A d \in performed : d.key = e.key => d.exp <= now
      BY <3>1 DEF StoreInv, Row, TypeOK, Effect
    <3>3. UNCHANGED <<now, req>>
      BY <2>4 DEF EffectStep
    <3>4. e \in performed' /\ Promise!Perform(s, e)
      BY <3>1, <3>2, <3>3 DEF Promise!Perform, Promise!OwnEffect, Response, Promise!Outcome,
                              Unavailable, Promise!Unknown
    <3>. QED
      BY <3>4 DEF Promise!AbsNext
  <2>. QED
    BY <2>1, <2>2, <2>3, <2>4, StepKinds
<1>. QED
  BY TypeCorrect, StoreCorrect, <1>1, <1>2, PTL
     DEF Spec, ImplementsPromise, Promise!AbsSpec
-----------------------------------------------------------------------------
\* The stages at which a request owns a reservation.
Holding == {"recheck", "claim", "complete"}

\* Why a nonce is never used twice: it is in the ledger once, one request
\* owns its row, the row is claimed before it is used and claimed only once.
NonceInv ==
    /\ \A m, n \in ledger : m.ver = n.ver /\ m.nonce = n.nonce => m = n
    /\ \A s \in Services : pc[s] \in Holding =>
          \A m, n \in rsv[s] : m = n /\ n \in ledger
    /\ \A s, t \in Services : s # t /\ pc[s] \in Holding /\ pc[t] \in Holding =>
          rsv[s] \cap rsv[t] = {}
    /\ \A s \in Services : pc[s] = "complete" =>
          \A n \in rsv[s] : n \in claimed /\ encrypted[<<n.ver, n.nonce>>] = 0
    /\ \A v \in Versions, n \in Nonces : encrypted[<<v, n>>] > 0 =>
          \E c \in claimed : c.ver = v /\ c.nonce = n
    /\ NonceUsedOnce

\* The steps that leave the ledger, the claims and the cipher alone: a
\* request may give its reservation up or go on to claim it.
QuietStep ==
    /\ UNCHANGED <<slots, ledger, claimed, encrypted>>
    /\ \A t \in Services : pc'[t] \in Holding =>
          /\ pc[t] \in Holding /\ rsv'[t] = rsv[t]
          /\ pc'[t] = "complete" => pc[t] = "complete"

RecordStep(s, row) ==
    /\ row \in Reservation /\ ~Collides(row)
    /\ slots[row.ver] < HardLimit
    /\ slots' = [slots EXCEPT ![row.ver] = @ + 1]
    /\ ledger' = ledger \cup {row}
    /\ UNCHANGED <<claimed, encrypted>>
    /\ \/ pc' = [pc EXCEPT ![s] = "idle"] /\ rsv' = rsv
       \/ pc' = [pc EXCEPT ![s] = "recheck"] /\ rsv' = [rsv EXCEPT ![s] = {row}]

ClaimStep(s, n) ==
    /\ pc[s] = "claim" /\ n \in rsv[s] /\ n \in ledger \ claimed
    /\ claimed' = claimed \cup {n}
    /\ UNCHANGED <<slots, ledger, encrypted, rsv>>
    /\ pc' = [pc EXCEPT ![s] = "idle"] \/ pc' = [pc EXCEPT ![s] = "complete"]

EncryptStep(s, n) ==
    /\ pc[s] = "complete" /\ n \in rsv[s]
    /\ Encrypt(n)
    /\ pc' = [pc EXCEPT ![s] = "idle"]
    /\ UNCHANGED <<slots, ledger, claimed, rsv>>

LEMMA EndIsQuiet ==
    ASSUME TypeOK, NEW s \in Services,
           (\E answer \in Replies : Answer(s, answer)) \/ Quarantine(s),
           UNCHANGED <<slots, ledger, claimed, encrypted>>
    PROVE  QuietStep
<1>1. pc' = [pc EXCEPT ![s] = "idle"] /\ rsv' = rsv
  BY DEF Answer, Quarantine, Finish
<1>. QED
  BY <1>1 DEF QuietStep, Holding, TypeOK

\* Every step is one of the four, as far as nonces go.
LEMMA NonceStepKinds ==
    ASSUME TypeOK, [Next]_vars
    PROVE  \/ QuietStep
           \/ \E s \in Services :
                 \/ \E row \in Reservation : RecordStep(s, row)
                 \/ \E n \in rsv[s] : ClaimStep(s, n) \/ EncryptStep(s, n)
<1>. USE RepliesTyped DEF Holding
<1>1. CASE UNCHANGED vars
  BY <1>1 DEF vars, dbVars, procVars, QuietStep
<1>2. CASE Tick
  BY <1>2 DEF Tick, dbVars, procVars, QuietStep
<1>3. ASSUME NEW keyring \in Keyrings, NEW v \in Versions,
             WriteDisable(keyring, v) \/ CompleteDrain(keyring, v) \/ Retire(keyring, v)
      PROVE QuietStep
  BY <1>3 DEF WriteDisable, CompleteDrain, Retire, procVars, QuietStep
<1>4. ASSUME NEW s \in Services, ServiceStep(s)
      PROVE \/ QuietStep
            \/ \E row \in Reservation : RecordStep(s, row)
            \/ \E n \in rsv[s] : ClaimStep(s, n) \/ EncryptStep(s, n)
  <2>1. ASSUME NEW k \in Keys, NEW f \in Fingerprints, Receive(s, k, f) PROVE QuietStep
    BY <2>1 DEF Receive, dbVars, QuietStep, TypeOK
  <2>2. CASE Lookup(s)
    <3>1. CASE AnswerFromRow(s, ring[s], epoch[s])
      BY <2>2, <3>1, AnswerFromRowTyped, EndIsQuiet DEF Lookup, dbVars
    <3>2. CASE ~AnswerFromRow(s, ring[s], epoch[s])
      BY <2>2, <3>2 DEF Lookup, dbVars, QuietStep, TypeOK
    <3>. QED
      BY <3>1, <3>2
  <2>3. CASE Reserve(s)
    <3>1. ASSUME NEW n \in Nonces, RecordReservation(s, NextReservation(s, n)),
                 slots[ring[s].active] < HardLimit
          PROVE  \E row \in Reservation : RecordStep(s, row)
      <4>. DEFINE row == NextReservation(s, n)
      <4>1. row \in Reservation /\ row.ver = ring[s].active
        BY KeyringsAssumption DEF NextReservation, TypeOK, Requests, Reservation
      <4>2. \/ pc' = [pc EXCEPT ![s] = "idle"] /\ rsv' = rsv
            \/ pc' = [pc EXCEPT ![s] = "recheck"] /\ rsv' = [rsv EXCEPT ![s] = {row}]
        BY <3>1 DEF RecordReservation, Quarantine, Finish
      <4>3. /\ ~Collides(row) /\ slots' = [slots EXCEPT ![row.ver] = @ + 1]
            /\ ledger' = ledger \cup {row}
        BY <3>1 DEF RecordReservation
      <4>4. UNCHANGED <<claimed, encrypted>>
        BY <2>3 DEF Reserve
      <4>. HIDE DEF row
      <4>. QED
        BY <3>1, <4>1, <4>2, <4>3, <4>4 DEF RecordStep
    <3>2. CASE AbortReservation(s, "nonce_collision") \/ AbortReservation(s, "hard_limit")
      BY <2>3, <3>2 DEF Reserve, AbortReservation, QuietStep, TypeOK
    <3>3. CASE (Answer(s, Unavailable) \/ Quarantine(s)) /\ UNCHANGED <<slots, ledger>>
      BY <2>3, <3>3, EndIsQuiet DEF Reserve
    <3>. QED
      BY <2>3, <3>1, <3>2, <3>3 DEF Reserve
  <2>4. CASE WriteDisableOwn(s)
    BY <2>4, EndIsQuiet DEF WriteDisableOwn
  <2>5. CASE Recheck(s)
    <3>1. CASE AnswerFromRow(s, ring[s], now)
      BY <2>5, <3>1, AnswerFromRowTyped, EndIsQuiet DEF Recheck, dbVars
    <3>2. CASE ~AnswerFromRow(s, ring[s], now)
      BY <2>5, <3>2 DEF Recheck, dbVars, QuietStep, TypeOK
    <3>. QED
      BY <3>1, <3>2
  <2>6. CASE Claim(s)
    <3>1. PICK n \in rsv[s] :
             \/ /\ n \in ledger \ claimed /\ claimed' = claimed \cup {n}
                /\ \/ pc' = [pc EXCEPT ![s] = "complete"] /\ UNCHANGED <<rsv>>
                   \/ Quarantine(s)
             \/ (Quarantine(s) \/ Answer(s, Unavailable)) /\ UNCHANGED claimed
      BY <2>6 DEF Claim
    <3>2. CASE (Quarantine(s) \/ Answer(s, Unavailable)) /\ UNCHANGED claimed
      BY <2>6, <3>2, EndIsQuiet DEF Claim
    <3>3. CASE /\ n \in ledger \ claimed /\ claimed' = claimed \cup {n}
               /\ \/ pc' = [pc EXCEPT ![s] = "complete"] /\ UNCHANGED <<rsv>>
                  \/ Quarantine(s)
      BY <2>6, <3>3 DEF Claim, ClaimStep, Quarantine, Finish
    <3>. QED
      BY <3>1, <3>2, <3>3
  <2>7. CASE Complete(s)
    <3>1. PICK n \in rsv[s] :
             \/ Answer(s, Unavailable) /\ UNCHANGED <<results, performed, encrypted>>
             \/ AnswerFromRow(s, ring[s], now) /\ UNCHANGED <<results, performed, encrypted>>
             \/ RunMutation(s, n)
      BY <2>7 DEF Complete
    <3>2. CASE RunMutation(s, n)
      <4>1. /\ encrypted' = encrypted \/ Encrypt(n)
            /\ \/ \E e : Answer(s, Response(e))
               \/ Answer(s, Unavailable) \/ Quarantine(s)
        BY <3>2 DEF RunMutation
      <4>2. pc' = [pc EXCEPT ![s] = "idle"] /\ rsv' = rsv
        BY <4>1 DEF Answer, Quarantine, Finish
      <4>3. UNCHANGED <<slots, ledger, claimed>> /\ pc[s] = "complete"
        BY <2>7 DEF Complete
      <4>4. CASE Encrypt(n)
        BY <4>2, <4>3, <4>4 DEF EncryptStep
      <4>5. CASE encrypted' = encrypted
        BY <4>2, <4>3, <4>5 DEF QuietStep, TypeOK
      <4>. QED
        BY <4>1, <4>4, <4>5
    <3>3. CASE ~RunMutation(s, n)
      BY <2>7, <3>1, <3>3, AnswerFromRowTyped, EndIsQuiet DEF Complete
    <3>. QED
      BY <3>2, <3>3
  <2>8. CASE CollectExpired(s)
    BY <2>8 DEF CollectExpired, procVars, QuietStep
  <2>9. CASE Stop(s)
    BY <2>9 DEF Stop, dbVars, QuietStep, TypeOK
  <2>10. ASSUME NEW keyring \in Keyrings, Start(s, keyring) PROVE QuietStep
    BY <2>10 DEF Start, QuietStep
  <2>. QED
    BY <1>4, <2>1, <2>2, <2>3, <2>4, <2>5, <2>6, <2>7, <2>8, <2>9, <2>10 DEF ServiceStep
<1>. QED
  BY <1>1, <1>2, <1>3, <1>4 DEF Next, OperatorStep

LEMMA NonceInit == Init => NonceInv
<1>. SUFFICES ASSUME Init PROVE NonceInv
  OBVIOUS
<1>1. /\ ledger = {} /\ claimed = {} /\ \A s \in Services : pc[s] = "idle"
      /\ \A x \in Versions \X Nonces : encrypted[x] = 0
  BY DEF Init
<1>2. \A s \in Services : pc[s] \notin Holding /\ pc[s] # "complete"
  BY <1>1 DEF Holding
<1>. QED
  BY <1>1, <1>2 DEF NonceInv, NonceUsedOnce

LEMMA NonceNext == TypeOK /\ NonceInv /\ [Next]_vars => NonceInv'
<1>. SUFFICES ASSUME TypeOK, NonceInv, [Next]_vars PROVE NonceInv'
  OBVIOUS
<1>1. CASE QuietStep
  BY <1>1 DEF QuietStep, NonceInv, NonceUsedOnce, Holding
<1>2. ASSUME NEW s \in Services, NEW row \in Reservation, RecordStep(s, row) PROVE NonceInv'
  <2>1. \A n \in ledger : n.ver = row.ver => n.nonce # row.nonce
    BY <1>2 DEF RecordStep, Collides
  <2>2. row \notin ledger
    BY <2>1
  <2>3. (\A m, n \in ledger : m.ver = n.ver /\ m.nonce = n.nonce => m = n)'
    BY <1>2, <2>1 DEF RecordStep, NonceInv
  <2>4. \A t \in Services : t # s => pc'[t] = pc[t] /\ rsv'[t] = rsv[t]
    BY <1>2 DEF RecordStep, TypeOK
  <2>5. pc'[s] = "idle" \/ (pc'[s] = "recheck" /\ rsv'[s] = {row})
    BY <1>2 DEF RecordStep, TypeOK
  <2>6. ledger' = ledger \cup {row} /\ UNCHANGED <<claimed, encrypted>>
    BY <1>2 DEF RecordStep
  <2>7. (\A t \in Services : pc[t] \in Holding => \A m, n \in rsv[t] : m = n /\ n \in ledger)'
    BY <2>4, <2>5, <2>6 DEF NonceInv, Holding
  <2>8. (\A t, u \in Services : t # u /\ pc[t] \in Holding /\ pc[u] \in Holding =>
            rsv[t] \cap rsv[u] = {})'
    BY <2>2, <2>4, <2>5, <2>6 DEF NonceInv, Holding
  <2>9. (\A t \in Services : pc[t] = "complete" =>
          \A n \in rsv[t] : n \in claimed /\ encrypted[<<n.ver, n.nonce>>] = 0)'
    BY <2>4, <2>5, <2>6 DEF NonceInv
  <2>. QED
    BY <2>3, <2>6, <2>7, <2>8, <2>9 DEF NonceInv, NonceUsedOnce
<1>3. ASSUME NEW s \in Services, NEW n \in rsv[s], ClaimStep(s, n) PROVE NonceInv'
  <2>. DEFINE x == <<n.ver, n.nonce>>
  <2>1. n \in Reservation /\ x \in Versions \X Nonces
    BY DEF TypeOK, Reservation
  <2>2. encrypted[x] = 0
    <3>1. \A c \in claimed : c.ver = n.ver /\ c.nonce = n.nonce => c = n
      BY <1>3 DEF ClaimStep, NonceInv, TypeOK
    <3>2. ~(encrypted[x] > 0)
      BY <1>3, <2>1, <3>1 DEF ClaimStep, NonceInv, Reservation
    <3>3. encrypted[x] \in Nat
      BY <2>1 DEF TypeOK
    <3>. QED
      BY <3>2, <3>3
  <2>3. \A m \in rsv[s] : m = n
    BY <1>3 DEF ClaimStep, NonceInv, Holding
  <2>4. \A t \in Services : t # s => pc'[t] = pc[t]
    BY <1>3 DEF ClaimStep, TypeOK
  <2>5. pc[s] = "claim" /\ pc'[s] \in {"idle", "complete"}
    BY <1>3 DEF ClaimStep, TypeOK
  <2>6. UNCHANGED <<ledger, rsv, encrypted>> /\ claimed' = claimed \cup {n}
    BY <1>3 DEF ClaimStep
  <2>7. (\A t \in Services : pc[t] \in Holding => \A m, k \in rsv[t] : m = k /\ k \in ledger)'
    BY <2>4, <2>5, <2>6 DEF NonceInv, Holding
  <2>8. (\A t, u \in Services : t # u /\ pc[t] \in Holding /\ pc[u] \in Holding =>
            rsv[t] \cap rsv[u] = {})'
    BY <2>4, <2>5, <2>6 DEF NonceInv, Holding
  <2>9. (\A t \in Services : pc[t] = "complete" =>
          \A m \in rsv[t] : m \in claimed /\ encrypted[<<m.ver, m.nonce>>] = 0)'
    BY <2>2, <2>3, <2>4, <2>5, <2>6 DEF NonceInv
  <2>. QED
    BY <2>6, <2>7, <2>8, <2>9 DEF NonceInv, NonceUsedOnce
<1>4. ASSUME NEW s \in Services, NEW n \in rsv[s], EncryptStep(s, n) PROVE NonceInv'
  <2>. DEFINE x == <<n.ver, n.nonce>>
  <2>1. n \in Reservation /\ x \in Versions \X Nonces
    BY DEF TypeOK, Reservation
  <2>2. encrypted[x] = 0 /\ n \in claimed /\ n \in ledger
    BY <1>4 DEF EncryptStep, NonceInv, TypeOK
  <2>3. /\ encrypted'[x] = 1
        /\ \A y \in Versions \X Nonces : y # x => encrypted'[y] = encrypted[y]
    BY <1>4, <2>1, <2>2 DEF EncryptStep, Encrypt, TypeOK
  <2>4. \A t \in Services : t # s => pc'[t] = pc[t]
    BY <1>4 DEF EncryptStep, TypeOK
  <2>5. pc[s] = "complete" /\ pc'[s] = "idle" /\ UNCHANGED <<ledger, claimed, rsv>>
    BY <1>4 DEF EncryptStep, TypeOK
  <2>6. (\A t \in Services : pc[t] = "complete" =>
          \A m \in rsv[t] : m \in claimed /\ encrypted[<<m.ver, m.nonce>>] = 0)'
    <3>. SUFFICES ASSUME NEW t \in Services, pc'[t] = "complete", NEW m \in rsv[t]
                  PROVE  m \in claimed /\ encrypted'[<<m.ver, m.nonce>>] = 0
      BY <2>5
    <3>1. t # s /\ pc[t] = "complete"
      BY <2>4, <2>5
    <3>2. m \in claimed /\ m \in ledger /\ encrypted[<<m.ver, m.nonce>>] = 0
      BY <3>1 DEF NonceInv, TypeOK
    <3>3. m # n
      BY <2>5, <3>1 DEF NonceInv, Holding
    <3>4. <<m.ver, m.nonce>> # x /\ <<m.ver, m.nonce>> \in Versions \X Nonces
      BY <2>2, <3>2, <3>3 DEF NonceInv, TypeOK, Reservation
    <3>. QED
      BY <2>3, <3>2, <3>4
  <2>7. (\A v \in Versions, m \in Nonces : encrypted[<<v, m>>] > 0 =>
          \E c \in claimed : c.ver = v /\ c.nonce = m)'
    BY <2>1, <2>2, <2>3, <2>5 DEF NonceInv
  <2>8. NonceUsedOnce'
    BY <2>1, <2>3 DEF NonceInv, NonceUsedOnce
  <2>9. (\A t \in Services : pc[t] \in Holding => \A m, k \in rsv[t] : m = k /\ k \in ledger)'
    BY <2>4, <2>5 DEF NonceInv, Holding
  <2>10. (\A t, u \in Services : t # u /\ pc[t] \in Holding /\ pc[u] \in Holding =>
            rsv[t] \cap rsv[u] = {})'
    BY <2>4, <2>5 DEF NonceInv, Holding
  <2>. QED
    BY <2>5, <2>6, <2>7, <2>8, <2>9, <2>10 DEF NonceInv
<1>. QED
  BY <1>1, <1>2, <1>3, <1>4, NonceStepKinds

\* No (version, nonce) pair encrypts twice, whatever rolls back or crashes.
THEOREM NoncesAreNeverReused == Spec => []NonceUsedOnce
<1>1. NonceInv => NonceUsedOnce
  BY DEF NonceInv
<1>. QED
  BY TypeCorrect, NonceInit, NonceNext, <1>1, PTL DEF Spec
-----------------------------------------------------------------------------
\* The ledger of a version grows by one row with its counter.
SlotInv ==
    /\ IsFiniteSet(ledger)
    /\ SlotsMatchLedger

LEMMA SlotNext == TypeOK /\ SlotInv /\ [Next]_vars => SlotInv'
<1>. SUFFICES ASSUME TypeOK, SlotInv, [Next]_vars PROVE SlotInv'
  OBVIOUS
<1>1. CASE UNCHANGED <<slots, ledger>>
  BY <1>1 DEF SlotInv, SlotsMatchLedger
<1>2. ASSUME NEW s \in Services, NEW row \in Reservation, RecordStep(s, row) PROVE SlotInv'
  <2>. DEFINE Rows(v) == {n \in ledger : n.ver = v}
              NewRows(v) == {n \in ledger' : n.ver = v}
  <2>1. ledger' = ledger \cup {row} /\ row \notin ledger /\ row.ver \in Versions
    BY <1>2 DEF RecordStep, Collides, Reservation
  <2>2. IsFiniteSet(ledger')
    BY <2>1, FS_AddElement DEF SlotInv
  <2>3. \A v \in Versions : IsFiniteSet(Rows(v))
    BY FS_Subset DEF SlotInv
  <2>4. NewRows(row.ver) = Rows(row.ver) \cup {row} /\ row \notin Rows(row.ver)
    BY <2>1
  <2>5. Cardinality(NewRows(row.ver)) = Cardinality(Rows(row.ver)) + 1
    BY <2>1, <2>3, <2>4, FS_AddElement
  <2>6. \A v \in Versions : v # row.ver => NewRows(v) = Rows(v)
    BY <2>1
  <2>7. /\ slots'[row.ver] = slots[row.ver] + 1 /\ slots[row.ver] < HardLimit
        /\ \A v \in Versions : v # row.ver => slots'[v] = slots[v]
    BY <1>2, <2>1 DEF RecordStep, TypeOK
  <2>8. ASSUME NEW v \in Versions
        PROVE  slots'[v] = Cardinality(NewRows(v)) /\ slots'[v] <= HardLimit
    <3>1. slots[v] = Cardinality(Rows(v)) /\ slots[v] <= HardLimit /\ slots[v] \in Nat
      BY DEF SlotInv, SlotsMatchLedger, TypeOK
    <3>2. CASE v = row.ver
      BY <2>5, <2>7, <3>1, <3>2, BoundsAssumption
    <3>3. CASE v # row.ver
      BY <2>6, <2>7, <3>1, <3>3
    <3>. QED
      BY <3>2, <3>3
  <2>. QED
    BY <2>2, <2>8 DEF SlotInv, SlotsMatchLedger
<1>. QED
  BY <1>1, <1>2, NonceStepKinds DEF QuietStep, ClaimStep, EncryptStep

\* The counter every start checks is exact and stays within the hard limit.
THEOREM CountersMatchTheLedger == Spec => []SlotsMatchLedger
<1>1. Init => SlotInv
  <2>1. Init => IsFiniteSet(ledger)
    BY FS_EmptySet DEF Init
  <2>2. ASSUME Init, NEW v \in Versions
        PROVE  slots[v] = Cardinality({n \in ledger : n.ver = v}) /\ slots[v] <= HardLimit
    <3>1. {n \in ledger : n.ver = v} = {} /\ slots[v] = 0
      BY <2>2 DEF Init
    <3>. QED
      BY <3>1, FS_EmptySet, BoundsAssumption
  <2>. QED
    BY <2>1, <2>2 DEF SlotInv, SlotsMatchLedger
<1>2. SlotInv => SlotsMatchLedger
  BY DEF SlotInv
<1>. QED
  BY TypeCorrect, SlotNext, <1>1, <1>2, PTL DEF Spec
-----------------------------------------------------------------------------
\* Why retirement is safe: the barriers are passed in order, a result is never
\* stored under a disabled version, and none lives longer than MaxTTL.
LifecycleInv ==
    /\ \A v \in Versions : drainedAt[v] # Never => disabled[v] # ""
    /\ DrainedHasNoWriters
    /\ \A v \in retired : drainedAt[v] # Never
    /\ \A r \in results :
          /\ r.ver \notin retired
          /\ r.at <= now /\ r.exp <= r.at + MaxTTL
          /\ drainedAt[r.ver] # Never => r.at <= drainedAt[r.ver]

\* The steps that leave the lifecycle alone, and start no service.
LifecycleQuiet ==
    /\ UNCHANGED <<disabled, drainedAt, retired>>
    /\ results' \subseteq results
    /\ now' \in Nat /\ now <= now'
    /\ up' \subseteq up /\ \A t \in up' : ring'[t] = ring[t]

LEMMA EndIsLifecycleQuiet ==
    ASSUME TypeOK, NEW s \in Services,
           (\E answer \in Replies : Answer(s, answer)) \/ Quarantine(s),
           UNCHANGED <<disabled, drainedAt, retired, results, now>>
    PROVE  LifecycleQuiet
<1>1. /\ up' \subseteq up
      /\ \A t \in up' : ring'[t] = ring[t]
  BY DEF Answer, Quarantine, TypeOK
<1>. QED
  BY <1>1 DEF LifecycleQuiet, TypeOK

LEMMA LifecycleQuietPreserves ==
    ASSUME TypeOK, LifecycleInv, LifecycleQuiet PROVE LifecycleInv'
<1>1. DrainedHasNoWriters'
  BY DEF LifecycleQuiet, LifecycleInv, DrainedHasNoWriters, NoWriters, TypeOK
<1>2. (\A r \in results : r.at <= now)'
  <2>1. \A r \in results : r.at \in Nat /\ r.at <= now
    BY DEF LifecycleInv, TypeOK, Effect
  <2>2. now \in Nat /\ now' \in Nat /\ now <= now' /\ results' \subseteq results
    BY DEF LifecycleQuiet, TypeOK
  <2>. QED
    BY <2>1, <2>2
<1>. QED
  BY <1>1, <1>2 DEF LifecycleQuiet, LifecycleInv

LEMMA LifecycleNext == TypeOK /\ LifecycleInv /\ [Next]_vars => LifecycleInv'
<1>. SUFFICES ASSUME TypeOK, LifecycleInv, [Next]_vars PROVE LifecycleInv'
  OBVIOUS
<1>. USE RepliesTyped
<1>0. now \in Nat
  BY DEF TypeOK
<1>1. CASE UNCHANGED vars
  BY <1>0, <1>1, LifecycleQuietPreserves DEF vars, dbVars, procVars, LifecycleQuiet
<1>2. CASE Tick
  BY <1>0, <1>2, LifecycleQuietPreserves DEF Tick, dbVars, procVars, LifecycleQuiet
<1>3. ASSUME NEW keyring \in Keyrings, NEW v \in Versions,
             WriteDisable(keyring, v) \/ CompleteDrain(keyring, v) \/ Retire(keyring, v)
      PROVE LifecycleInv'
  <2>0. NoWriters(v)' <=> NoWriters(v)
    BY <1>3 DEF WriteDisable, CompleteDrain, Retire, procVars, NoWriters
  <2>1. CASE WriteDisable(keyring, v)
    <3>1. UNCHANGED <<now, drainedAt, retired, results, up, ring>>
      BY <2>1 DEF WriteDisable, procVars
    <3>2. \A w \in Versions : disabled[w] # "" => disabled'[w] # ""
      BY <2>1 DEF WriteDisable, TypeOK
    <3>. QED
      BY <3>1, <3>2 DEF LifecycleInv, DrainedHasNoWriters, NoWriters
  <2>2. CASE CompleteDrain(keyring, v)
    <3>1. /\ UNCHANGED <<now, disabled, retired, results, up, ring>>
          /\ NoWriters(v) /\ disabled[v] # ""
          /\ drainedAt' = [drainedAt EXCEPT ![v] = IF @ = Never THEN now ELSE @]
      BY <2>2 DEF CompleteDrain, procVars
    <3>2. \A w \in Versions : w # v => drainedAt'[w] = drainedAt[w]
      BY <3>1 DEF TypeOK
    <3>3. drainedAt'[v] = IF drainedAt[v] = Never THEN now ELSE drainedAt[v]
      BY <3>1 DEF TypeOK
    <3>4. DrainedHasNoWriters'
      BY <3>1, <3>2 DEF LifecycleInv, DrainedHasNoWriters, NoWriters
    <3>5. \A w \in Versions : drainedAt[w] # Never => drainedAt'[w] = drainedAt[w]
      BY <3>2, <3>3
    <3>6. \A w \in retired : drainedAt'[w] # Never
      BY <3>5 DEF LifecycleInv, TypeOK
    <3>7. \A r \in results : drainedAt'[r.ver] # Never => r.at <= drainedAt'[r.ver]
      BY <1>0, <3>2, <3>3 DEF LifecycleInv, TypeOK, Effect
    <3>. QED
      BY <3>1, <3>2, <3>4, <3>6, <3>7 DEF LifecycleInv
  <2>3. CASE Retire(keyring, v)
    <3>1. /\ UNCHANGED <<now, disabled, drainedAt, up, ring>> /\ drainedAt[v] # Never
          /\ results' = {r \in results : r.ver # v} /\ retired' = retired \cup {v}
      BY <2>3 DEF Retire, procVars
    <3>. QED
      BY <3>1 DEF LifecycleInv, DrainedHasNoWriters, NoWriters
  <2>. QED
    BY <1>3, <2>1, <2>2, <2>3
<1>4. ASSUME NEW s \in Services, ServiceStep(s) PROVE LifecycleInv'
  <2>1. ASSUME NEW k \in Keys, NEW f \in Fingerprints, Receive(s, k, f) PROVE LifecycleInv'
    BY <1>0, <2>1, LifecycleQuietPreserves DEF Receive, dbVars, LifecycleQuiet
  <2>2. CASE Lookup(s)
    <3>1. CASE AnswerFromRow(s, ring[s], epoch[s])
      BY <2>2, <3>1, AnswerFromRowTyped, EndIsLifecycleQuiet, LifecycleQuietPreserves
         DEF Lookup, dbVars
    <3>2. CASE ~AnswerFromRow(s, ring[s], epoch[s])
      BY <1>0, <2>2, <3>2, LifecycleQuietPreserves DEF Lookup, dbVars, LifecycleQuiet
    <3>. QED
      BY <3>1, <3>2
  <2>3. CASE Reserve(s)
    <3>1. CASE Answer(s, Unavailable) \/ Quarantine(s)
      BY <2>3, <3>1, EndIsLifecycleQuiet, LifecycleQuietPreserves DEF Reserve
    <3>2. CASE ~(Answer(s, Unavailable) \/ Quarantine(s))
      BY <1>0, <2>3, <3>2, LifecycleQuietPreserves
         DEF Reserve, RecordReservation, AbortReservation, LifecycleQuiet
    <3>. QED
      BY <3>1, <3>2
  <2>4. CASE WriteDisableOwn(s)
    <3>1. /\ UNCHANGED <<now, drainedAt, retired, results>>
          /\ up' \subseteq up /\ \A w \in up' : ring'[w] = ring[w]
      BY <2>4 DEF WriteDisableOwn, Answer, Quarantine, TypeOK
    <3>2. \A w \in Versions : disabled[w] # "" => disabled'[w] # ""
      BY <2>4 DEF WriteDisableOwn, TypeOK
    <3>. QED
      BY <3>1, <3>2 DEF LifecycleInv, DrainedHasNoWriters, NoWriters
  <2>5. CASE Recheck(s)
    <3>1. CASE AnswerFromRow(s, ring[s], now)
      BY <2>5, <3>1, AnswerFromRowTyped, EndIsLifecycleQuiet, LifecycleQuietPreserves
         DEF Recheck, dbVars
    <3>2. CASE ~AnswerFromRow(s, ring[s], now)
      BY <1>0, <2>5, <3>2, LifecycleQuietPreserves DEF Recheck, dbVars, LifecycleQuiet
    <3>. QED
      BY <3>1, <3>2
  <2>6. CASE Claim(s)
    <3>1. CASE Answer(s, Unavailable) \/ Quarantine(s)
      BY <2>6, <3>1, EndIsLifecycleQuiet, LifecycleQuietPreserves DEF Claim
    <3>2. CASE ~(Answer(s, Unavailable) \/ Quarantine(s))
      BY <1>0, <2>6, <3>2, LifecycleQuietPreserves DEF Claim, LifecycleQuiet
    <3>. QED
      BY <3>1, <3>2
  <2>7. CASE Complete(s)
    <3>1. PICK n \in rsv[s] :
             \/ Answer(s, Unavailable) /\ UNCHANGED <<results, performed, encrypted>>
             \/ AnswerFromRow(s, ring[s], now) /\ UNCHANGED <<results, performed, encrypted>>
             \/ Authentic(n) /\ RunMutation(s, n)
      BY <2>7 DEF Complete
    <3>2. CASE /\ Answer(s, Unavailable) \/ AnswerFromRow(s, ring[s], now)
               /\ UNCHANGED <<results, performed, encrypted>>
      BY <2>7, <3>2, AnswerFromRowTyped, EndIsLifecycleQuiet, LifecycleQuietPreserves
         DEF Complete
    <3>3. CASE Authentic(n) /\ RunMutation(s, n)
      <4>1. PICK notAfter \in now..(now + MaxTTL) :
               LET e == EffectOf(s, n, TerminalExpiry(notAfter)) IN
               /\ results' \subseteq results \cup {e}
               /\ Answer(s, Response(e)) \/ Answer(s, Unavailable) \/ Quarantine(s)
        BY <3>3 DEF RunMutation
      <4>. DEFINE e == EffectOf(s, n, TerminalExpiry(notAfter))
      <4>2. UNCHANGED <<now, disabled, drainedAt, retired>>
        BY <2>7 DEF Complete
      <4>3. up' \subseteq up /\ \A t \in up' : ring'[t] = ring[t]
        BY <4>1 DEF Answer, Quarantine, TypeOK
      <4>4. n.ver \in Versions
        BY DEF TypeOK, Reservation
      <4>5. /\ e.ver = n.ver /\ e.at = now
            /\ e.exp <= now + MaxTTL
        BY <1>0, <4>1, BoundsAssumption DEF EffectOf, TerminalExpiry
      <4>6. drainedAt[n.ver] = Never /\ n.ver \notin retired
        BY <3>3, <4>4 DEF Authentic, LifecycleInv
      <4>. HIDE DEF e
      <4>7. DrainedHasNoWriters'
        BY <4>2, <4>3 DEF LifecycleInv, DrainedHasNoWriters, NoWriters
      <4>8. results' \subseteq results \cup {e}
        BY <4>1 DEF e
      <4>9. ASSUME NEW r \in results'
            PROVE  /\ r.ver \notin retired
                   /\ r.at <= now /\ r.exp <= r.at + MaxTTL
                   /\ drainedAt[r.ver] # Never => r.at <= drainedAt[r.ver]
        <5>1. CASE r = e
          BY <1>0, <4>5, <4>6, <5>1
        <5>2. CASE r \in results
          BY <5>2 DEF LifecycleInv
        <5>. QED
          BY <4>8, <5>1, <5>2
      <4>. QED
        BY <4>2, <4>7, <4>9 DEF LifecycleInv
    <3>. QED
      BY <3>1, <3>2, <3>3
  <2>8. CASE CollectExpired(s)
    BY <1>0, <2>8, LifecycleQuietPreserves DEF CollectExpired, procVars, LifecycleQuiet
  <2>9. CASE Stop(s)
    <3>1. up' \subseteq up /\ \A t \in up' : ring'[t] = ring[t]
      BY <2>9 DEF Stop, TypeOK
    <3>. QED
      BY <1>0, <2>9, <3>1, LifecycleQuietPreserves DEF Stop, dbVars, LifecycleQuiet
  <2>10. ASSUME NEW keyring \in Keyrings, Start(s, keyring) PROVE LifecycleInv'
    <3>1. keyring.active \in Versions /\ disabled[keyring.active] = ""
      BY <2>10, KeyringsAssumption DEF Start, Ready
    <3>2. drainedAt[keyring.active] = Never
      BY <3>1 DEF LifecycleInv
    <3>3. UNCHANGED <<now, disabled, drainedAt, retired, results>>
      BY <2>10 DEF Start
    <3>4. /\ up' = up \cup {s} /\ ring'[s] = keyring
          /\ \A t \in Services : t # s => ring'[t] = ring[t]
      BY <2>10 DEF Start, TypeOK
    <3>5. DrainedHasNoWriters'
      BY <3>2, <3>3, <3>4 DEF LifecycleInv, DrainedHasNoWriters, NoWriters, TypeOK
    <3>. QED
      BY <3>3, <3>5 DEF LifecycleInv
  <2>. QED
    BY <1>4, <2>1, <2>2, <2>3, <2>4, <2>5, <2>6, <2>7, <2>8, <2>9, <2>10 DEF ServiceStep
<1>. QED
  BY <1>1, <1>2, <1>3, <1>4 DEF Next, OperatorStep

\* A drained version stays without writers, and nothing replayable is left of
\* a version by the time it can be retired.
THEOREM RotationIsSafe == Spec => [](DrainedHasNoWriters /\ RetirementIsSafe)
<1>1. Init => LifecycleInv
  BY DEF Init, LifecycleInv, DrainedHasNoWriters
<1>2. TypeOK /\ LifecycleInv => DrainedHasNoWriters /\ RetirementIsSafe
  <2>. SUFFICES ASSUME TypeOK, LifecycleInv, NEW r \in results
                PROVE  /\ r.ver \notin retired
                       /\ drainedAt[r.ver] # Never /\ now >= drainedAt[r.ver] + RemovalWindow
                            => r.exp <= now
    BY DEF LifecycleInv, RetirementIsSafe
  <2>1. r.ver \in Versions /\ r.at \in Nat /\ r.exp \in Nat
    BY DEF TypeOK, Effect
  <2>2. drainedAt[r.ver] # Never => drainedAt[r.ver] \in Nat
    BY <2>1 DEF TypeOK
  <2>3. /\ r.ver \notin retired /\ r.exp <= r.at + MaxTTL
        /\ drainedAt[r.ver] # Never => r.at <= drainedAt[r.ver]
    BY DEF LifecycleInv
  <2>. QED
    BY <2>1, <2>2, <2>3, BoundsAssumption DEF TypeOK
<1>. QED
  BY TypeCorrect, LifecycleNext, <1>1, <1>2, PTL DEF Spec

\* Reservations are sound for any number of services, keys, versions and slots:
\* the two facts above, as the run of this module checks them.
THEOREM ReservationsSound == Spec => []ReservationsAreSound
<1>1. NonceUsedOnce /\ SlotsMatchLedger => ReservationsAreSound
  BY DEF ReservationsAreSound
<1>. QED
  BY NoncesAreNeverReused, CountersMatchTheLedger, <1>1, PTL

\* write_disable, complete_drain and retire strand no result, however the
\* operator's steps fall between those of the services.
THEOREM RotationsStrandNothing == Spec => []RotationStrandsNothing
<1>1. DrainedHasNoWriters /\ RetirementIsSafe => RotationStrandsNothing
  BY DEF RotationStrandsNothing
<1>. QED
  BY RotationIsSafe, <1>1, PTL
=============================================================================
