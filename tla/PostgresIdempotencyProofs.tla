--------------------- MODULE PostgresIdempotencyProofs ---------------------
(***************************************************************************)
(* Keyed mutations and the key lifecycle on PostgreSQL, for any number of  *)
(* processes, threads, keys and versions and whatever the server makes of  *)
(* commits nobody heard of.                                                *)
(*                                                                         *)
(* Two locks carry the argument.  A key is held by one completion at a     *)
(* time, orphaned ones included, so what a completion found under the lock *)
(* still holds when its commit takes effect.  And a version that is        *)
(* drained or retired has no shared holder, and gets none any more, so     *)
(* what could still be committed of it was evaluated, before the drain, by *)
(* a process that had given up its attestation: it has expired when the    *)
(* removal window is over.                                                 *)
(***************************************************************************)
EXTENDS PostgresIdempotency, TLAPS

\* A transaction runs on an open connection, alone.
Sessions ==
    /\ \A t \in Threads : pc[t] \in InTransaction => conn[Home[t]] = "open"
    /\ \A t, u \in Threads :
         pc[t] \in InTransaction /\ pc[u] \in InTransaction /\ Home[t] = Home[u] => t = u

\* A reservation is of the version its process writes with.
Reserved ==
    \A t \in Threads :
        /\ conn[Home[t]] = "down" => rsv[t] = {}
        /\ \A n \in rsv[t] : n.ver = ring[Home[t]].active

\* An effect yet to commit begins after every committed one of its key ends.
Timely(e) ==
    e.at <= now /\ \A d \in performed : d.key = e.key => d.exp <= e.at

PendingIsSound(t) ==
    pc[t] = "commit" => \A e \in pending[t] :
        /\ e.key = req[t].key /\ e.fp = req[t].fp /\ e.ver = ring[Home[t]].active
        /\ Timely(e)

OrphanIsSound(o) ==
    /\ \A e \in o.effect : o.kind = "complete" /\ e.ver = o.ver /\ Timely(e)
    /\ o.kind = "drain" => disabled[o.ver] # ""
    /\ o.kind = "retire" => \A r \in results : r.ver = o.ver => r.exp <= now

\* One completion holds a key.
KeysAreHeldOnce ==
    /\ \A t, u \in Threads :
         pc[t] \in InTransaction /\ pc[u] \in InTransaction /\ req[t].key = req[u].key => t = u
    /\ \A t \in Threads, o \in OrphanEffects : \A e \in o.effect :
         pc[t] \in InTransaction => e.key # req[t].key
    /\ \A o, p \in OrphanEffects : \A e \in o.effect, f \in p.effect : e.key = f.key => o = p

\* A version is held shared or exclusively.
LocksExclude == \A v \in Versions : ~(SharedHeld(v) /\ ExclusiveHeld(v))

\* What could still be replayed is stored.
ResultsAreCommitted ==
    /\ results \subseteq performed
    /\ \A d \in performed : d.exp > now => d \in results

\* A drained version and a retired one have no writers.
DrainIsFinal ==
    \A v \in Versions : drainedAt[v] # Never => disabled[v] # "" /\ ~SharedHeld(v)
RetirementIsFinal ==
    \A v \in retired :
        /\ ~SharedHeld(v)
        /\ \A r \in results : r.ver = v => r.exp <= now

\* What the threads rely on, and what holds of the store.
Locals ==
    /\ Sessions /\ Reserved /\ KeysAreHeldOnce /\ PgReplyIsCommitted
    /\ \A t \in Threads : PendingIsSound(t)
Globals ==
    /\ LocksExclude /\ ResultsAreCommitted /\ DrainIsFinal /\ RetirementIsFinal
    /\ PgAtMostOnce /\ OperatorIsToldTheTruth
    /\ \A o \in orphans : OrphanIsSound(o)

IInv == TypeOK /\ Locals /\ Globals

\* Effects that may still be committed, and versions that are retired, or
\* will be if the server so decides.
Undecided(e) ==
    \/ \E t \in Threads : pc[t] = "commit" /\ e \in pending[t]
    \/ \E o \in orphans : e \in o.effect
Ending(v) == v \in retired \/ \E o \in orphans : o.kind = "retire" /\ o.ver = v

\* An effect is evaluated before its version is drained, or about to be.
Punctual(e) ==
    /\ e.exp <= e.at + MaxTTL
    /\ drainedAt[e.ver] # Never => e.at <= drainedAt[e.ver]
    /\ \A o \in orphans : o.kind = "drain" /\ o.ver = e.ver => e.at <= o.at

\* Nothing is retired before the removal window of its drain is over.
WindowIsOver(v) == drainedAt[v] # Never /\ drainedAt[v] + RemovalWindow <= now

Punctuality ==
    /\ \A e \in Effect : Undecided(e) => Punctual(e)
    /\ \A v \in Versions : Ending(v) => WindowIsOver(v)

-----------------------------------------------------------------------------
(***************************************************************************)
(* Shapes.                                                                 *)
(***************************************************************************)
Replies == SUBSET Effect

ThreadTyped ==
    /\ pc \in [Threads -> Stages] /\ req \in [Threads -> Requests]
    /\ epoch \in [Threads -> Nat]
    /\ rsv \in [Threads -> SUBSET Reservation] /\ pending \in [Threads -> SUBSET Effect]
    /\ reply \in [Threads -> Replies]

SessionTyped ==
    conn \in [Procs -> ConnStates] /\ ring \in [Procs -> Keyrings] /\ registered \subseteq Procs

StoreTyped ==
    /\ now \in Nat
    /\ slots \in [Versions -> Nat]
    /\ disabled \in [Versions -> Reasons]
    /\ drainedAt \in [Versions -> Nat \cup {Never}]
    /\ retired \subseteq Versions
    /\ ledger \subseteq Reservation /\ claimed \subseteq ledger /\ results \subseteq Effect
    /\ performed \subseteq Effect /\ orphans \subseteq Orphan

OperatorTyped ==
    /\ op \in [what : Commands \cup {"none"}, ver : Versions,
               stage : {"idle", "apply", "recover"}]
    /\ told \subseteq Commands \X Versions

LEMMA TypeParts == TypeOK <=> ThreadTyped /\ SessionTyped /\ StoreTyped /\ OperatorTyped
  BY DEF TypeOK, ThreadTyped, SessionTyped, StoreTyped, OperatorTyped, Replies

LEMMA TypePartsNext == TypeOK' <=> ThreadTyped' /\ SessionTyped' /\ StoreTyped' /\ OperatorTyped'
  BY DEF TypeOK, ThreadTyped, SessionTyped, StoreTyped, OperatorTyped, Replies

LEMMA NeverIsNoTime == Never \notin Nat
  BY DEF Never

LEMMA Constants ==
    /\ NoRing \in Keyrings /\ NoRequest \in Requests /\ Home \in [Threads -> Procs]
    /\ \A k \in Keyrings \cup {OperatorRing} : k.active \in Versions
    /\ NoCommand \in [what : Commands \cup {"none"}, ver : Versions,
                      stage : {"idle", "apply", "recover"}]
    /\ NoReply \in Replies /\ Conflict \in Replies /\ Unavailable \in Replies
    /\ \A e \in Effect : Response(e) \in Replies
  <1>1. NoRing \in Keyrings
    BY PgAssumption DEF NoRing
  <1>2. NoRequest \in Requests
    <2>1. \E r \in Requests : TRUE
      <3>1. PICK k \in Keys, f \in Fingerprints : TRUE
        BY PgAssumption
      <3>2. [key |-> k, fp |-> f] \in Requests
        BY DEF Requests
      <3> QED  BY <3>2
    <2> QED  BY <2>1 DEF NoRequest
  <1>3. \A k \in Keyrings \cup {OperatorRing} : k.active \in Versions
    BY PgAssumption
  <1>4. NoCommand \in [what : Commands \cup {"none"}, ver : Versions,
                       stage : {"idle", "apply", "recover"}]
    BY <1>3 DEF NoCommand
  <1>5. /\ NoReply \in Replies /\ Conflict \in Replies /\ Unavailable \in Replies
        /\ \A e \in Effect : Response(e) \in Replies
    BY DEF NoReply, Conflict, Unavailable, Response, Replies
  <1> QED  BY <1>1, <1>2, <1>3, <1>4, <1>5, PgAssumption

-----------------------------------------------------------------------------
(***************************************************************************)
(* How a thread's step can end: with an answer, or at the next stage.      *)
(***************************************************************************)
Ends(t) ==
    /\ UNCHANGED conn \/ Quarantine(Home[t])
    /\ \E answer \in Replies :
         /\ Finish(t, answer)
         /\ \A e \in answer : e \in performed' /\ e.key = req[t].key /\ e.fp = req[t].fp

LEMMA GivenUp ==
    ASSUME NEW t \in Threads, GiveUp(t) \/ LoseCommit(t)
    PROVE  Ends(t)
  <1>1. Unavailable = {}
    BY DEF Unavailable
  <1> QED  BY <1>1, Constants DEF GiveUp, LoseCommit, Answer, Ends

LEMMA Answered ==
    ASSUME IInv, NEW t \in Threads, NEW at, AnswerFromRow(t, at), performed \subseteq performed'
    PROVE  Ends(t)
  <1>1. CASE GiveUp(t) \/ LoseCommit(t)
    BY <1>1, GivenUp
  <1>2. ASSUME NEW r \in LiveRows(req[t].key, ring[Home[t]], at),
               Answer(t, IF r.fp = req[t].fp THEN Response(r) ELSE Conflict)
        PROVE  Ends(t)
    <2>1. r \in results /\ r.key = req[t].key /\ r \in performed /\ r \in Effect
      BY DEF LiveRows, Row, IInv, Globals, ResultsAreCommitted, TypeOK
    <2>2. Response(r) = {r} /\ Conflict = {}
      BY DEF Response, Conflict
    <2>3. CASE r.fp = req[t].fp
      BY <1>2, <2>1, <2>2, <2>3, Constants DEF Answer, Ends
    <2>4. CASE r.fp # req[t].fp
      BY <1>2, <2>2, <2>4, Constants DEF Answer, Ends
    <2> QED  BY <2>3, <2>4
  <1> QED  BY <1>1, <1>2 DEF AnswerFromRow

LEMMA EndsTyped ==
    ASSUME ThreadTyped, SessionTyped, NEW t \in Threads, Ends(t), UNCHANGED <<ring, registered>>
    PROVE  ThreadTyped' /\ SessionTyped'
  <1>1. ThreadTyped'
    BY DEF Ends, Finish, ThreadTyped, Stages
  <1>2. SessionTyped'
    BY Constants DEF Ends, Quarantine, SessionTyped, ConnStates
  <1> QED  BY <1>1, <1>2

LEMMA GoToTyped ==
    ASSUME ThreadTyped, SessionTyped, NEW t \in Threads, NEW stage \in Stages, GoTo(t, stage),
           UNCHANGED <<ring, registered>>
    PROVE  ThreadTyped' /\ SessionTyped'
  BY DEF GoTo, ThreadTyped, SessionTyped

\* The connections the step leaves open were open, and the thread's is alone.
Alone(t) == \A u \in Threads : u # t /\ Home[u] = Home[t] => pc[u] \notin InTransaction

\* The key of a completion is not that of an effect committed meanwhile.
OthersUnaffected(t) ==
    /\ performed \subseteq performed'
    /\ \A u \in Threads \ {t} : pc[u] = "commit" =>
          \A d \in performed' \ performed : d.key # req[u].key

LEMMA EndsCore ==
    ASSUME TypeOK, Locals, NEW t \in Threads, Ends(t), Alone(t), UNCHANGED <<now, ring, registered>>,
           OthersUnaffected(t), KeysAreHeldOnce'
    PROVE  Locals'
  <1>1. PICK answer \in Replies :
            /\ Finish(t, answer)
            /\ \A e \in answer : e \in performed' /\ e.key = req[t].key /\ e.fp = req[t].fp
    BY DEF Ends
  <1>2. /\ pc'[t] = "idle" /\ rsv'[t] = {} /\ reply'[t] = answer /\ UNCHANGED req
        /\ \A u \in Threads \ {t} : /\ pc'[u] = pc[u] /\ rsv'[u] = rsv[u]
                                    /\ pending'[u] = pending[u] /\ reply'[u] = reply[u]
    BY <1>1 DEF Finish, TypeOK
  <1>3. \A p \in Procs : p # Home[t] => conn'[p] = conn[p]
    BY DEF Ends, Quarantine, TypeOK
  <1>4. conn'[Home[t]] = "down" => conn[Home[t]] = "down"
    BY Constants DEF Ends, Quarantine, TypeOK
  <1>5. Home[t] \in Procs /\ \A u \in Threads : Home[u] \in Procs
    BY Constants
  <1>6. Sessions'
    BY <1>2, <1>3, <1>5 DEF Locals, Sessions, Alone, InTransaction
  <1>7. Reserved'
    BY <1>2, <1>3, <1>4, <1>5 DEF Locals, Reserved
  <1>8. PgReplyIsCommitted'
    BY <1>1, <1>2 DEF Locals, PgReplyIsCommitted, OthersUnaffected
  <1>9. ASSUME NEW u \in Threads  PROVE PendingIsSound(u)'
    BY <1>2 DEF Locals, PendingIsSound, Timely, OthersUnaffected
  <1> QED  BY <1>6, <1>7, <1>8, <1>9 DEF Locals

LEMMA EndsLocals ==
    ASSUME TypeOK, Locals, NEW t \in Threads, Ends(t), Alone(t),
           UNCHANGED <<now, ring, registered, orphans, performed>>
    PROVE  Locals'
  <1>1. pc'[t] = "idle" /\ UNCHANGED req /\ \A u \in Threads \ {t} : pc'[u] = pc[u]
    BY DEF Ends, Finish, TypeOK
  <1>2. KeysAreHeldOnce'
    BY <1>1 DEF Locals, KeysAreHeldOnce, OrphanEffects, InTransaction
  <1> QED  BY <1>2, EndsCore DEF OthersUnaffected

\* A thread that goes on outside a transaction.
LEMMA MovesLocals ==
    ASSUME TypeOK, Locals, NEW t \in Threads, NEW stage \in Stages \ InTransaction,
           pc' = [pc EXCEPT ![t] = stage],
           UNCHANGED <<now, ring, registered, conn, orphans, performed, req, rsv, pending, reply>>
    PROVE  Locals'
  <1>1. pc'[t] \notin InTransaction /\ \A u \in Threads \ {t} : pc'[u] = pc[u]
    BY DEF TypeOK
  <1>2. Sessions' /\ Reserved'
    BY <1>1 DEF Locals, Sessions, Reserved
  <1>3. KeysAreHeldOnce' /\ PgReplyIsCommitted'
    BY <1>1 DEF Locals, KeysAreHeldOnce, OrphanEffects, PgReplyIsCommitted
  <1>4. ASSUME NEW u \in Threads  PROVE PendingIsSound(u)'
    BY <1>1 DEF Locals, PendingIsSound, Timely, InTransaction
  <1> QED  BY <1>2, <1>3, <1>4 DEF Locals

-----------------------------------------------------------------------------
(***************************************************************************)
(* The store while nothing is committed and no connection is opened.       *)
(***************************************************************************)
Still ==
    /\ UNCHANGED <<now, drainedAt, retired, results, performed, ring, registered, orphans, op, told>>
    /\ \A v \in Versions : disabled[v] # "" => disabled'[v] # ""
    /\ \A p \in Procs : conn'[p] = "open" => conn[p] = "open"

LEMMA StillShared ==
    ASSUME Still, NEW v, SharedHeld(v)'
    PROVE  SharedHeld(v)
  BY DEF Still, SharedHeld, OrphanEffects

LEMMA GlobalsStill ==
    ASSUME TypeOK, Globals, Still
    PROVE  Globals'
  <1>1. \A v : SharedHeld(v)' => SharedHeld(v)
    BY StillShared
  <1>2. \A v : ExclusiveHeld(v)' => ExclusiveHeld(v)
    BY DEF Still, ExclusiveHeld, OrphanCommands
  <1>3. LocksExclude'
    BY <1>1, <1>2 DEF Globals, LocksExclude
  <1>4. ResultsAreCommitted' /\ PgAtMostOnce'
    BY DEF Globals, ResultsAreCommitted, PgAtMostOnce, Still
  <1>5. DrainIsFinal' /\ RetirementIsFinal'
    BY <1>1 DEF Globals, DrainIsFinal, RetirementIsFinal, Still
  <1>6. OperatorIsToldTheTruth'
    BY DEF Globals, OperatorIsToldTheTruth, Still
  <1>7. ASSUME NEW o \in orphans'  PROVE OrphanIsSound(o)'
    <2>1. o \in orphans /\ o.ver \in Versions
      BY DEF Still, TypeOK, Orphan
    <2> QED  BY <2>1 DEF Globals, OrphanIsSound, Timely, Still
  <1> QED  BY <1>3, <1>4, <1>5, <1>6, <1>7 DEF Globals

-----------------------------------------------------------------------------
(***************************************************************************)
(* The steps of a thread.                                                  *)
(***************************************************************************)
\* A step that ends the request, or moves it on outside a transaction, and
\* commits nothing that others could see but slots, ledger rows and claims.
LEMMA QuietStep ==
    ASSUME IInv, NEW t \in Threads, Alone(t), StoreTyped', OperatorTyped', ThreadTyped', SessionTyped',
           \/ Ends(t)
           \/ \E stage \in Stages \ InTransaction :
                 /\ pc' = [pc EXCEPT ![t] = stage]
                 /\ UNCHANGED <<conn, req, rsv, pending, reply>>,
           UNCHANGED <<now, drainedAt, retired, results, performed, ring, registered, orphans, op, told>>,
           \A v \in Versions : disabled[v] # "" => disabled'[v] # ""
    PROVE  IInv'
  <1>1. Locals'
    BY EndsLocals, MovesLocals DEF IInv
  <1>2. \A p \in Procs : conn'[p] = "open" => conn[p] = "open"
    BY DEF Ends, Quarantine, IInv, TypeOK
  <1>3. Still
    BY <1>2 DEF Still
  <1>4. Globals'
    BY <1>3, GlobalsStill DEF IInv
  <1> QED  BY <1>1, <1>4, TypePartsNext DEF IInv

LEMMA ConnectedAlone ==
    ASSUME NEW t \in Threads, Connected(t)
    PROVE  Alone(t) /\ conn[Home[t]] = "open" /\ pc[t] \notin InTransaction
  BY DEF Connected, Alone

LEMMA IInvParts ==
    ASSUME IInv
    PROVE  TypeOK /\ ThreadTyped /\ SessionTyped /\ StoreTyped /\ OperatorTyped
  BY TypeParts DEF IInv

\* What a step leaves alone keeps its shape.
LEMMA StoreStays ==
    ASSUME StoreTyped, UNCHANGED <<now, versionVars, rowVars, orphans, performed>>
    PROVE  StoreTyped'
  BY DEF StoreTyped, versionVars, rowVars

LEMMA OperatorStays ==
    ASSUME OperatorTyped, UNCHANGED <<op, told>>
    PROVE  OperatorTyped'
  BY DEF OperatorTyped

LEMMA ReceiveStep ==
    ASSUME IInv, NEW t \in Threads, NEW r \in Requests, Receive(t, r)
    PROVE  IInv'
  <1>1. TypeOK /\ Locals /\ Globals /\ Alone(t)
    BY ConnectedAlone DEF IInv, Receive
  <1>2. TypeOK'
    BY <1>1, Constants DEF Receive, TypeOK, Stages, versionVars, rowVars, Replies
  <1>3. /\ pc'[t] = "lookup" /\ reply'[t] = NoReply
        /\ \A u \in Threads \ {t} : pc'[u] = pc[u] /\ req'[u] = req[u] /\ reply'[u] = reply[u]
        /\ UNCHANGED <<now, conn, ring, registered, rsv, pending, orphans, performed>>
    BY <1>1 DEF Receive, TypeOK
  <1>4. NoReply = {}
    BY DEF NoReply
  <1>5. Sessions' /\ Reserved'
    BY <1>1, <1>3 DEF Locals, Sessions, Reserved, InTransaction
  <1>6. KeysAreHeldOnce' /\ PgReplyIsCommitted'
    BY <1>1, <1>3, <1>4 DEF Locals, KeysAreHeldOnce, OrphanEffects, PgReplyIsCommitted, InTransaction
  <1>7. ASSUME NEW u \in Threads  PROVE PendingIsSound(u)'
    BY <1>1, <1>3 DEF Locals, PendingIsSound, Timely
  <1>8. Still
    BY DEF Receive, Still, versionVars, rowVars
  <1> QED  BY <1>1, <1>2, <1>5, <1>6, <1>7, <1>8, GlobalsStill DEF IInv, Locals

LEMMA LookupStep ==
    ASSUME IInv, NEW t \in Threads, Lookup(t) \/ Recheck(t)
    PROVE  IInv'
  <1>1. ThreadTyped /\ SessionTyped /\ StoreTyped /\ OperatorTyped /\ Alone(t)
    BY IInvParts, ConnectedAlone DEF Lookup, Recheck
  <1>2. UNCHANGED <<now, versionVars, rowVars, ring, registered, orphans, op, told, performed>>
    BY DEF Lookup, Recheck
  <1>3. StoreTyped' /\ OperatorTyped'
    BY <1>1, <1>2, StoreStays, OperatorStays
  <1>4. CASE \E at : AnswerFromRow(t, at)
    <2>1. Ends(t)
      BY <1>2, <1>4, Answered
    <2> QED  BY <1>1, <1>2, <1>3, <2>1, EndsTyped, QuietStep DEF versionVars, rowVars
  <1>5. CASE \E stage \in {"reserve", "claim"} :
               /\ pc' = [pc EXCEPT ![t] = stage]
               /\ epoch' \in {epoch, [epoch EXCEPT ![t] = 0]}
               /\ UNCHANGED <<req, rsv, pending, reply, conn>>
    <2>1. ThreadTyped' /\ SessionTyped'
      BY <1>1, <1>2, <1>5 DEF ThreadTyped, SessionTyped, Stages
    <2>2. \E stage \in Stages \ InTransaction : pc' = [pc EXCEPT ![t] = stage]
      BY <1>5 DEF Stages, InTransaction
    <2> QED  BY <1>1, <1>2, <1>3, <1>5, <2>1, <2>2, QuietStep DEF versionVars, rowVars
  <1> QED  BY <1>4, <1>5 DEF Lookup, Recheck, GoTo

LEMMA ReserveStep ==
    ASSUME IInv, NEW t \in Threads, Reserve(t)
    PROVE  IInv'
  <1> DEFINE v == ring[Home[t]].active
  <1>1. /\ ThreadTyped /\ SessionTyped /\ StoreTyped /\ OperatorTyped /\ TypeOK
        /\ Alone(t) /\ conn[Home[t]] = "open" /\ Locals /\ Globals
    BY IInvParts, ConnectedAlone DEF Reserve, IInv
  <1>2. UNCHANGED <<now, disabled, drainedAt, retired, claimed, results, ring, registered, orphans, op, told,
                    performed>>
    BY DEF Reserve
  <1>3. OperatorTyped'
    BY <1>1, <1>2, OperatorStays
  <1>4. CASE UNCHANGED <<slots, ledger>> /\ (GiveUp(t) \/ LoseCommit(t))
    <2>1. StoreTyped'
      BY <1>1, <1>2, <1>4, StoreStays DEF versionVars, rowVars
    <2> QED  BY <1>1, <1>2, <1>3, <1>4, <2>1, GivenUp, EndsTyped, QuietStep
  <1>5. CASE UNCHANGED <<slots, ledger>> /\ GoTo(t, "disable")
    <2>1. StoreTyped'
      BY <1>1, <1>2, <1>5, StoreStays DEF versionVars, rowVars
    <2>2. PICK stage \in Stages \ InTransaction : GoTo(t, stage)
      BY <1>5 DEF Stages, InTransaction
    <2>3. ThreadTyped' /\ SessionTyped'
      BY <1>1, <1>2, <2>2, GoToTyped
    <2>4. \E next \in Stages \ InTransaction :
             /\ pc' = [pc EXCEPT ![t] = next]
             /\ UNCHANGED <<conn, req, rsv, pending, reply>>
      BY <2>2 DEF GoTo
    <2> QED  BY <1>1, <1>2, <1>3, <2>1, <2>3, <2>4, QuietStep
  <1>6. ASSUME NEW n \in Nonces, RecordReservation(t, NextReservation(t, n))  PROVE IInv'
    <2> DEFINE row == NextReservation(t, n)
    <2>1. v \in Versions /\ slots[v] \in Nat /\ req[t] \in Requests
      BY <1>1, Constants DEF SessionTyped, StoreTyped, ThreadTyped
    <2>2. row \in Reservation /\ row.ver = v
      BY <2>1 DEF NextReservation, Reservation, Requests
    <2>3. RecordReservation(t, row)
      BY <1>6
    <2> HIDE DEF row
    <2>4. slots' \in [Versions -> Nat]
      <3>1. slots' = [slots EXCEPT ![v] = slots[v] + 1] /\ slots \in [Versions -> Nat]
        BY <1>1, <2>2, <2>3 DEF RecordReservation, StoreTyped
      <3>2. slots[v] + 1 \in Nat
        BY <2>1
      <3> HIDE DEF v
      <3> QED  BY <3>1, <3>2
    <2>5. StoreTyped'
      BY <1>1, <1>2, <2>2, <2>3, <2>4 DEF RecordReservation, StoreTyped
    <2>6. CASE LoseCommit(t)
      BY <1>1, <1>2, <1>3, <2>5, <2>6, GivenUp, EndsTyped, QuietStep
    <2>7. CASE /\ pc' = [pc EXCEPT ![t] = "recheck"] /\ rsv' = [rsv EXCEPT ![t] = {row}]
               /\ UNCHANGED <<req, epoch, pending, reply, conn>>
      <3>1. /\ pc'[t] = "recheck" /\ rsv'[t] = {row}
            /\ \A u \in Threads \ {t} : pc'[u] = pc[u] /\ rsv'[u] = rsv[u]
        BY <1>1, <2>7 DEF ThreadTyped
      <3>2. ThreadTyped' /\ SessionTyped'
        BY <1>1, <1>2, <2>2, <2>7 DEF ThreadTyped, SessionTyped, Stages
      <3>3. Sessions' /\ Reserved'
        BY <1>1, <1>2, <2>2, <2>7, <3>1 DEF Locals, Sessions, Reserved, InTransaction
      <3>4. KeysAreHeldOnce' /\ PgReplyIsCommitted'
        BY <1>1, <1>2, <2>7, <3>1 DEF Locals, KeysAreHeldOnce, OrphanEffects, PgReplyIsCommitted,
           InTransaction
      <3>5. ASSUME NEW u \in Threads  PROVE PendingIsSound(u)'
        BY <1>1, <1>2, <2>7, <3>1 DEF Locals, PendingIsSound, Timely
      <3>6. Still
        BY <1>2, <2>7 DEF Still
      <3> QED  BY <1>1, <1>3, <2>5, <3>2, <3>3, <3>4, <3>5, <3>6, GlobalsStill, TypePartsNext
                  DEF IInv, Locals
    <2> QED  BY <2>3, <2>6, <2>7 DEF RecordReservation
  <1> QED  BY <1>4, <1>5, <1>6 DEF Reserve

LEMMA DisableOwnStep ==
    ASSUME IInv, NEW t \in Threads, DisableOwn(t)
    PROVE  IInv'
  <1>1. /\ ThreadTyped /\ SessionTyped /\ StoreTyped /\ OperatorTyped /\ Alone(t)
        /\ pc[t] = "disable"
    BY IInvParts, ConnectedAlone DEF DisableOwn
  <1>2. /\ UNCHANGED <<now, slots, drainedAt, retired, rowVars, ring, registered, orphans, op, told, performed>>
        /\ GiveUp(t) \/ LoseCommit(t)
    BY DEF DisableOwn
  <1>3. /\ disabled' \in [Versions -> Reasons]
        /\ \A v \in Versions : disabled[v] # "" => disabled'[v] # ""
    BY <1>1 DEF DisableOwn, StoreTyped, Reasons
  <1>4. StoreTyped' /\ OperatorTyped'
    BY <1>1, <1>2, <1>3, OperatorStays DEF StoreTyped, rowVars
  <1> QED  BY <1>1, <1>2, <1>3, <1>4, GivenUp, EndsTyped, QuietStep DEF rowVars

LEMMA ClaimStep ==
    ASSUME IInv, NEW t \in Threads, Claim(t)
    PROVE  IInv'
  <1>1. ThreadTyped /\ SessionTyped /\ StoreTyped /\ OperatorTyped /\ Alone(t)
    BY IInvParts, ConnectedAlone DEF Claim
  <1>2. UNCHANGED <<now, versionVars, ledger, results, ring, registered, orphans, op, told, performed>>
    BY DEF Claim
  <1>3. StoreTyped' /\ OperatorTyped'
    <2>1. claimed' \subseteq ledger
      BY <1>1 DEF Claim, StoreTyped
    <2> QED  BY <1>1, <1>2, <2>1, OperatorStays DEF StoreTyped, versionVars
  <1>4. CASE GiveUp(t) \/ LoseCommit(t)
    BY <1>1, <1>2, <1>3, <1>4, GivenUp, EndsTyped, QuietStep DEF versionVars
  <1>5. CASE GoTo(t, "lock")
    <2>1. "lock" \in Stages \ InTransaction
      BY DEF Stages, InTransaction
    <2>2. ThreadTyped' /\ SessionTyped'
      BY <1>1, <1>2, <1>5, <2>1, GoToTyped
    <2> QED  BY <1>1, <1>2, <1>3, <1>5, <2>1, <2>2, QuietStep DEF GoTo, versionVars
  <1> QED  BY <1>4, <1>5 DEF Claim

LEMMA LockKeyStep ==
    ASSUME IInv, NEW t \in Threads, LockKey(t)
    PROVE  IInv'
  <1>1. /\ ThreadTyped /\ SessionTyped /\ StoreTyped /\ OperatorTyped /\ TypeOK
        /\ Alone(t) /\ conn[Home[t]] = "open" /\ Locals /\ Globals
    BY IInvParts, ConnectedAlone DEF LockKey, IInv
  <1>2. /\ UNCHANGED <<now, versionVars, rowVars, ring, registered, orphans, op, told, performed>>
        /\ GoTo(t, "evaluate") /\ ~KeyHeld(req[t].key) /\ "evaluate" \in Stages
    BY DEF LockKey, Stages
  <1>3. StoreTyped' /\ OperatorTyped' /\ ThreadTyped' /\ SessionTyped'
    BY <1>1, <1>2, StoreStays, OperatorStays, GoToTyped
  <1>4. /\ pc'[t] = "evaluate" /\ \A u \in Threads \ {t} : pc'[u] = pc[u]
        /\ UNCHANGED <<req, rsv, pending, reply, conn>>
    BY <1>1, <1>2 DEF GoTo, ThreadTyped
  <1>5. Sessions'
    BY <1>1, <1>4 DEF Locals, Sessions, Alone
  <1>6. Reserved' /\ PgReplyIsCommitted'
    BY <1>1, <1>2, <1>4 DEF Locals, Reserved, PgReplyIsCommitted
  <1>7. KeysAreHeldOnce'
    BY <1>1, <1>2, <1>4 DEF Locals, KeysAreHeldOnce, OrphanEffects, KeyHeld
  <1>8. ASSUME NEW u \in Threads  PROVE PendingIsSound(u)'
    BY <1>1, <1>2, <1>4 DEF Locals, PendingIsSound, Timely
  <1>9. Still
    BY <1>2, <1>4 DEF Still, versionVars, rowVars
  <1> QED  BY <1>1, <1>3, <1>5, <1>6, <1>7, <1>8, <1>9, GlobalsStill, TypePartsNext
              DEF IInv, Locals

\* What a row the evaluation passes over says of the effects of its key:
\* none of them could still be replayed.
LEMMA ProceedsIsFree ==
    ASSUME IInv, NEW k, NEW keyring, Proceeds(k, keyring, now)
    PROVE  \A d \in performed : d.key = k => d.exp <= now
  <1> SUFFICES ASSUME NEW d \in performed, d.key = k, ~(d.exp <= now)  PROVE FALSE
    OBVIOUS
  <1>1. d.exp \in Nat /\ now \in Nat
    BY DEF IInv, TypeOK, Effect
  <1>2. d \in results
    BY <1>1 DEF IInv, Globals, ResultsAreCommitted
  <1> QED  BY <1>2 DEF Proceeds, Row

LEMMA EvaluateStep ==
    ASSUME IInv, NEW t \in Threads, Evaluate(t)
    PROVE  IInv'
  <1>1. /\ ThreadTyped /\ SessionTyped /\ StoreTyped /\ OperatorTyped /\ TypeOK
        /\ Locals /\ Globals /\ pc[t] = "evaluate"
    BY IInvParts DEF Evaluate, IInv
  <1>2. UNCHANGED <<now, versionVars, rowVars, ring, registered, orphans, op, told, performed>>
    BY DEF Evaluate
  <1>3. StoreTyped' /\ OperatorTyped'
    BY <1>1, <1>2, StoreStays, OperatorStays
  <1>4. Alone(t)
    BY <1>1 DEF Locals, Sessions, Alone, InTransaction
  <1>5. CASE AnswerFromRow(t, now) \/ GiveUp(t)
    <2>1. Ends(t)
      BY <1>2, <1>5, Answered, GivenUp
    <2> QED  BY <1>1, <1>2, <1>3, <1>4, <2>1, EndsTyped, QuietStep DEF versionVars, rowVars
  <1>6. ASSUME NEW n \in rsv[t], NEW notAfter \in now..(now + MaxTTL),
               Proceeds(req[t].key, ring[Home[t]], now),
               pending' = [pending EXCEPT ![t] =
                  {[key |-> req[t].key, fp |-> req[t].fp, ver |-> n.ver,
                    nonce |-> n.nonce, at |-> now, exp |-> TerminalExpiry(notAfter)]}],
               pc' = [pc EXCEPT ![t] = "commit"],
               UNCHANGED <<req, epoch, rsv, reply, conn>>
        PROVE  IInv'
    <2>1. PICK x : x = TerminalExpiry(notAfter)
      OBVIOUS
    <2>2. x \in Nat
      <3>1. now \in Nat /\ MaxTTL \in Nat
        BY <1>1, PgAssumption DEF StoreTyped
      <3> QED  BY <2>1, <3>1 DEF TerminalExpiry
    <2>3. PICK e : e = [key |-> req[t].key, fp |-> req[t].fp, ver |-> n.ver,
                        nonce |-> n.nonce, at |-> now, exp |-> x]
      OBVIOUS
    <2>4. n \in Reservation /\ req[t] \in Requests /\ now \in Nat
      BY <1>1 DEF ThreadTyped, StoreTyped
    <2>5. /\ e \in Effect /\ e.key = req[t].key /\ e.fp = req[t].fp /\ e.ver = n.ver /\ e.at = now
      BY <2>2, <2>3, <2>4 DEF Effect, Reservation, Requests
    <2>6. pending' = [pending EXCEPT ![t] = {e}]
      BY <1>6, <2>1, <2>3
    <2>7. /\ pc'[t] = "commit" /\ pending'[t] = {e}
          /\ \A u \in Threads \ {t} : pc'[u] = pc[u] /\ pending'[u] = pending[u]
      BY <1>1, <1>6, <2>6 DEF ThreadTyped
    <2>8. ThreadTyped' /\ SessionTyped'
      BY <1>1, <1>2, <1>6, <2>5, <2>6 DEF ThreadTyped, SessionTyped, Stages
    <2>9. Sessions' /\ Reserved' /\ PgReplyIsCommitted'
      BY <1>1, <1>2, <1>6, <2>7 DEF Locals, Sessions, Reserved, PgReplyIsCommitted, InTransaction
    <2>10. KeysAreHeldOnce'
      BY <1>1, <1>2, <1>6, <2>7 DEF Locals, KeysAreHeldOnce, OrphanEffects, InTransaction
    <2>11. ASSUME NEW u \in Threads  PROVE PendingIsSound(u)'
      <3>1. CASE u = t
        <4>1. \A d \in performed : d.key = e.key => d.exp <= e.at
          BY <1>6, <2>5, ProceedsIsFree
        <4>2. Timely(e)'
          BY <1>2, <2>4, <2>5, <4>1 DEF Timely
        <4>3. e.ver = ring[Home[t]].active
          BY <1>1, <2>5 DEF Locals, Reserved
        <4> QED  BY <1>2, <1>6, <2>5, <2>7, <3>1, <4>2, <4>3 DEF PendingIsSound
      <3>2. CASE u # t
        BY <1>1, <1>2, <1>6, <2>7, <3>2 DEF Locals, PendingIsSound, Timely
      <3> QED  BY <3>1, <3>2
    <2>12. Still
      BY <1>2, <1>6 DEF Still, versionVars, rowVars
    <2> QED  BY <1>1, <1>3, <2>8, <2>9, <2>10, <2>11, <2>12, GlobalsStill, TypePartsNext
                DEF IInv, Locals
  <1> QED  BY <1>5, <1>6 DEF Evaluate

-----------------------------------------------------------------------------
(***************************************************************************)
(* A completion takes effect.                                              *)
(***************************************************************************)
\* What is yet to commit is no use to a reply if its version is being retired.
LEMMA LateIsSpent ==
    ASSUME IInv, Punctuality, NEW e \in Effect, Undecided(e), Ending(e.ver)
    PROVE  e.exp <= now
  <1>1. e.ver \in Versions /\ e.exp \in Nat /\ e.at \in Nat /\ now \in Nat
    BY DEF Effect, IInv, TypeOK
  <1>2. Punctual(e) /\ WindowIsOver(e.ver)
    BY <1>1 DEF Punctuality
  <1>3. PICK d : d = drainedAt[e.ver]
    OBVIOUS
  <1>4. /\ d \in Nat /\ e.exp <= e.at + MaxTTL /\ e.at <= d /\ d + RemovalWindow <= now
    BY <1>1, <1>2, <1>3 DEF Punctual, WindowIsOver, IInv, TypeOK
  <1> QED  BY <1>1, <1>4, PgAssumption

LEMMA EffectGlobals ==
    ASSUME TypeOK, Globals, NEW e \in Effect, TakeEffect(e), Timely(e),
           Ending(e.ver) => e.exp <= now,
           UNCHANGED <<now, drainedAt, retired, disabled, op, told>>,
           orphans' \subseteq orphans,
           \A v \in Versions : SharedHeld(v)' => SharedHeld(v),
           \A o \in orphans' : \A f \in o.effect : f.key # e.key
    PROVE  Globals'
  <1>1. e.ver \in Versions /\ e.exp \in Nat /\ e.at \in Nat /\ now \in Nat
    BY DEF Effect, TypeOK
  <1>2. \A d \in performed : d \in Effect /\ d.exp \in Nat /\ d.at \in Nat
    BY DEF Effect, TypeOK
  <1>3. /\ performed' = performed \cup {e}
        /\ \A r \in results' : (r \in results /\ r.key # e.key) \/ r = e
        /\ \A r \in results : r.key # e.key => r \in results'
        /\ e.exp > e.at => e \in results'
    BY DEF TakeEffect, Row
  <1>4. \A v \in Versions : ExclusiveHeld(v)' => ExclusiveHeld(v)
    BY DEF ExclusiveHeld, OrphanCommands
  <1>5. LocksExclude'
    BY <1>4 DEF Globals, LocksExclude
  <1>6. ResultsAreCommitted'
    <2>1. results' \subseteq performed'
      BY <1>3 DEF Globals, ResultsAreCommitted
    <2>2. ASSUME NEW d \in performed', d.exp > now  PROVE d \in results'
      <3>1. CASE d = e
        BY <1>1, <1>3, <2>2, <3>1 DEF Timely
      <3>2. CASE d \in performed
        <4>1. d \in results
          BY <2>2, <3>2 DEF Globals, ResultsAreCommitted
        <4>2. CASE d.key = e.key
          BY <1>1, <1>2, <2>2, <3>2, <4>2 DEF Timely
        <4> QED  BY <1>3, <4>1, <4>2
      <3> QED  BY <1>3, <3>1, <3>2
    <2> QED  BY <2>1, <2>2 DEF ResultsAreCommitted
  <1>7. DrainIsFinal'
    BY DEF Globals, DrainIsFinal
  <1>8. RetirementIsFinal'
    <2> SUFFICES ASSUME NEW v \in retired
                 PROVE  /\ ~SharedHeld(v)'
                        /\ \A r \in results' : r.ver = v => r.exp <= now
      BY DEF RetirementIsFinal
    <2>1. v \in Versions /\ ~SharedHeld(v) /\ Ending(v)
      BY DEF Globals, RetirementIsFinal, TypeOK, Ending
    <2>2. e.ver = v => e.exp <= now
      BY <2>1
    <2> QED  BY <1>3, <2>1, <2>2 DEF Globals, RetirementIsFinal
  <1>9. PgAtMostOnce'
    BY <1>3 DEF Globals, PgAtMostOnce, Timely
  <1>10. OperatorIsToldTheTruth'
    BY <1>8 DEF Globals, OperatorIsToldTheTruth, RetirementIsFinal
  <1>11. ASSUME NEW o \in orphans'  PROVE OrphanIsSound(o)'
    <2>1. o \in orphans /\ o.ver \in Versions /\ OrphanIsSound(o)
      <3>1. o \in orphans
        OBVIOUS
      <3>2. o.ver \in Versions
        BY <3>1 DEF TypeOK, Orphan
      <3> QED  BY <3>1, <3>2 DEF Globals
    <2>2. \A f \in o.effect : o.kind = "complete" /\ f.ver = o.ver /\ Timely(f)'
      BY <1>3, <2>1 DEF OrphanIsSound, Timely
    <2>3. ASSUME o.kind = "retire"  PROVE e.ver = o.ver => e.exp <= now
      <3>1. Ending(o.ver)
        BY <2>1, <2>3 DEF Ending
      <3> QED  BY <3>1
    <2> QED  BY <1>3, <2>1, <2>2, <2>3 DEF OrphanIsSound
  <1> QED  BY <1>5, <1>6, <1>7, <1>8, <1>9, <1>10, <1>11 DEF Globals

LEMMA EffectTyped ==
    ASSUME StoreTyped, NEW e \in Effect, TakeEffect(e)
    PROVE  performed' \subseteq Effect /\ results' \subseteq Effect
  BY DEF StoreTyped, TakeEffect, Row

(***************************************************************************)
(* Everything else that moves the store: results are only removed, and     *)
(* only when they are expired; a version is newly shared only while it is  *)
(* usable, newly exclusive, drained or retired only without a sharer.      *)
(***************************************************************************)
LEMMA GlobalsMove ==
    ASSUME TypeOK, Globals, UNCHANGED <<now, performed>>,
           results' \subseteq results, \A r \in results \ results' : ~(r.exp > now),
           \A v \in Versions : disabled[v] # "" => disabled'[v] # "",
           \A v \in Versions : SharedHeld(v)' => SharedHeld(v) \/ (~ExclusiveHeld(v) /\ Usable(v)),
           \A v \in Versions : ExclusiveHeld(v)' => ExclusiveHeld(v) \/ ~SharedHeld(v)',
           \A v \in Versions : drainedAt'[v] # Never =>
              drainedAt[v] # Never \/ (disabled'[v] # "" /\ ~SharedHeld(v)'),
           \A v \in retired' :
              v \in retired \/ (~SharedHeld(v)' /\ \A r \in results' : r.ver # v),
           \A o \in orphans' : o \in orphans \/ OrphanIsSound(o)',
           OperatorIsToldTheTruth'
    PROVE  Globals'
  <1>1. LocksExclude'
    BY DEF Globals, LocksExclude
  <1>2. ResultsAreCommitted'
    <2>1. ASSUME NEW d \in performed, d.exp > now  PROVE d \in results'
      <3>1. d \in results
        BY <2>1 DEF Globals, ResultsAreCommitted
      <3> QED  BY <2>1, <3>1
    <2> QED  BY <2>1 DEF Globals, ResultsAreCommitted
  <1>3. DrainIsFinal'
    BY DEF Globals, DrainIsFinal, Usable
  <1>4. RetirementIsFinal'
    BY DEF Globals, RetirementIsFinal, Usable, TypeOK
  <1>5. PgAtMostOnce'
    BY DEF Globals, PgAtMostOnce
  <1>6. ASSUME NEW o \in orphans'  PROVE OrphanIsSound(o)'
    <2>1. CASE o \in orphans
      <3>1. o.ver \in Versions /\ OrphanIsSound(o)
        BY <2>1 DEF TypeOK, Orphan, Globals
      <3> QED  BY <3>1 DEF OrphanIsSound, Timely
    <2> QED  BY <2>1
  <1> QED  BY <1>1, <1>2, <1>3, <1>4, <1>5, <1>6 DEF Globals

\* What is told stays true while nothing is undone.
LEMMA ToldStays ==
    ASSUME TypeOK, Globals, UNCHANGED now,
           NEW what, NEW ver, told' \subseteq told \cup {<<what, ver>>},
           \A v \in Versions : disabled[v] # "" => disabled'[v] # "",
           \A v \in Versions : drainedAt[v] # Never => drainedAt'[v] # Never,
           retired \subseteq retired', results' \subseteq results,
           <<what, ver>> \in told' =>
              \/ <<what, ver>> \in told
              \/ what = "disable" /\ disabled'[ver] # ""
              \/ what = "drain" /\ drainedAt'[ver] # Never
              \/ what = "retire" /\ ver \in retired' /\
                    \A r \in results' : r.ver = ver => r.exp <= now
    PROVE  OperatorIsToldTheTruth'
  <1> SUFFICES ASSUME NEW v \in Versions
      PROVE  /\ <<"disable", v>> \in told' => disabled'[v] # ""
             /\ <<"drain", v>> \in told' => drainedAt'[v] # Never
             /\ <<"retire", v>> \in told' => v \in retired' /\
                   \A r \in results' : r.ver = v => r.exp <= now
    BY DEF OperatorIsToldTheTruth
  <1>1. ASSUME <<"disable", v>> \in told'  PROVE disabled'[v] # ""
    BY <1>1 DEF Globals, OperatorIsToldTheTruth
  <1>2. ASSUME <<"drain", v>> \in told'  PROVE drainedAt'[v] # Never
    BY <1>2 DEF Globals, OperatorIsToldTheTruth
  <1>3. ASSUME <<"retire", v>> \in told'
        PROVE  /\ v \in retired'
               /\ \A r \in results' : r.ver = v => r.exp <= now
    BY <1>3 DEF Globals, OperatorIsToldTheTruth
  <1> QED  BY <1>1, <1>2, <1>3

\* The threads, while none of them moves.
LEMMA LocalsStay ==
    ASSUME TypeOK, Locals, UNCHANGED <<now, threadVars>>,
           \A p \in Procs : conn[p] = "open" => conn'[p] = "open",
           \A p \in Procs : conn'[p] = "down" => conn[p] = "down",
           \A p \in Procs : conn[p] # "down" => ring'[p] = ring[p],
           \A u \in Threads : pc[u] \in InTransaction /\ Home[u] \in registered =>
              Home[u] \in registered',
           OrphanEffects' \subseteq OrphanEffects, performed \subseteq performed',
           \A u \in Threads : pc[u] = "commit" =>
              \A d \in performed' \ performed : d.key # req[u].key
    PROVE  Locals'
  <1>1. \A u \in Threads : Home[u] \in Procs
    BY Constants
  <1>2. UNCHANGED <<pc, req, rsv, pending, reply>>
    BY DEF threadVars
  <1>3. Sessions' /\ Reserved'
    BY <1>1, <1>2 DEF Locals, Sessions, Reserved
  <1>4. KeysAreHeldOnce'
    BY <1>2 DEF Locals, KeysAreHeldOnce
  <1>5. PgReplyIsCommitted'
    BY <1>2 DEF Locals, PgReplyIsCommitted
  <1>6. ASSUME NEW u \in Threads  PROVE PendingIsSound(u)'
    <2>1. pc[u] = "commit" => conn[Home[u]] # "down" /\ pc[u] \in InTransaction
      BY DEF Locals, Sessions, InTransaction
    <2> QED  BY <1>1, <1>2, <2>1 DEF Locals, PendingIsSound, Timely
  <1> QED  BY <1>3, <1>4, <1>5, <1>6 DEF Locals

LEMMA CommitStep ==
    ASSUME IInv, Punctuality, NEW t \in Threads, Commit(t)
    PROVE  IInv'
  <1>1. /\ ThreadTyped /\ SessionTyped /\ StoreTyped /\ OperatorTyped /\ TypeOK
        /\ Locals /\ Globals /\ pc[t] = "commit" /\ pc[t] \in InTransaction
    BY IInvParts DEF Commit, IInv, InTransaction
  <1>2. UNCHANGED <<now, versionVars, ledger, claimed, ring, registered, op, told>>
    BY DEF Commit
  <1>3. OperatorTyped' /\ Alone(t) /\ conn[Home[t]] = "open" /\ Home[t] \in Procs
    BY <1>1, <1>2, OperatorStays, Constants DEF Locals, Sessions, Alone
  <1>4. PICK e \in pending[t] :
          \/ TakeEffect(e) /\ Answer(t, Response(e)) /\ UNCHANGED orphans
          \/ GiveUp(t) /\ UNCHANGED <<performed, results, orphans>>
          \/ /\ orphans' = orphans \cup {[kind |-> "complete", effect |-> {e},
                                          ver |-> ring[Home[t]].active, at |-> e.at,
                                          lock |-> Attestation(Home[t])]}
             /\ LoseCommit(t)
             /\ UNCHANGED <<performed, results>>
    BY DEF Commit
  <1>5. /\ e \in Effect /\ e.key = req[t].key /\ e.fp = req[t].fp
        /\ e.ver = ring[Home[t]].active /\ Timely(e)
    BY <1>1 DEF ThreadTyped, Locals, PendingIsSound
  <1>6. /\ Home[t] \in registered => SharedHeld(e.ver)
        /\ e.ver \in Versions /\ e.at \in Nat
    BY <1>3, <1>5 DEF SharedHeld, Effect
  <1>a. Ending(e.ver) => e.exp <= now
    <2>1. Undecided(e)
      BY <1>1 DEF Undecided
    <2> QED  BY <1>5, <2>1, LateIsSpent
  <1>7. \A u \in Threads \ {t} : pc[u] \in InTransaction => req[u].key # e.key
    BY <1>1, <1>5 DEF Locals, KeysAreHeldOnce
  <1>8. CASE GiveUp(t) /\ UNCHANGED <<performed, results, orphans>>
    <2>1. StoreTyped'
      BY <1>1, <1>2, <1>8, StoreStays DEF rowVars
    <2> QED  BY <1>1, <1>2, <1>3, <1>8, <2>1, GivenUp, EndsTyped, QuietStep DEF versionVars
  <1>9. CASE TakeEffect(e) /\ Answer(t, Response(e)) /\ UNCHANGED orphans
    <2>1. Response(e) = {e} /\ e \in performed' /\ performed \subseteq performed'
          /\ performed' = performed \cup {e}
      BY <1>9 DEF Response, TakeEffect
    <2>2. Ends(t)
      BY <1>5, <1>9, <2>1, Constants DEF Ends, Answer
    <2>3. ThreadTyped' /\ SessionTyped'
      BY <1>1, <1>2, <2>2, EndsTyped
    <2>4. StoreTyped'
      BY <1>1, <1>2, <1>5, <1>9, EffectTyped DEF StoreTyped, versionVars
    <2>5. /\ pc'[t] = "idle" /\ UNCHANGED <<req, conn>> /\ \A u \in Threads \ {t} : pc'[u] = pc[u]
      BY <1>1, <1>9 DEF Answer, Finish, ThreadTyped
    <2>6. KeysAreHeldOnce'
      BY <1>1, <1>9, <2>5 DEF Locals, KeysAreHeldOnce, OrphanEffects, InTransaction
    <2>7. OthersUnaffected(t)
      BY <1>7, <2>1 DEF OthersUnaffected, InTransaction
    <2>8. Locals'
      BY <1>1, <1>2, <1>3, <2>2, <2>6, <2>7, EndsCore
    <2>9. \A v \in Versions : SharedHeld(v)' => SharedHeld(v)
      BY <1>2, <1>9, <2>5 DEF SharedHeld, OrphanEffects
    <2>10. \A o \in orphans' : \A f \in o.effect : f.key # e.key
      BY <1>1, <1>5, <1>9 DEF Locals, KeysAreHeldOnce, OrphanEffects, Globals, OrphanIsSound
    <2>11. Globals'
      BY <1>1, <1>2, <1>5, <1>a, <1>9, <2>9, <2>10, EffectGlobals DEF versionVars
    <2> QED  BY <1>3, <2>3, <2>4, <2>8, <2>11, TypePartsNext DEF IInv
  <1>10. CASE /\ orphans' = orphans \cup {[kind |-> "complete", effect |-> {e},
                                           ver |-> ring[Home[t]].active, at |-> e.at,
                                           lock |-> Attestation(Home[t])]}
              /\ LoseCommit(t)
              /\ UNCHANGED <<performed, results>>
    <2>1. PICK o : o = [kind |-> "complete", effect |-> {e},
                        ver |-> ring[Home[t]].active, at |-> e.at,
                        lock |-> Attestation(Home[t])]
      OBVIOUS
    <2>2. /\ o \in Orphan /\ o.kind = "complete" /\ o.effect = {e} /\ o.ver = e.ver
          /\ orphans' = orphans \cup {o} /\ (o.lock = "held" => Home[t] \in registered)
      BY <1>5, <1>6, <1>10, <2>1 DEF Orphan, Attestation
    <2>3. Ends(t)
      BY <1>10, GivenUp
    <2>4. ThreadTyped' /\ SessionTyped'
      BY <1>1, <1>2, <2>3, EndsTyped
    <2>5. StoreTyped'
      BY <1>1, <1>2, <1>10, <2>2 DEF StoreTyped, versionVars
    <2>6. /\ pc'[t] = "idle" /\ UNCHANGED req /\ \A u \in Threads \ {t} : pc'[u] = pc[u]
      BY <1>1, <1>10 DEF LoseCommit, Finish, ThreadTyped
    <2>7. OrphanEffects' = OrphanEffects \cup {o}
      BY <2>2 DEF OrphanEffects
    <2>8. KeysAreHeldOnce'
      <3>1. \A u, w \in Threads :
              pc'[u] \in InTransaction /\ pc'[w] \in InTransaction /\ req'[u].key = req'[w].key
                => u = w
        BY <1>1, <2>6 DEF Locals, KeysAreHeldOnce, InTransaction
      <3>2. \A u \in Threads, q \in OrphanEffects' : \A f \in q.effect :
              pc'[u] \in InTransaction => f.key # req'[u].key
        BY <1>1, <1>7, <2>2, <2>6, <2>7 DEF Locals, KeysAreHeldOnce, InTransaction
      <3>3. \A q \in OrphanEffects : \A f \in q.effect : f.key # e.key
        BY <1>1, <1>5 DEF Locals, KeysAreHeldOnce
      <3>4. \A q, w \in OrphanEffects' : \A f \in q.effect, g \in w.effect :
              f.key = g.key => q = w
        BY <1>1, <2>2, <2>7, <3>3 DEF Locals, KeysAreHeldOnce
      <3> QED  BY <3>1, <3>2, <3>4 DEF KeysAreHeldOnce
    <2>9. Locals'
      BY <1>1, <1>2, <1>3, <1>10, <2>3, <2>8, EndsCore DEF OthersUnaffected
    <2>10. \A v \in Versions : SharedHeld(v)' => SharedHeld(v)
      <3>1. \A q \in Procs : conn'[q] = "open" => conn[q] = "open"
        BY <1>1, <1>10 DEF LoseCommit, Quarantine, SessionTyped
      <3> QED  BY <1>2, <1>6, <2>2, <2>7, <3>1 DEF SharedHeld
    <2>11. OrphanCommands' = OrphanCommands
      BY <2>2 DEF OrphanCommands, Commands
    <2>12. \A v \in Versions : ExclusiveHeld(v)' => ExclusiveHeld(v)
      BY <1>2, <2>11 DEF ExclusiveHeld
    <2>13. OrphanIsSound(o)'
      BY <1>2, <1>5, <1>10, <2>2 DEF OrphanIsSound, Timely
    <2>14. OperatorIsToldTheTruth'
      BY <1>1, <1>2, <1>10 DEF Globals, OperatorIsToldTheTruth, versionVars
    <2>15. Globals'
      BY <1>1, <1>2, <1>10, <2>2, <2>10, <2>12, <2>13, <2>14, GlobalsMove DEF versionVars
    <2> QED  BY <1>3, <2>4, <2>5, <2>9, <2>15, TypePartsNext DEF IInv
  <1> QED  BY <1>4, <1>8, <1>9, <1>10

\* The server's verdict on a transaction nobody waits for.
LEMMA ServerResolvesStep ==
    ASSUME IInv, Punctuality, NEW o \in orphans, ServerResolves(o)
    PROVE  IInv'
  <1>1. /\ ThreadTyped /\ SessionTyped /\ StoreTyped /\ OperatorTyped /\ TypeOK
        /\ Locals /\ Globals /\ OrphanIsSound(o)
    BY IInvParts DEF IInv, Globals
  <1>2. /\ UNCHANGED <<now, slots, disabled, ledger, claimed, conn, ring, registered, threadVars, op, told>>
        /\ orphans' = orphans \ {o} /\ o \in Orphan
    BY <1>1 DEF ServerResolves, StoreTyped
  <1>3. ThreadTyped' /\ SessionTyped' /\ OperatorTyped'
    BY <1>1, <1>2 DEF ThreadTyped, SessionTyped, OperatorTyped, threadVars
  <1>4. OrphanEffects' \subseteq OrphanEffects /\ OrphanCommands' \subseteq OrphanCommands
    BY <1>2 DEF OrphanEffects, OrphanCommands
  <1>5. \A v \in Versions : /\ SharedHeld(v)' => SharedHeld(v)
                            /\ ExclusiveHeld(v)' => ExclusiveHeld(v)
    BY <1>2, <1>4 DEF SharedHeld, ExclusiveHeld
  <1>6. o.ver \in Versions /\ o.at \in Nat /\ o.effect \subseteq Effect
    BY <1>2 DEF Orphan
  <1>7. ASSUME o.kind \in {"drain", "retire"}  PROVE ~SharedHeld(o.ver)
    <2>1. o \in OrphanCommands
      BY <1>7 DEF OrphanCommands, Commands
    <2>2. ExclusiveHeld(o.ver)
      BY <2>1 DEF ExclusiveHeld
    <2> QED  BY <1>1, <1>6, <2>2 DEF Globals, LocksExclude
  <1>8. ASSUME UNCHANGED performed  PROVE Locals'
    BY <1>1, <1>2, <1>4, <1>8, LocalsStay
  <1>9. CASE UNCHANGED <<drainedAt, retired, results, performed>>
    <2>1. StoreTyped'
      BY <1>1, <1>2, <1>9 DEF StoreTyped
    <2>2. OperatorIsToldTheTruth'
      BY <1>1, <1>2, <1>9 DEF Globals, OperatorIsToldTheTruth
    <2>3. Globals'
      BY <1>1, <1>2, <1>5, <1>9, <2>2, GlobalsMove
    <2> QED  BY <1>3, <1>8, <1>9, <2>1, <2>3, TypePartsNext DEF IInv
  <1>10. ASSUME o.kind = "complete", NEW e \in o.effect, TakeEffect(e), UNCHANGED <<drainedAt, retired>>
         PROVE  IInv'
    <2>1. e \in Effect /\ e.ver = o.ver /\ Timely(e) /\ o \in OrphanEffects
      BY <1>1, <1>6, <1>10 DEF OrphanIsSound, OrphanEffects
    <2>2. Ending(e.ver) => e.exp <= now
      <3>1. Undecided(e)
        BY <1>10 DEF Undecided
      <3> QED  BY <2>1, <3>1, LateIsSpent
    <2>3. performed' = performed \cup {e}
      BY <1>10 DEF TakeEffect
    <2>4. \A u \in Threads : pc[u] = "commit" => \A d \in performed' \ performed : d.key # req[u].key
      BY <1>1, <2>1, <2>3 DEF Locals, KeysAreHeldOnce, InTransaction
    <2>5. Locals'
      BY <1>1, <1>2, <1>4, <2>3, <2>4, LocalsStay
    <2>6. ASSUME NEW w \in orphans', NEW f \in w.effect  PROVE f.key # e.key
      <3>1. w \in OrphanEffects /\ w # o
        BY <1>1, <1>2, <2>6 DEF Globals, OrphanIsSound, OrphanEffects
      <3> QED  BY <1>1, <2>1, <2>6, <3>1 DEF Locals, KeysAreHeldOnce
    <2>7. Globals'
      BY <1>1, <1>2, <1>5, <1>10, <2>1, <2>2, <2>6, EffectGlobals
    <2>8. StoreTyped'
      BY <1>1, <1>2, <1>10, <2>1, EffectTyped DEF StoreTyped
    <2> QED  BY <1>3, <2>5, <2>7, <2>8, TypePartsNext DEF IInv
  <1>11. CASE /\ o.kind = "drain"
              /\ drainedAt' = [drainedAt EXCEPT ![o.ver] = IF @ = Never THEN o.at ELSE @]
              /\ UNCHANGED <<retired, results, performed>>
    <2>1. \A v \in Versions : v # o.ver => drainedAt'[v] = drainedAt[v]
      BY <1>1, <1>11 DEF StoreTyped
    <2>2. \A v \in Versions : drainedAt[v] # Never => drainedAt'[v] # Never
      BY <1>1, <1>11 DEF StoreTyped
    <2>3. drainedAt' \in [Versions -> Nat \cup {Never}]
      BY <1>1, <1>6, <1>11 DEF StoreTyped
    <2>4. StoreTyped'
      BY <1>1, <1>2, <1>11, <2>3 DEF StoreTyped
    <2>5. ~SharedHeld(o.ver)' /\ disabled'[o.ver] # ""
      BY <1>1, <1>2, <1>5, <1>6, <1>7, <1>11 DEF OrphanIsSound
    <2>6. OperatorIsToldTheTruth'
      BY <1>1, <1>2, <1>11, <2>2 DEF Globals, OperatorIsToldTheTruth
    <2>7. Globals'
      BY <1>1, <1>2, <1>5, <1>11, <2>1, <2>5, <2>6, GlobalsMove
    <2> QED  BY <1>3, <1>8, <1>11, <2>4, <2>7, TypePartsNext DEF IInv
  <1>12. CASE /\ o.kind = "retire" /\ retired' = retired \cup {o.ver}
              /\ results' = {r \in results : r.ver # o.ver}
              /\ UNCHANGED <<drainedAt, performed>>
    <2>1. StoreTyped'
      BY <1>1, <1>2, <1>6, <1>12 DEF StoreTyped
    <2>2. ASSUME NEW r \in results \ results'  PROVE ~(r.exp > now)
      <3>1. r.exp \in Nat /\ now \in Nat
        BY <1>1 DEF StoreTyped, Effect
      <3>2. r.exp <= now
        BY <1>1, <1>12 DEF OrphanIsSound
      <3> QED  BY <3>1, <3>2
    <2>3. ~SharedHeld(o.ver)' /\ \A r \in results' : r.ver # o.ver
      BY <1>5, <1>6, <1>7, <1>12
    <2>4. OperatorIsToldTheTruth'
      BY <1>1, <1>2, <1>12 DEF Globals, OperatorIsToldTheTruth
    <2>5. Globals'
      BY <1>1, <1>2, <1>5, <1>12, <2>2, <2>3, <2>4, GlobalsMove
    <2> QED  BY <1>3, <1>8, <1>12, <2>1, <2>5, TypePartsNext DEF IInv
  <1> QED  BY <1>9, <1>10, <1>11, <1>12 DEF ServerResolves

-----------------------------------------------------------------------------
(***************************************************************************)
(* The steps of a process.                                                 *)
(***************************************************************************)
\* What the end of a session leaves of the requests of its process.
LEMMA DroppedTyped ==
    ASSUME ThreadTyped, NEW dropped, DropRequests(dropped)
    PROVE  ThreadTyped'
  <1>1. "idle" \in Stages /\ Unavailable \in Replies /\ 0 \in Nat
    BY Constants DEF Stages
  <1>2. pc' \in [Threads -> Stages] /\ req' \in [Threads -> Requests] /\ epoch' \in [Threads -> Nat]
    BY <1>1 DEF ThreadTyped, DropRequests
  <1>3. /\ rsv' \in [Threads -> SUBSET Reservation] /\ pending' \in [Threads -> SUBSET Effect]
        /\ reply' \in [Threads -> Replies]
    BY <1>1 DEF ThreadTyped, DropRequests
  <1> QED  BY <1>2, <1>3 DEF ThreadTyped

LEMMA DropStep ==
    ASSUME IInv, NEW p \in Procs, Break(p) \/ Stop(p)
    PROVE  IInv'
  <1>1. ThreadTyped /\ SessionTyped /\ StoreTyped /\ OperatorTyped /\ TypeOK /\ Locals /\ Globals
    BY IInvParts DEF IInv
  <1>2. UNCHANGED <<now, versionVars, rowVars, orphans, op, told, performed>>
    BY DEF Break, Stop
  <1>3. PICK dropped \in SUBSET {u \in Threads : Home[u] = p} :
          /\ DropRequests(dropped)
          /\ \A u \in Threads : Home[u] = p /\ pc[u] \in InTransaction => u \in dropped
          /\ \/ conn' = [conn EXCEPT ![p] = "none"] /\ UNCHANGED <<ring, registered>>
             \/ /\ conn' = [conn EXCEPT ![p] = "down"] /\ ring' = [ring EXCEPT ![p] = NoRing]
                /\ registered' = registered \ {p}
                /\ \A u \in Threads : Home[u] = p => u \in dropped
    BY DEF Break, Stop
  <1>4. /\ StoreTyped' /\ OperatorTyped' /\ ThreadTyped'
        /\ conn'[p] # "open" /\ \A q \in Procs \ {p} : conn'[q] = conn[q] /\ ring'[q] = ring[q]
        /\ \A q \in registered : q # p => q \in registered'
        /\ registered' \subseteq registered
    BY <1>1, <1>2, <1>3, StoreStays, OperatorStays, DroppedTyped, Constants DEF SessionTyped
  <1>5. SessionTyped'
    BY <1>1, <1>3, Constants DEF SessionTyped, ConnStates
  <1>6. \A u \in Threads : Home[u] \in Procs
    BY Constants
  <1>7. ASSUME NEW u \in Threads
        PROVE  /\ UNCHANGED req
               /\ \/ /\ pc'[u] = "idle" /\ rsv'[u] = {} /\ reply'[u] = {} /\ Home[u] = p
                  \/ /\ pc'[u] = pc[u] /\ rsv'[u] = rsv[u] /\ pending'[u] = pending[u]
                     /\ reply'[u] = reply[u]
                     /\ Home[u] = p => u \notin dropped /\ pc[u] \notin InTransaction
    BY <1>3 DEF DropRequests, Unavailable
  <1>8. \A u \in Threads : pc'[u] \in InTransaction =>
             pc[u] \in InTransaction /\ Home[u] # p /\ req'[u] = req[u] /\ pc'[u] = pc[u]
             /\ pending'[u] = pending[u]
    BY <1>7 DEF InTransaction
  <1>9. Sessions'
    BY <1>1, <1>4, <1>6, <1>8 DEF Locals, Sessions
  <1>10. Reserved'
    <2> SUFFICES ASSUME NEW u \in Threads
                 PROVE  /\ conn'[Home[u]] = "down" => rsv'[u] = {}
                        /\ \A n \in rsv'[u] : n.ver = ring'[Home[u]].active
      BY DEF Reserved
    <2>1. CASE Home[u] # p
      BY <1>1, <1>4, <1>6, <1>7, <2>1 DEF Locals, Reserved
    <2>2. CASE Home[u] = p
      <3>1. CASE rsv'[u] = {}
        BY <3>1
      <3>2. CASE rsv'[u] = rsv[u] /\ u \notin dropped
        BY <1>1, <1>3, <2>2, <3>2 DEF Locals, Reserved, SessionTyped
      <3> QED  BY <1>7, <2>2, <3>1, <3>2
    <2> QED  BY <2>1, <2>2
  <1>11. KeysAreHeldOnce'
    BY <1>1, <1>2, <1>8 DEF Locals, KeysAreHeldOnce, OrphanEffects
  <1>12. PgReplyIsCommitted'
    BY <1>1, <1>2, <1>3, <1>7 DEF Locals, PgReplyIsCommitted
  <1>13. ASSUME NEW u \in Threads  PROVE PendingIsSound(u)'
    <2>1. CASE pc'[u] = "commit"
      <3>1. pc[u] = "commit" /\ Home[u] # p /\ req'[u] = req[u] /\ pending'[u] = pending[u]
        BY <1>8, <2>1 DEF InTransaction
      <3> QED  BY <1>1, <1>2, <1>4, <1>6, <3>1 DEF Locals, PendingIsSound, Timely
    <2> QED  BY <2>1 DEF PendingIsSound
  <1>14. Locals'
    BY <1>9, <1>10, <1>11, <1>12, <1>13 DEF Locals
  <1>15. \A v \in Versions : /\ SharedHeld(v)' => SharedHeld(v)
                             /\ ExclusiveHeld(v)' => ExclusiveHeld(v)
    BY <1>1, <1>2, <1>4 DEF SessionTyped, SharedHeld, ExclusiveHeld, OrphanEffects, OrphanCommands
  <1>16. OperatorIsToldTheTruth'
    BY <1>1, <1>2 DEF Globals, OperatorIsToldTheTruth, versionVars, rowVars
  <1>17. Globals'
    BY <1>1, <1>2, <1>15, <1>16, GlobalsMove DEF versionVars, rowVars
  <1> QED  BY <1>4, <1>5, <1>14, <1>17, TypePartsNext DEF IInv

\* A connection opens: the shared lock was free for it, the version usable.
LEMMA OpenStep ==
    ASSUME IInv, NEW p \in Procs, NEW keyring \in Keyrings, conn[p] # "open",
           p \in registered' => ~ExclusiveHeld(keyring.active), Usable(keyring.active),
           registered' \in {registered, registered \cup {p}},
           conn' = [conn EXCEPT ![p] = "open"], ring' = [ring EXCEPT ![p] = keyring],
           conn[p] # "down" => keyring = ring[p],
           UNCHANGED <<now, versionVars, rowVars, threadVars, orphans, op, told, performed>>
    PROVE  IInv'
  <1>1. ThreadTyped /\ SessionTyped /\ StoreTyped /\ OperatorTyped /\ TypeOK /\ Locals /\ Globals
    BY IInvParts DEF IInv
  <1>2. StoreTyped' /\ OperatorTyped' /\ ThreadTyped' /\ SessionTyped'
    BY <1>1, StoreStays, OperatorStays DEF ThreadTyped, SessionTyped, threadVars, ConnStates
  <1>3. /\ conn'[p] = "open" /\ ring'[p] = keyring
        /\ \A q \in Procs \ {p} : conn'[q] = conn[q] /\ ring'[q] = ring[q]
    BY <1>1 DEF SessionTyped
  <1>4. OrphanEffects' = OrphanEffects /\ OrphanCommands' = OrphanCommands
    BY DEF OrphanEffects, OrphanCommands
  <1>5. Locals'
    BY <1>1, <1>3, <1>4, LocalsStay
  <1>6. \A v \in Versions : SharedHeld(v)' => SharedHeld(v) \/ (~ExclusiveHeld(v) /\ Usable(v))
    BY <1>3, <1>4 DEF SharedHeld
  <1>7. \A v \in Versions : ExclusiveHeld(v)' => ExclusiveHeld(v)
    BY <1>4 DEF ExclusiveHeld
  <1>8. OperatorIsToldTheTruth'
    BY <1>1 DEF Globals, OperatorIsToldTheTruth, versionVars, rowVars
  <1>9. Globals'
    BY <1>1, <1>6, <1>7, <1>8, GlobalsMove DEF versionVars, rowVars
  <1> QED  BY <1>2, <1>5, <1>9, TypePartsNext DEF IInv

\* The first half of a close: the attestation is given up.
LEMMA ReleaseStep ==
    ASSUME IInv, NEW p \in Procs, Release(p)
    PROVE  IInv'
  <1>1. ThreadTyped /\ SessionTyped /\ StoreTyped /\ OperatorTyped /\ TypeOK /\ Locals /\ Globals
    BY IInvParts DEF IInv
  <1>2. /\ UNCHANGED <<now, versionVars, rowVars, conn, ring, threadVars, orphans, op, told, performed>>
        /\ registered' = registered \ {p}
        /\ \A u \in Threads : pc[u] \in InTransaction => Home[u] # p
    BY DEF Release
  <1>3. StoreTyped' /\ OperatorTyped' /\ ThreadTyped' /\ SessionTyped'
    BY <1>1, <1>2, StoreStays, OperatorStays DEF ThreadTyped, SessionTyped, threadVars
  <1>4. OrphanEffects' = OrphanEffects /\ OrphanCommands' = OrphanCommands
    BY <1>2 DEF OrphanEffects, OrphanCommands
  <1>5. Locals'
    BY <1>1, <1>2, <1>4, LocalsStay
  <1>6. \A v \in Versions : /\ SharedHeld(v)' => SharedHeld(v)
                            /\ ExclusiveHeld(v)' => ExclusiveHeld(v)
    BY <1>2, <1>4 DEF SharedHeld, ExclusiveHeld
  <1>7. OperatorIsToldTheTruth'
    BY <1>1, <1>2 DEF Globals, OperatorIsToldTheTruth, versionVars, rowVars
  <1>8. Globals'
    BY <1>1, <1>2, <1>6, <1>7, GlobalsMove DEF versionVars, rowVars
  <1> QED  BY <1>3, <1>5, <1>8, TypePartsNext DEF IInv

LEMMA ReplaceStep ==
    ASSUME IInv, NEW p \in Procs, Replace(p)
    PROVE  IInv'
  <1>1. ThreadTyped /\ SessionTyped /\ StoreTyped /\ OperatorTyped /\ TypeOK /\ Locals /\ Globals
    BY IInvParts DEF IInv
  <1>2. /\ UNCHANGED <<now, versionVars, rowVars, ring, registered, orphans, op, told, performed>>
        /\ conn[p] = "none"
    BY DEF Replace
  <1>3. StoreTyped' /\ OperatorTyped'
    BY <1>1, <1>2, StoreStays, OperatorStays
  <1>4. CASE /\ p \in registered => ~ExclusiveHeld(ring[p].active)
             /\ Ready(ring[p])
             /\ conn' = [conn EXCEPT ![p] = "open"] /\ UNCHANGED threadVars
    <2>1. ring[p] \in Keyrings /\ ring' = [ring EXCEPT ![p] = ring[p]]
      BY <1>1, <1>2 DEF SessionTyped
    <2>2. Usable(ring[p].active)
      BY <1>4 DEF Ready
    <2> QED  BY <1>2, <1>4, <2>1, <2>2, OpenStep
  <1>5. CASE Quarantine(p) /\ UNCHANGED threadVars
    <2>1. conn'[p] = "none" /\ \A q \in Procs \ {p} : conn'[q] = conn[q]
      BY <1>1, <1>5 DEF Quarantine, SessionTyped
    <2>2. ThreadTyped' /\ SessionTyped'
      BY <1>1, <1>2, <1>5 DEF ThreadTyped, SessionTyped, threadVars, Quarantine, ConnStates
    <2>3. OrphanEffects' = OrphanEffects
      BY <1>2 DEF OrphanEffects
    <2>4. Locals'
      BY <1>1, <1>2, <1>5, <2>1, <2>3, LocalsStay
    <2>5. Still
      BY <1>2, <2>1 DEF Still, versionVars, rowVars
    <2> QED  BY <1>1, <1>3, <2>2, <2>4, <2>5, GlobalsStill, TypePartsNext DEF IInv
  <1>6. ASSUME NEW t \in Threads, Home[t] = p, Finish(t, Unavailable), Quarantine(p)
        PROVE  IInv'
    <2>1. LoseCommit(t)
      BY <1>6 DEF LoseCommit
    <2>2. Ends(t)
      BY <2>1, GivenUp
    <2>3. Alone(t)
      BY <1>1, <1>2, <1>6 DEF Alone, Locals, Sessions
    <2> QED  BY <1>1, <1>2, <1>3, <2>2, <2>3, EndsTyped, QuietStep DEF versionVars, rowVars
  <1> QED  BY <1>4, <1>5, <1>6 DEF Replace

LEMMA CollectStep ==
    ASSUME IInv, NEW p \in Procs, CollectExpired(p)
    PROVE  IInv'
  <1>1. ThreadTyped /\ SessionTyped /\ StoreTyped /\ OperatorTyped /\ TypeOK /\ Locals /\ Globals
    BY IInvParts DEF IInv
  <1>2. UNCHANGED <<now, versionVars, ledger, claimed, conn, ring, registered, threadVars, orphans, op, told,
                    performed>>
    BY DEF CollectExpired
  <1>3. results' \subseteq results /\ \A r \in results \ results' : r.exp <= now
    BY DEF CollectExpired
  <1>4. \A r \in results \ results' : ~(r.exp > now)
    <2>1. \A r \in results : r.exp \in Nat /\ now \in Nat
      BY <1>1 DEF StoreTyped, Effect
    <2> QED  BY <1>3, <2>1
  <1>5. StoreTyped' /\ OperatorTyped' /\ ThreadTyped' /\ SessionTyped'
    BY <1>1, <1>2, <1>3, OperatorStays DEF StoreTyped, ThreadTyped, SessionTyped, threadVars, versionVars
  <1>6. OrphanEffects' = OrphanEffects /\ OrphanCommands' = OrphanCommands
    BY <1>2 DEF OrphanEffects, OrphanCommands
  <1>7. Locals'
    BY <1>1, <1>2, <1>6, LocalsStay
  <1>8. \A v \in Versions : /\ SharedHeld(v)' => SharedHeld(v)
                            /\ ExclusiveHeld(v)' => ExclusiveHeld(v)
    BY <1>2, <1>6 DEF SharedHeld, ExclusiveHeld
  <1>9. OperatorIsToldTheTruth'
    BY <1>1, <1>2, <1>3 DEF Globals, OperatorIsToldTheTruth, versionVars
  <1>10. Globals'
    BY <1>1, <1>2, <1>3, <1>4, <1>8, <1>9, GlobalsMove DEF versionVars
  <1> QED  BY <1>5, <1>7, <1>10, TypePartsNext DEF IInv

-----------------------------------------------------------------------------
(***************************************************************************)
(* The steps of the operator, and of time.                                 *)
(***************************************************************************)
LEMMA OperatorEffects ==
    ASSUME IInv, NEW what, NEW v \in Versions, OperatorIdle,
           Unaltered \/ (May(what, v) /\ Do(what, v) /\ (what # "disable" => ~SharedHeld(v))),
           OperatorTyped', orphans' \subseteq Orphan, OrphanEffects' = OrphanEffects,
           \A o \in orphans' : o \in orphans \/ (OrphanIsSound(o)' /\ Unaltered),
           \A w \in Versions : ExclusiveHeld(w)' => ExclusiveHeld(w) \/ ~SharedHeld(w),
           told' \subseteq told \cup {<<what, v>>},
           <<what, v>> \in told' => <<what, v>> \in told \/ AlreadyDone(what, v) \/ Do(what, v)
    PROVE  IInv'
  <1>1. ThreadTyped /\ SessionTyped /\ StoreTyped /\ OperatorTyped /\ TypeOK /\ Locals /\ Globals
    BY IInvParts DEF IInv
  <1>2. UNCHANGED <<now, slots, ledger, claimed, conn, ring, registered, threadVars, performed>>
    BY DEF OperatorIdle
  <1>3. /\ disabled' \in [Versions -> Reasons]
        /\ \A w \in Versions : disabled[w] # "" => disabled'[w] # ""
    BY <1>1 DEF StoreTyped, Reasons, Unaltered, Do, SetDisabled, SetDrained, SetRetired
  <1>4. /\ drainedAt' \in [Versions -> Nat \cup {Never}]
        /\ \A w \in Versions : drainedAt[w] # Never => drainedAt'[w] # Never
    BY <1>1 DEF StoreTyped, Unaltered, Do, SetDisabled, SetDrained, SetRetired
  <1>5. retired \subseteq retired' /\ retired' \subseteq Versions /\ results' \subseteq results
    BY <1>1 DEF StoreTyped, Unaltered, Do, SetDisabled, SetDrained, SetRetired
  <1>6. ThreadTyped' /\ SessionTyped' /\ StoreTyped'
    BY <1>1, <1>2, <1>3, <1>4, <1>5 DEF StoreTyped, ThreadTyped, SessionTyped, threadVars
  <1>7. Locals'
    BY <1>1, <1>2, LocalsStay
  <1>8. \A w \in Versions : SharedHeld(w)' <=> SharedHeld(w)
    BY <1>2 DEF SharedHeld
  <1>9. ASSUME NEW r \in results \ results'  PROVE ~(r.exp > now)
    <2>1. r.exp \in Nat /\ now \in Nat
      BY <1>1 DEF StoreTyped, Effect
    <2>2. what = "retire" /\ MayRetire(v) /\ r.ver = v
      BY DEF Unaltered, May, Do, SetDisabled, SetDrained, SetRetired
    <2>3. r.exp <= now
      BY <2>2 DEF MayRetire
    <2> QED  BY <2>1, <2>3
  <1>10. ASSUME NEW w \in Versions, drainedAt'[w] # Never
         PROVE  drainedAt[w] # Never \/ (disabled'[w] # "" /\ ~SharedHeld(w)')
    <2>1. CASE drainedAt[w] = Never
      <3>1. w = v /\ what = "drain" /\ MayDrain(v) /\ ~SharedHeld(v)
        BY <1>1, <1>10, <2>1 DEF StoreTyped, Unaltered, May, Do, SetDisabled, SetDrained, SetRetired
      <3> QED  BY <1>3, <1>8, <3>1 DEF MayDrain
    <2> QED  BY <2>1
  <1>11. ASSUME NEW w \in retired', w \notin retired
         PROVE  ~SharedHeld(w)' /\ \A r \in results' : r.ver # w
    <2>1. /\ w = v /\ what = "retire" /\ ~SharedHeld(v) /\ SetRetired(v)
      BY <1>11 DEF Unaltered, May, Do, SetDisabled, SetDrained, SetRetired
    <2> QED  BY <1>8, <2>1 DEF SetRetired
  <1>12. ASSUME <<what, v>> \in told'
         PROVE  \/ <<what, v>> \in told
                \/ what = "disable" /\ disabled'[v] # ""
                \/ what = "drain" /\ drainedAt'[v] # Never
                \/ what = "retire" /\ v \in retired' /\
                      \A r \in results' : r.ver = v => r.exp <= now
    <2>1. CASE AlreadyDone(what, v)
      <3>1. CASE what = "disable" /\ disabled[v] = "rotation"
        BY <1>3, <3>1
      <3>2. CASE what = "drain" /\ drainedAt[v] # Never
        BY <1>4, <3>2
      <3>3. CASE what = "retire" /\ v \in retired
        BY <1>1, <1>5, <3>3 DEF Globals, RetirementIsFinal
      <3> QED  BY <2>1, <3>1, <3>2, <3>3 DEF AlreadyDone
    <2>2. CASE Do(what, v)
      <3>1. CASE what = "disable" /\ SetDisabled(v)
        BY <1>1, <3>1 DEF StoreTyped, SetDisabled
      <3>2. CASE what = "drain" /\ SetDrained(v)
        <4>1. now \in Nat /\ now # Never /\ drainedAt \in [Versions -> Nat \cup {Never}]
          <5>1. now \in Nat /\ drainedAt \in [Versions -> Nat \cup {Never}]
            BY <1>1 DEF StoreTyped
          <5> QED  BY <5>1, NeverIsNoTime
        <4>2. drainedAt' = [drainedAt EXCEPT ![v] = IF drainedAt[v] = Never THEN now ELSE drainedAt[v]]
          BY <3>2 DEF SetDrained
        <4> QED  BY <3>2, <4>1, <4>2
      <3>3. CASE what = "retire" /\ SetRetired(v)
        BY <3>3 DEF SetRetired
      <3> QED  BY <2>2, <3>1, <3>2, <3>3 DEF Do
    <2> QED  BY <1>12, <2>1, <2>2
  <1>13. OperatorIsToldTheTruth'
    BY <1>1, <1>2, <1>3, <1>4, <1>5, <1>12, ToldStays
  <1>14. Globals'
    BY <1>1, <1>2, <1>3, <1>5, <1>8, <1>9, <1>10, <1>11, <1>13, GlobalsMove
  <1> QED  BY <1>6, <1>7, <1>14, TypePartsNext DEF IInv

LEMMA BeginStep ==
    ASSUME IInv, NEW what \in Commands, NEW v \in Versions, Begin(what, v)
    PROVE  IInv'
  <1>1. ThreadTyped /\ SessionTyped /\ StoreTyped /\ OperatorTyped
    BY IInvParts
  <1>2. /\ UNCHANGED <<now, versionVars, rowVars, conn, ring, registered, threadVars, orphans, told, performed>>
        /\ op' = [what |-> what, ver |-> v, stage |-> "apply"]
        /\ what # "disable" => ~SharedHeld(v)
    BY DEF Begin, ExclusiveFree
  <1>3. OperatorIdle /\ Unaltered
    BY <1>2 DEF OperatorIdle, Unaltered, versionVars, rowVars
  <1>4. OperatorTyped'
    BY <1>1, <1>2 DEF OperatorTyped
  <1>5. orphans' \subseteq Orphan /\ OrphanEffects' = OrphanEffects /\ OrphanCommands' = OrphanCommands
    BY <1>1, <1>2 DEF StoreTyped, OrphanEffects, OrphanCommands
  <1>6. \A w \in Versions : ExclusiveHeld(w)' => ExclusiveHeld(w) \/ ~SharedHeld(w)
    BY <1>2, <1>5 DEF ExclusiveHeld
  <1> QED  BY <1>2, <1>3, <1>4, <1>5, <1>6, OperatorEffects

\* A command ends, or goes on to recover.
LEMMA CommandMoves ==
    ASSUME OperatorTyped, op.stage # "idle", orphans' = orphans,
           (\E success \in BOOLEAN : OperatorDone(success))
             \/ (op' = [op EXCEPT !.stage = "recover"] /\ UNCHANGED told)
    PROVE  \A w \in Versions : ExclusiveHeld(w)' => ExclusiveHeld(w)
  <1>1. op'.stage # "apply"
    BY DEF OperatorTyped, OperatorDone, NoCommand
  <1>2. OrphanCommands' = OrphanCommands
    BY DEF OrphanCommands
  <1> QED  BY <1>1, <1>2 DEF ExclusiveHeld

LEMMA DoneTyped ==
    ASSUME OperatorTyped, NEW success \in BOOLEAN, OperatorDone(success),
           success => op.what \in Commands
    PROVE  OperatorTyped' /\ told' \subseteq told \cup {<<op.what, op.ver>>}
  BY Constants DEF OperatorTyped, OperatorDone

LEMMA DoneCommand ==
    ASSUME NEW what, NEW v, May(what, v) \/ AlreadyDone(what, v)
    PROVE  what \in Commands
  BY DEF May, AlreadyDone, Commands

LEMMA ApplyStep ==
    ASSUME IInv, Apply
    PROVE  IInv'
  <1>1. /\ ThreadTyped /\ SessionTyped /\ StoreTyped /\ OperatorTyped /\ Globals
        /\ op.ver \in Versions /\ op.stage = "apply" /\ OperatorIdle
    BY IInvParts DEF Apply, OperatorTyped, IInv
  <1>2. op.what # "disable" => ~SharedHeld(op.ver)
    BY <1>1 DEF Globals, LocksExclude, ExclusiveHeld
  <1>3. ASSUME UNCHANGED orphans
        PROVE  orphans' \subseteq Orphan /\ OrphanEffects' = OrphanEffects
    BY <1>1, <1>3 DEF StoreTyped, OrphanEffects
  <1>4. CASE AlreadyDone(op.what, op.ver) /\ OperatorDone(TRUE) /\ Unaltered /\ UNCHANGED orphans
    <2>1. op.what \in Commands
      BY <1>4, DoneCommand
    <2>2. OperatorTyped' /\ told' \subseteq told \cup {<<op.what, op.ver>>}
      BY <1>1, <1>4, <2>1, DoneTyped
    <2>3. \A w \in Versions : ExclusiveHeld(w)' => ExclusiveHeld(w)
      BY <1>1, <1>4, CommandMoves
    <2> QED  BY <1>1, <1>3, <1>4, <2>2, <2>3, OperatorEffects
  <1>5. CASE OperatorDone(FALSE) /\ Unaltered /\ UNCHANGED orphans
    <2>1. OperatorTyped' /\ told' = told
      BY <1>1, <1>5, DoneTyped DEF OperatorDone
    <2>2. \A w \in Versions : ExclusiveHeld(w)' => ExclusiveHeld(w)
      BY <1>1, <1>5, CommandMoves
    <2> QED  BY <1>1, <1>3, <1>5, <2>1, <2>2, OperatorEffects
  <1>6. CASE May(op.what, op.ver) /\ Do(op.what, op.ver) /\ OperatorDone(TRUE) /\ UNCHANGED orphans
    <2>1. op.what \in Commands
      BY <1>6, DoneCommand
    <2>2. OperatorTyped' /\ told' \subseteq told \cup {<<op.what, op.ver>>}
      BY <1>1, <1>6, <2>1, DoneTyped
    <2>3. \A w \in Versions : ExclusiveHeld(w)' => ExclusiveHeld(w)
      BY <1>1, <1>6, CommandMoves
    <2> QED  BY <1>1, <1>2, <1>3, <1>6, <2>2, <2>3, OperatorEffects
  <1>7. CASE /\ May(op.what, op.ver) /\ op' = [op EXCEPT !.stage = "recover"] /\ UNCHANGED told
             /\ UNCHANGED orphans
             /\ Do(op.what, op.ver) \/ Unaltered
    <2>1. OperatorTyped'
      BY <1>1, <1>7 DEF OperatorTyped
    <2>2. \A w \in Versions : ExclusiveHeld(w)' => ExclusiveHeld(w)
      BY <1>1, <1>7, CommandMoves
    <2> QED  BY <1>1, <1>2, <1>3, <1>7, <2>1, <2>2, OperatorEffects
  <1>8. CASE /\ May(op.what, op.ver) /\ op' = [op EXCEPT !.stage = "recover"] /\ UNCHANGED told
             /\ op.what # "disable" /\ Unaltered
             /\ orphans' = orphans \cup {[kind |-> op.what, ver |-> op.ver, effect |-> {}, at |-> now,
                                          lock |-> "held"]}
    <2>1. PICK nothing : nothing = {}
      OBVIOUS
    <2>2. PICK o : o = [kind |-> op.what, ver |-> op.ver, effect |-> nothing, at |-> now,
                        lock |-> "held"]
      OBVIOUS
    <2>3. /\ o.kind = op.what /\ o.ver = op.ver /\ o.effect = {}
          /\ orphans' = orphans \cup {o} /\ o.kind \in {"drain", "retire"}
      BY <1>8, <2>1, <2>2, DoneCommand DEF Commands
    <2>4. o \in Orphan
      <3>1. now \in Nat /\ nothing \in SUBSET Effect
        BY <1>1, <2>1 DEF StoreTyped
      <3> QED  BY <1>1, <2>2, <2>3, <3>1 DEF Orphan
    <2>5. orphans' \subseteq Orphan /\ OrphanEffects' = OrphanEffects
      BY <1>1, <2>3, <2>4 DEF StoreTyped, OrphanEffects
    <2>6. OrphanIsSound(o)'
      <3>1. UNCHANGED <<now, disabled, results, performed>>
        BY <1>1, <1>8 DEF OperatorIdle, Unaltered
      <3> QED  BY <1>8, <2>3, <3>1 DEF OrphanIsSound, May, MayDrain, MayRetire
    <2>7. OperatorTyped' /\ op'.stage = "recover"
      BY <1>1, <1>8 DEF OperatorTyped
    <2>8. \A w \in Versions : ExclusiveHeld(w)' => ExclusiveHeld(w)
      <3>1. OrphanCommands' = OrphanCommands \cup {o}
        BY <2>3 DEF OrphanCommands, Commands
      <3> QED  BY <1>1, <1>8, <2>3, <2>7, <3>1 DEF ExclusiveHeld
    <2> QED  BY <1>1, <1>8, <2>3, <2>5, <2>6, <2>7, <2>8, OperatorEffects
  <1> QED  BY <1>4, <1>5, <1>6, <1>7, <1>8 DEF Apply

LEMMA RecoverStep ==
    ASSUME IInv, Recover
    PROVE  IInv'
  <1>1. /\ ThreadTyped /\ SessionTyped /\ StoreTyped /\ OperatorTyped /\ Globals
        /\ op.ver \in Versions /\ op.stage # "idle" /\ OperatorIdle /\ UNCHANGED orphans
    BY IInvParts DEF Recover, OperatorTyped, IInv
  <1>2. orphans' \subseteq Orphan /\ OrphanEffects' = OrphanEffects
    BY <1>1 DEF StoreTyped, OrphanEffects
  <1>3. \A w \in Versions : ExclusiveHeld(w)' => ExclusiveHeld(w)
    <2>1. \E success \in BOOLEAN : OperatorDone(success)
      BY DEF Recover
    <2> QED  BY <1>1, <2>1, CommandMoves
  <1>4. CASE OperatorDone(FALSE) /\ Unaltered
    <2>1. OperatorTyped' /\ told' = told
      BY <1>1, <1>4, DoneTyped DEF OperatorDone
    <2> QED  BY <1>1, <1>2, <1>3, <1>4, <2>1, OperatorEffects
  <1>5. CASE AlreadyDone(op.what, op.ver) /\ OperatorDone(TRUE) /\ Unaltered
    <2>1. op.what \in Commands
      BY <1>5, DoneCommand
    <2>2. OperatorTyped' /\ told' \subseteq told \cup {<<op.what, op.ver>>}
      BY <1>1, <1>5, <2>1, DoneTyped
    <2> QED  BY <1>1, <1>2, <1>3, <1>5, <2>2, OperatorEffects
  <1>6. CASE /\ op.what # "disable" => ExclusiveFree(op.ver)
             /\ May(op.what, op.ver) /\ Do(op.what, op.ver)
             /\ OperatorDone(TRUE) \/ OperatorDone(FALSE)
    <2>1. op.what \in Commands
      BY <1>6, DoneCommand
    <2>2. OperatorTyped' /\ told' \subseteq told \cup {<<op.what, op.ver>>}
      BY <1>1, <1>6, <2>1, DoneTyped
    <2>3. op.what # "disable" => ~SharedHeld(op.ver)
      BY <1>6 DEF ExclusiveFree
    <2> QED  BY <1>1, <1>2, <1>3, <1>6, <2>2, <2>3, OperatorEffects
  <1> QED  BY <1>4, <1>5, <1>6 DEF Recover

LEMMA TickStep ==
    ASSUME IInv, Tick
    PROVE  IInv'
  <1>1. /\ ThreadTyped /\ SessionTyped /\ StoreTyped /\ OperatorTyped /\ Locals /\ Globals
        /\ now \in Nat /\ now' = now + 1 /\ now' \in Nat
    <2>1. ThreadTyped /\ SessionTyped /\ StoreTyped /\ OperatorTyped /\ Locals /\ Globals
      BY IInvParts DEF IInv
    <2>2. now \in Nat /\ now' = now + 1
      BY <2>1 DEF Tick, StoreTyped
    <2> QED  BY <2>1, <2>2
  <1>2. UNCHANGED <<versionVars, rowVars, conn, ring, registered, threadVars, orphans, op, told, performed>>
    BY DEF Tick
  <1>3. StoreTyped' /\ OperatorTyped' /\ ThreadTyped' /\ SessionTyped'
    BY <1>1, <1>2, OperatorStays
       DEF StoreTyped, ThreadTyped, SessionTyped, threadVars, versionVars, rowVars
  <1>4. \A e \in Effect : Timely(e) => Timely(e)'
    BY <1>1, <1>2 DEF Timely, Effect
  <1>5. Locals'
    <2>1. Sessions' /\ Reserved' /\ PgReplyIsCommitted'
      BY <1>1, <1>2 DEF Locals, Sessions, Reserved, PgReplyIsCommitted, threadVars
    <2>2. KeysAreHeldOnce'
      BY <1>1, <1>2 DEF Locals, KeysAreHeldOnce, OrphanEffects, threadVars
    <2>3. ASSUME NEW u \in Threads  PROVE PendingIsSound(u)'
      <3>1. \A e \in pending[u] : e \in Effect
        BY <1>1 DEF ThreadTyped
      <3> QED  BY <1>1, <1>2, <1>4, <3>1 DEF Locals, PendingIsSound, threadVars
    <2> QED  BY <2>1, <2>2, <2>3 DEF Locals
  <1>6. Globals'
    <2>1. \A v : (SharedHeld(v)' <=> SharedHeld(v)) /\ (ExclusiveHeld(v)' <=> ExclusiveHeld(v))
      BY <1>2 DEF SharedHeld, ExclusiveHeld, OrphanEffects, OrphanCommands
    <2>a. \A r \in results : r.exp <= now => r.exp <= now'
      <3>1. \A r \in results : r.exp \in Nat
        BY <1>1 DEF StoreTyped, Effect
      <3> QED  BY <1>1, <3>1
    <2>2. LocksExclude' /\ DrainIsFinal' /\ RetirementIsFinal'
      BY <1>1, <1>2, <2>1, <2>a DEF Globals, LocksExclude, DrainIsFinal, RetirementIsFinal,
         versionVars, rowVars
    <2>3. PgAtMostOnce' /\ OperatorIsToldTheTruth'
      BY <1>1, <1>2, <2>a DEF Globals, PgAtMostOnce, OperatorIsToldTheTruth, versionVars, rowVars
    <2>4. ResultsAreCommitted'
      <3>1. \A d \in performed : d.exp \in Nat
        BY <1>1 DEF StoreTyped, Effect
      <3>2. \A d \in performed : d.exp > now + 1 => d.exp > now
        BY <1>1, <3>1
      <3> QED  BY <1>1, <1>2, <3>2 DEF Globals, ResultsAreCommitted, rowVars
    <2>5. ASSUME NEW o \in orphans'  PROVE OrphanIsSound(o)'
      <3>1. o \in orphans /\ OrphanIsSound(o) /\ o.effect \subseteq Effect
        BY <1>1, <1>2 DEF Globals, StoreTyped, Orphan
      <3>2. \A r \in results : r.exp <= now => r.exp <= now + 1
        <4>1. \A r \in results : r.exp \in Nat
          BY <1>1 DEF StoreTyped, Effect
        <4> QED  BY <1>1, <4>1
      <3> QED  BY <1>1, <1>2, <1>4, <3>1, <3>2 DEF OrphanIsSound, versionVars, rowVars
    <2> QED  BY <2>2, <2>3, <2>4, <2>5 DEF Globals
  <1> QED  BY <1>3, <1>5, <1>6, TypePartsNext DEF IInv

-----------------------------------------------------------------------------
LEMMA StoppedStep ==
    ASSUME IInv, UNCHANGED vars
    PROVE  IInv'
  <1>1. /\ UNCHANGED <<now, versionVars, rowVars, conn, ring, registered, threadVars, orphans, op, told, performed>>
        /\ UNCHANGED <<slots, disabled, drainedAt, retired, ledger, claimed, results,
                       pc, req, epoch, rsv, pending, reply>>
    BY DEF vars, versionVars, rowVars, threadVars
  <1>2. TypeOK'
    BY <1>1 DEF IInv, TypeOK
  <1>3. OrphanEffects' = OrphanEffects
    BY <1>1 DEF OrphanEffects
  <1>4. Locals'
    BY <1>1, <1>3, LocalsStay DEF IInv
  <1>5. Still
    BY <1>1 DEF Still
  <1> QED  BY <1>2, <1>4, <1>5, GlobalsStill DEF IInv

LEMMA StartHolds == Init => IInv
  <1> SUFFICES ASSUME Init  PROVE IInv
    OBVIOUS
  <1>1. /\ pc = [t \in Threads |-> "idle"] /\ rsv = [t \in Threads |-> {}]
        /\ reply = [t \in Threads |-> NoReply] /\ conn = [p \in Procs |-> "down"]
        /\ orphans = {} /\ told = {} /\ performed = {} /\ results = {} /\ retired = {}
        /\ drainedAt = [v \in Versions |-> Never] /\ op = NoCommand /\ now = 0
    BY DEF Init
  <1>2. ThreadTyped
    BY Constants DEF Init, ThreadTyped, Stages
  <1>3. SessionTyped
    BY Constants DEF Init, SessionTyped, ConnStates
  <1>4. StoreTyped
    BY DEF Init, StoreTyped, Reasons
  <1>5. OperatorTyped
    BY <1>1, Constants DEF OperatorTyped
  <1>6. NoReply = {} /\ NoCommand.stage = "idle"
    BY DEF NoReply, NoCommand
  <1>7. Locals
    BY <1>1, <1>6 DEF Locals, Sessions, Reserved, KeysAreHeldOnce, OrphanEffects, PgReplyIsCommitted,
       PendingIsSound, InTransaction
  <1>8. \A v : ~ExclusiveHeld(v)
    BY <1>1, <1>6 DEF ExclusiveHeld, OrphanCommands
  <1>9. Globals
    BY <1>1, <1>8 DEF Globals, LocksExclude, ResultsAreCommitted, DrainIsFinal, RetirementIsFinal,
       PgAtMostOnce, OperatorIsToldTheTruth
  <1> QED  BY <1>2, <1>3, <1>4, <1>5, <1>7, <1>9, TypeParts DEF IInv

LEMMA NextHolds ==
    ASSUME IInv, Punctuality, [Next]_vars
    PROVE  IInv'
  <1>1. CASE UNCHANGED vars
    BY <1>1, StoppedStep
  <1>2. CASE Tick
    BY <1>2, TickStep
  <1>3. CASE OperatorStep
    BY <1>3, ApplyStep, RecoverStep, BeginStep DEF OperatorStep
  <1>4. ASSUME NEW t \in Threads, ThreadStep(t)  PROVE IInv'
    BY <1>4, ReceiveStep, LookupStep, ReserveStep, DisableOwnStep, ClaimStep, LockKeyStep,
       EvaluateStep, CommitStep DEF ThreadStep
  <1>5. ASSUME NEW p \in Procs, ProcessStep(p)  PROVE IInv'
    <2>1. CASE Break(p) \/ Stop(p) \/ Release(p)
      BY <2>1, DropStep, ReleaseStep
    <2>2. CASE Replace(p)
      BY <2>2, ReplaceStep
    <2>3. CASE CollectExpired(p)
      BY <2>3, CollectStep
    <2>4. ASSUME NEW keyring \in Keyrings, Start(p, keyring)  PROVE IInv'
      BY <2>4, OpenStep DEF Start, Ready
    <2> QED  BY <1>5, <2>1, <2>2, <2>3, <2>4 DEF ProcessStep
  <1>6. ASSUME NEW o \in orphans, ServerResolves(o)  PROVE IInv'
    BY <1>6, ServerResolvesStep
  <1> QED  BY <1>1, <1>2, <1>3, <1>4, <1>5, <1>6 DEF Next

-----------------------------------------------------------------------------
(***************************************************************************)
(* Effects precede the drain of their version, and drains its retirement.  *)
(***************************************************************************)
LEMMA UndecidedIsPast ==
    ASSUME IInv, NEW e \in Effect, Undecided(e)
    PROVE  e.ver \in Versions /\ e.at \in Nat /\ now \in Nat /\ e.at <= now
  <1>1. e.ver \in Versions /\ e.at \in Nat /\ now \in Nat
    BY DEF Effect, IInv, TypeOK
  <1>2. CASE \E t \in Threads : pc[t] = "commit" /\ e \in pending[t]
    BY <1>1, <1>2 DEF IInv, Locals, PendingIsSound, Timely
  <1>3. CASE \E o \in orphans : e \in o.effect
    BY <1>1, <1>3 DEF IInv, Globals, OrphanIsSound, Timely
  <1> QED  BY <1>1, <1>2, <1>3 DEF Undecided

\* A step that begins no completion and no command, and drains nothing.
LEMMA PunctualityStays ==
    ASSUME IInv, Punctuality, UNCHANGED <<drainedAt, retired>>, now <= now', now' \in Nat,
           orphans' \subseteq orphans,
           \A e \in Effect : Undecided(e)' => Undecided(e)
    PROVE  Punctuality'
  <1>1. ASSUME NEW e \in Effect, Undecided(e)'  PROVE Punctual(e)'
    <2>1. Punctual(e)
      BY <1>1 DEF Punctuality
    <2> QED  BY <2>1 DEF Punctual
  <1>2. ASSUME NEW v \in Versions, Ending(v)'  PROVE WindowIsOver(v)'
    <2>1. WindowIsOver(v)
      BY <1>2 DEF Ending, Punctuality
    <2>2. PICK d : d = drainedAt[v]
      OBVIOUS
    <2>3. d \in Nat /\ RemovalWindow \in Nat /\ now \in Nat /\ d # Never /\ d + RemovalWindow <= now
      BY <2>1, <2>2, PgAssumption DEF WindowIsOver, IInv, TypeOK
    <2>4. d + RemovalWindow <= now'
      BY <2>3
    <2> QED  BY <2>2, <2>3, <2>4 DEF WindowIsOver
  <1> QED  BY <1>1, <1>2 DEF Punctuality

\* The threads and the orphans of a step leave no more undecided than before.
LEMMA FewerUndecided ==
    ASSUME \A t \in Threads : pc'[t] = "commit" => pc[t] = "commit" /\ pending'[t] \subseteq pending[t],
           orphans' \subseteq orphans, NEW e, Undecided(e)'
    PROVE  Undecided(e)
  BY DEF Undecided

LEMMA EvaluatePunctual ==
    ASSUME IInv, Punctuality, NEW t \in Threads, Evaluate(t)
    PROVE  Punctuality'
  <1>1. /\ UNCHANGED <<now, drainedAt, retired, orphans, disabled>> /\ now \in Nat
        /\ pc \in [Threads -> Stages] /\ pending \in [Threads -> SUBSET Effect]
    BY DEF Evaluate, versionVars, IInv, TypeOK
  <1>2. CASE AnswerFromRow(t, now) \/ GiveUp(t)
    <2>1. \E answer : Finish(t, answer)
      BY <1>2 DEF AnswerFromRow, GiveUp, LoseCommit, Answer
    <2>2. \A u \in Threads : pc'[u] = "commit" => pc[u] = "commit" /\ pending'[u] \subseteq pending[u]
      BY <1>1, <2>1 DEF Finish
    <2> QED  BY <1>1, <2>2, FewerUndecided, PunctualityStays
  <1>3. ASSUME NEW n \in rsv[t], NEW notAfter \in now..(now + MaxTTL), Authentic(n),
               pending' = [pending EXCEPT ![t] =
                  {[key |-> req[t].key, fp |-> req[t].fp, ver |-> n.ver,
                    nonce |-> n.nonce, at |-> now, exp |-> TerminalExpiry(notAfter)]}],
               pc' = [pc EXCEPT ![t] = "commit"]
        PROVE  Punctuality'
    <2>1. PICK x : x = TerminalExpiry(notAfter)
      OBVIOUS
    <2>2. x <= now + MaxTTL
      BY <1>1, <2>1, PgAssumption DEF TerminalExpiry
    <2>3. PICK new : new = [key |-> req[t].key, fp |-> req[t].fp, ver |-> n.ver,
                            nonce |-> n.nonce, at |-> now, exp |-> TerminalExpiry(notAfter)]
      OBVIOUS
    <2>4. new.ver = n.ver /\ new.at = now /\ new.exp = x
      BY <2>1, <2>3
    <2>5. /\ pending'[t] = {new}
          /\ \A u \in Threads \ {t} : pending'[u] = pending[u] /\ pc'[u] = pc[u]
      BY <1>1, <1>3, <2>3
    <2>6. ASSUME NEW e \in Effect, Undecided(e)'  PROVE Punctual(e)'
      <3>1. CASE e = new
        <4>1. n.ver \in Versions /\ disabled[n.ver] = ""
          BY <1>3 DEF Authentic, Usable, IInv, TypeOK, Reservation
        <4>2. drainedAt[n.ver] = Never
          BY <4>1 DEF IInv, Globals, DrainIsFinal
        <4>3. \A o \in orphans : ~(o.kind = "drain" /\ o.ver = n.ver)
          BY <4>1 DEF IInv, Globals, OrphanIsSound
        <4> QED  BY <1>1, <2>2, <2>4, <3>1, <4>2, <4>3 DEF Punctual
      <3>2. CASE e # new
        <4>1. Undecided(e)
          BY <1>1, <2>5, <2>6, <3>2 DEF Undecided
        <4>2. Punctual(e)
          BY <4>1 DEF Punctuality
        <4> QED  BY <1>1, <4>2 DEF Punctual
      <3> QED  BY <3>1, <3>2
    <2>7. ASSUME NEW v \in Versions, Ending(v)'  PROVE WindowIsOver(v)'
      BY <1>1, <2>7 DEF Ending, Punctuality, WindowIsOver
    <2> QED  BY <2>6, <2>7 DEF Punctuality
  <1> QED  BY <1>2, <1>3 DEF Evaluate

LEMMA CommitPunctual ==
    ASSUME IInv, Punctuality, NEW t \in Threads, Commit(t)
    PROVE  Punctuality'
  <1>1. /\ UNCHANGED <<now, drainedAt, retired>> /\ now \in Nat
        /\ pc \in [Threads -> Stages] /\ pc[t] = "commit" /\ orphans \subseteq Orphan
    BY DEF Commit, versionVars, IInv, TypeOK
  <1>2. PICK e \in pending[t] :
          /\ \E answer : Finish(t, answer)
          /\ \/ UNCHANGED orphans
             \/ orphans' = orphans \cup {[kind |-> "complete", effect |-> {e},
                                          ver |-> ring[Home[t]].active, at |-> e.at,
                                          lock |-> Attestation(Home[t])]}
    BY DEF Commit, Answer, GiveUp, LoseCommit
  <1>3. \A u \in Threads : pc'[u] = "commit" => pc[u] = "commit" /\ pending'[u] \subseteq pending[u]
    BY <1>1, <1>2 DEF Finish, IInv, TypeOK
  <1>4. CASE UNCHANGED orphans
    BY <1>1, <1>3, <1>4, FewerUndecided, PunctualityStays
  <1>5. CASE orphans' = orphans \cup {[kind |-> "complete", effect |-> {e},
                                       ver |-> ring[Home[t]].active, at |-> e.at,
                                       lock |-> Attestation(Home[t])]}
    <2>1. PICK o : o = [kind |-> "complete", effect |-> {e}, ver |-> ring[Home[t]].active,
                        at |-> e.at, lock |-> Attestation(Home[t])]
      OBVIOUS
    <2>2. o.kind = "complete" /\ o.effect = {e} /\ orphans' = orphans \cup {o}
      BY <1>5, <2>1
    <2>3. ASSUME NEW f \in Effect, Undecided(f)'  PROVE Punctual(f)'
      <3>1. Undecided(f)
        BY <1>1, <1>2, <1>3, <2>2, <2>3 DEF Undecided
      <3>2. Punctual(f)
        BY <3>1 DEF Punctuality
      <3> QED  BY <1>1, <2>2, <3>2 DEF Punctual
    <2>4. ASSUME NEW v \in Versions, Ending(v)'  PROVE WindowIsOver(v)'
      BY <1>1, <2>2, <2>4 DEF Ending, Punctuality, WindowIsOver
    <2> QED  BY <2>3, <2>4 DEF Punctuality
  <1> QED  BY <1>2, <1>4, <1>5

LEMMA ThreadPunctual ==
    ASSUME IInv, Punctuality, NEW t \in Threads, ThreadStep(t)
    PROVE  Punctuality'
  <1>1. CASE Evaluate(t) \/ Commit(t)
    BY <1>1, EvaluatePunctual, CommitPunctual
  <1>2. CASE ~(Evaluate(t) \/ Commit(t))
    <2>1. /\ UNCHANGED <<now, drainedAt, retired, orphans>> /\ now \in Nat
      BY <1>2 DEF ThreadStep, Receive, Lookup, Reserve, DisableOwn, Recheck, Claim, LockKey,
         versionVars, IInv, TypeOK
    <2>2. \/ \E answer : Finish(t, answer)
          \/ \E stage \in Stages \ {"commit"} : pc' = [pc EXCEPT ![t] = stage] /\ UNCHANGED pending
      <3>1. {"lookup", "reserve", "disable", "recheck", "claim", "lock", "evaluate"}
               \subseteq Stages \ {"commit"}
        BY DEF Stages
      <3>2. CASE \E r \in Requests : Receive(t, r)
        BY <3>1, <3>2 DEF Receive
      <3>3. CASE Lookup(t) \/ Recheck(t)
        BY <3>1, <3>3 DEF Lookup, Recheck, AnswerFromRow, GiveUp, LoseCommit, Answer, GoTo
      <3>4. CASE Reserve(t)
        BY <3>1, <3>4 DEF Reserve, RecordReservation, GiveUp, LoseCommit, Answer, GoTo
      <3>5. CASE DisableOwn(t)
        BY <3>5 DEF DisableOwn, GiveUp, LoseCommit, Answer
      <3>6. CASE Claim(t) \/ LockKey(t)
        BY <3>1, <3>6 DEF Claim, LockKey, GiveUp, LoseCommit, Answer, GoTo
      <3> QED  BY <1>2, <3>2, <3>3, <3>4, <3>5, <3>6 DEF ThreadStep
    <2>3. \A u \in Threads : pc'[u] = "commit" => pc[u] = "commit" /\ pending'[u] \subseteq pending[u]
      BY <2>2 DEF Finish, IInv, TypeOK
    <2> QED  BY <2>1, <2>3, FewerUndecided, PunctualityStays
  <1> QED  BY <1>1, <1>2

LEMMA ProcessPunctual ==
    ASSUME IInv, Punctuality, NEW p \in Procs, ProcessStep(p)
    PROVE  Punctuality'
  <1>1. UNCHANGED <<now, drainedAt, retired, orphans>> /\ now \in Nat
    BY DEF ProcessStep, Break, Replace, Release, Stop, CollectExpired, Start, versionVars, IInv, TypeOK
  <1>2. \/ UNCHANGED threadVars
        \/ \E dropped : DropRequests(dropped)
        \/ \E t \in Threads : \E answer : Finish(t, answer)
    BY DEF ProcessStep, Break, Replace, Release, Stop, CollectExpired, Start
  <1>3. \A u \in Threads : pc'[u] = "commit" => pc[u] = "commit" /\ pending'[u] \subseteq pending[u]
    BY <1>2 DEF threadVars, DropRequests, Finish, IInv, TypeOK
  <1> QED  BY <1>1, <1>3, FewerUndecided, PunctualityStays

\* A version is drained now, or at the time of a command long lost.
LEMMA DrainPunctual ==
    ASSUME IInv, Punctuality, UNCHANGED <<now, retired, pc, pending>>, orphans' \subseteq orphans,
           NEW v \in Versions, NEW at \in Nat,
           at = now \/ \E o \in orphans : o.kind = "drain" /\ o.ver = v /\ o.at = at,
           drainedAt' = [drainedAt EXCEPT ![v] = IF @ = Never THEN at ELSE @]
    PROVE  Punctuality'
  <1>1. /\ drainedAt \in [Versions -> Nat \cup {Never}]
        /\ \A w \in Versions : drainedAt[w] # Never => drainedAt'[w] = drainedAt[w]
        /\ \A w \in Versions : drainedAt'[w] = drainedAt[w] \/ (w = v /\ drainedAt'[w] = at)
    BY DEF IInv, TypeOK
  <1>2. ASSUME NEW e \in Effect, Undecided(e)'  PROVE Punctual(e)'
    <2>1. Undecided(e)
      BY <1>2 DEF Undecided
    <2>2. Punctual(e) /\ e.ver \in Versions /\ e.at <= now
      BY <2>1, UndecidedIsPast DEF Punctuality
    <2>3. e.ver = v => e.at <= at
      BY <2>2 DEF Punctual
    <2> QED  BY <1>1, <2>2, <2>3 DEF Punctual
  <1>3. ASSUME NEW w \in Versions, Ending(w)'  PROVE WindowIsOver(w)'
    BY <1>1, <1>3 DEF Ending, Punctuality, WindowIsOver
  <1> QED  BY <1>2, <1>3 DEF Punctuality

LEMMA RetirePunctual ==
    ASSUME IInv, Punctuality, UNCHANGED <<now, drainedAt, pc, pending>>, orphans' \subseteq orphans,
           NEW v \in Versions, WindowIsOver(v), retired' = retired \cup {v}
    PROVE  Punctuality'
  <1>1. ASSUME NEW e \in Effect, Undecided(e)'  PROVE Punctual(e)'
    <2>1. Undecided(e)
      BY <1>1 DEF Undecided
    <2>2. Punctual(e)
      BY <2>1 DEF Punctuality
    <2> QED  BY <2>2 DEF Punctual
  <1>2. ASSUME NEW w \in Versions, Ending(w)'  PROVE WindowIsOver(w)'
    <2>1. WindowIsOver(w)
      BY <1>2 DEF Ending, Punctuality
    <2> QED  BY <2>1 DEF WindowIsOver
  <1> QED  BY <1>1, <1>2 DEF Punctuality

LEMMA ServerPunctual ==
    ASSUME IInv, Punctuality, NEW o \in orphans, ServerResolves(o)
    PROVE  Punctuality'
  <1>1. /\ UNCHANGED <<now, pc, pending>> /\ orphans' \subseteq orphans /\ now \in Nat
        /\ o.ver \in Versions /\ o.at \in Nat
    BY DEF ServerResolves, threadVars, IInv, TypeOK, Orphan
  <1>2. CASE UNCHANGED <<drainedAt, retired>>
    BY <1>1, <1>2, FewerUndecided, PunctualityStays
  <1>3. CASE /\ o.kind = "drain" /\ UNCHANGED retired
             /\ drainedAt' = [drainedAt EXCEPT ![o.ver] = IF @ = Never THEN o.at ELSE @]
    BY <1>1, <1>3, DrainPunctual
  <1>4. CASE o.kind = "retire" /\ retired' = retired \cup {o.ver} /\ UNCHANGED drainedAt
    <2>1. WindowIsOver(o.ver)
      BY <1>1, <1>4 DEF Ending, Punctuality
    <2> QED  BY <1>1, <1>4, <2>1, RetirePunctual
  <1> QED  BY <1>2, <1>3, <1>4 DEF ServerResolves

LEMMA DoPunctual ==
    ASSUME IInv, Punctuality, OperatorIdle, UNCHANGED orphans, NEW what, NEW v \in Versions,
           Unaltered \/ (May(what, v) /\ Do(what, v))
    PROVE  Punctuality'
  <1>1. UNCHANGED <<now, pc, pending, orphans>> /\ now \in Nat
    BY DEF OperatorIdle, threadVars, IInv, TypeOK
  <1>2. CASE UNCHANGED <<drainedAt, retired>>
    BY <1>1, <1>2, FewerUndecided, PunctualityStays
  <1>3. CASE SetDrained(v)
    BY <1>1, <1>3, DrainPunctual DEF SetDrained
  <1>4. CASE MayRetire(v) /\ SetRetired(v)
    <2>1. WindowIsOver(v)
      <3>1. PICK d : d = drainedAt[v]
        OBVIOUS
      <3>2. d # Never /\ d \in Nat /\ now >= d + RemovalWindow
        BY <1>4, <3>1 DEF MayRetire, IInv, TypeOK
      <3>3. d + RemovalWindow <= now
        BY <1>1, <3>2, PgAssumption
      <3> QED  BY <3>1, <3>2, <3>3 DEF WindowIsOver
    <2> QED  BY <1>1, <1>4, <2>1, RetirePunctual DEF SetRetired
  <1> QED  BY <1>2, <1>3, <1>4 DEF May, Do, SetDisabled, Unaltered

LEMMA OperatorPunctual ==
    ASSUME IInv, Punctuality, OperatorStep
    PROVE  Punctuality'
  <1>1. now \in Nat /\ op.ver \in Versions /\ orphans \subseteq Orphan
    BY DEF IInv, TypeOK
  <1>2. CASE \E what \in Commands, v \in Versions : Begin(what, v)
    <2>1. UNCHANGED <<now, drainedAt, retired, orphans, pc, pending>>
      BY <1>2 DEF Begin, versionVars, threadVars
    <2> QED  BY <1>1, <2>1, FewerUndecided, PunctualityStays
  <1>3. CASE Recover
    BY <1>1, <1>3, DoPunctual DEF Recover
  <1>4. CASE Apply /\ UNCHANGED orphans
    BY <1>1, <1>4, DoPunctual DEF Apply
  <1>5. CASE /\ Apply /\ May(op.what, op.ver) /\ Unaltered
             /\ orphans' = orphans \cup {[kind |-> op.what, ver |-> op.ver, effect |-> {}, at |-> now,
                                          lock |-> "held"]}
    <2>1. UNCHANGED <<now, drainedAt, retired, pc, pending>>
      BY <1>5 DEF Apply, OperatorIdle, Unaltered, threadVars
    <2>2. PICK o : o = [kind |-> op.what, ver |-> op.ver, effect |-> {}, at |-> now,
                        lock |-> "held"]
      OBVIOUS
    <2>3. /\ o.kind = op.what /\ o.ver = op.ver /\ o.at = now /\ o.effect = {}
          /\ orphans' = orphans \cup {o}
      BY <1>5, <2>2
    <2>4. ASSUME NEW e \in Effect, Undecided(e)'  PROVE Punctual(e)'
      <3>1. Undecided(e)
        BY <2>1, <2>3, <2>4 DEF Undecided
      <3>2. Punctual(e) /\ e.at <= now
        BY <3>1, UndecidedIsPast DEF Punctuality
      <3> QED  BY <2>1, <2>3, <3>2 DEF Punctual
    <2>5. ASSUME NEW v \in Versions, Ending(v)'  PROVE WindowIsOver(v)'
      <3>1. CASE Ending(v)
        BY <2>1, <3>1 DEF Punctuality, WindowIsOver
      <3>2. CASE v = op.ver /\ op.what = "retire"
        <4>1. PICK d : d = drainedAt[v]
          OBVIOUS
        <4>2. d # Never /\ d \in Nat /\ now >= d + RemovalWindow
          BY <1>5, <3>2, <4>1 DEF May, MayRetire, IInv, TypeOK
        <4>3. d + RemovalWindow <= now
          BY <1>1, <4>2, PgAssumption
        <4> QED  BY <2>1, <4>1, <4>2, <4>3 DEF WindowIsOver
      <3> QED  BY <2>1, <2>3, <2>5, <3>1, <3>2 DEF Ending
    <2> QED  BY <2>4, <2>5 DEF Punctuality
  <1> QED  BY <1>2, <1>3, <1>4, <1>5 DEF OperatorStep, Apply

LEMMA NextPunctual ==
    ASSUME IInv, Punctuality, [Next]_vars
    PROVE  Punctuality'
  <1>1. now \in Nat
    BY DEF IInv, TypeOK
  <1>2. CASE UNCHANGED vars
    <2>1. UNCHANGED <<now, drainedAt, retired, orphans, pc, pending>>
      BY <1>2 DEF vars, versionVars, threadVars
    <2> QED  BY <1>1, <2>1, FewerUndecided, PunctualityStays
  <1>3. CASE Tick
    <2>1. UNCHANGED <<drainedAt, retired, orphans, pc, pending>> /\ now' = now + 1
      BY <1>3 DEF Tick, versionVars, threadVars
    <2>2. now <= now' /\ now' \in Nat
      BY <1>1, <2>1
    <2> QED  BY <2>1, <2>2, FewerUndecided, PunctualityStays
  <1>4. CASE OperatorStep
    BY <1>4, OperatorPunctual
  <1>5. ASSUME NEW t \in Threads, ThreadStep(t)  PROVE Punctuality'
    BY <1>5, ThreadPunctual
  <1>6. ASSUME NEW p \in Procs, ProcessStep(p)  PROVE Punctuality'
    BY <1>6, ProcessPunctual
  <1>7. ASSUME NEW o \in orphans, ServerResolves(o)  PROVE Punctuality'
    BY <1>7, ServerPunctual
  <1> QED  BY <1>2, <1>3, <1>4, <1>5, <1>6, <1>7 DEF Next

LEMMA StartPunctual == Init => Punctuality
  BY DEF Init, Punctuality, Undecided, Ending

-----------------------------------------------------------------------------
(***************************************************************************)
(* The inductive invariant: what the locks of keys, versions and sessions  *)
(* keep true between the statements of PostgresIdempotentMutationExecutor, *)
(* the server's late verdicts and PostgresIdempotencyLifecycleBackend.     *)
(***************************************************************************)
THEOREM PgInvariant == Spec => [](IInv /\ Punctuality)
  BY StartHolds, StartPunctual, NextHolds, NextPunctual, PTL DEF Spec

(***************************************************************************)
(* The rows, sessions, requests and the operator's command keep their      *)
(* shapes.                                                                 *)
(***************************************************************************)
THEOREM PgTypes == Spec => []TypeOK
  <1>1. IInv => TypeOK
    BY DEF IInv
  <1> QED  BY <1>1, PgInvariant, PTL

(***************************************************************************)
(* However many processes and threads serve a key, and whatever becomes of *)
(* commits without an acknowledgement, the mutation of a key does not run  *)
(* while an earlier response could be replayed, and every response is that *)
(* of a committed mutation of the caller's own key and body.               *)
(***************************************************************************)
THEOREM PgHappensOnce == Spec => []PgPromiseHolds
  <1>1. IInv => PgPromiseHolds
    BY DEF IInv, Locals, Globals, PgPromiseHolds
  <1> QED  BY <1>1, PgInvariant, PTL

(***************************************************************************)
(* What write_disable, complete_drain and retire reported as done is done, *)
(* for every sequence of lost commits, recoveries and restarts.            *)
(***************************************************************************)
THEOREM OperatorHearsTheTruth == Spec => []OperatorIsToldTheTruth
  <1>1. IInv => OperatorIsToldTheTruth
    BY DEF IInv, Globals
  <1> QED  BY <1>1, PgInvariant, PTL

\* What may be said of a new result.
Late(r) ==
    \/ drainedAt[r.ver] = Never
    \/ Unattested(r) /\ r.at <= drainedAt[r.ver]

LEMMA EffectIsUndrained ==
    ASSUME IInv, Punctuality, NEW e \in Effect, TakeEffect(e), Undecided(e),
           SharedHeld(e.ver) \/ Unattested(e), NEW r \in results' \ results
    PROVE  Late(r)
  <1>1. r = e
    BY DEF TakeEffect, Row
  <1>2. e.ver \in Versions
    BY DEF Effect
  <1>3. drainedAt[e.ver] # Never => e.at <= drainedAt[e.ver]
    BY DEF Punctuality, Punctual
  <1> QED  BY <1>1, <1>2, <1>3 DEF Late, IInv, Globals, DrainIsFinal

LEMMA UndrainedStep ==
    ASSUME IInv, Punctuality, [Next]_vars, NEW r \in results' \ results
    PROVE  Late(r)
  <1>1. CASE UNCHANGED vars
    BY <1>1 DEF vars, rowVars
  <1>2. CASE Tick
    BY <1>2 DEF Tick, rowVars
  <1>3. CASE OperatorStep
    BY <1>3 DEF OperatorStep, Apply, Recover, Begin, Do, SetDisabled, SetDrained, SetRetired,
       Unaltered, rowVars
  <1>4. ASSUME NEW t \in Threads, ThreadStep(t)  PROVE Late(r)
    <2>1. CASE Commit(t)
      <3>1. PICK e \in pending[t] : TakeEffect(e)
        BY <2>1 DEF Commit
      <3>2. pc[t] = "commit" /\ pc[t] \in InTransaction /\ Home[t] \in Procs
        BY <2>1, Constants DEF Commit, InTransaction
      <3>3. /\ e \in Effect /\ e.ver = ring[Home[t]].active /\ conn[Home[t]] = "open"
        BY <3>2 DEF IInv, TypeOK, Locals, PendingIsSound, Sessions
      <3>4. Undecided(e) /\ (SharedHeld(e.ver) \/ Unattested(e))
        BY <3>2, <3>3 DEF SharedHeld, Undecided, Unattested
      <3> QED  BY <3>1, <3>3, <3>4, EffectIsUndrained
    <2>2. CASE ~Commit(t)
      BY <1>4, <2>2 DEF ThreadStep, Receive, Lookup, Reserve, DisableOwn, Recheck, Claim, LockKey,
         Evaluate, rowVars
    <2> QED  BY <2>1, <2>2
  <1>5. ASSUME NEW p \in Procs, ProcessStep(p)  PROVE Late(r)
    BY <1>5 DEF ProcessStep, Break, Replace, Release, Stop, CollectExpired, Start, rowVars
  <1>6. ASSUME NEW o \in orphans, ServerResolves(o)  PROVE Late(r)
    <2>1. PICK e \in o.effect : o.kind = "complete" /\ TakeEffect(e)
      BY <1>6 DEF ServerResolves
    <2>2. e \in Effect /\ e.ver = o.ver /\ o \in OrphanEffects /\ o.lock \in {"held", "released"}
      BY <2>1 DEF IInv, TypeOK, Orphan, Globals, OrphanIsSound, OrphanEffects
    <2>3. Undecided(e) /\ (SharedHeld(e.ver) \/ Unattested(e))
      BY <2>1, <2>2 DEF SharedHeld, Undecided, Unattested
    <2> QED  BY <2>1, <2>2, <2>3, EffectIsUndrained
  <1> QED  BY <1>1, <1>2, <1>3, <1>4, <1>5, <1>6 DEF Next

(***************************************************************************)
(* complete_drain is final: a result of a drained version appears only     *)
(* from a closing process that evaluated it before the drain, though a     *)
(* completion locks no row of its version, sessions are lost and replaced, *)
(* and the server may commit long after everyone gave up.                  *)
(***************************************************************************)
THEOREM DrainedStaysDrained == Spec => NoWriteAfterDrain
  <1>1. IInv /\ Punctuality /\ [Next]_vars =>
           [\A r \in results' \ results :
               \/ drainedAt[r.ver] = Never
               \/ Unattested(r) /\ r.at <= drainedAt[r.ver]]_vars
    BY UndrainedStep DEF Late
  <1> QED  BY <1>1, PgInvariant, PTL DEF Spec, NoWriteAfterDrain

=============================================================================
