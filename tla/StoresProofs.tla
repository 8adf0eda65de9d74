---------------------------- MODULE StoresProofs ----------------------------
(***************************************************************************)
(* Two groups of tables whose writers race.  What the replay store          *)
(* guarantees for any number of requests in flight, any window and any     *)
(* caps; and what policy documents, versions and direct changes do to each *)
(* other on either backend, for any agents, rules and documents.           *)
(***************************************************************************)
EXTENDS PopReplay, Policy, TLAPS

\* Every request in flight, row and accepted proof is well formed, through
\* arrivals, verdicts, restarts and the clock.
THEOREM TypeCorrect == Spec => []TypeOK
  <1>1. Init => TypeOK
    BY ReplayAssumption DEF Init, TypeOK, Times
  <1>2. TypeOK /\ [Next]_vars => TypeOK'
    <2> SUFFICES ASSUME TypeOK, [Next]_vars  PROVE TypeOK'
      OBVIOUS
    <2> USE ReplayAssumption DEF TypeOK, Times
    <2>1. ASSUME NEW w \in Workers, NEW p \in Proofs, Arrive(w, p)  PROVE TypeOK'
      BY <2>1 DEF Arrive
    <2>2. ASSUME NEW w \in Workers, verify_pop_refuses(w)  PROVE TypeOK'
      BY <2>2 DEF verify_pop_refuses, Leave
    <2>3. ASSUME NEW w \in Workers, check_and_record(w)  PROVE TypeOK'
      <3>1. proof[w] \in Proofs /\ LiveRows(reading[w]) \subseteq Proofs
        BY <2>3 DEF check_and_record, LiveRows
      <3>2. seen' \subseteq Proofs /\ accepted' \subseteq Proofs
        BY <2>3, <3>1 DEF check_and_record
      <3>3. horizon' \in Times /\ now' \in Times
        BY <2>3 DEF check_and_record
      <3>4. Leave(w)
        BY <2>3 DEF check_and_record
      <3> QED  BY <3>2, <3>3, <3>4 DEF Leave
    <2>4. CASE Restart
      BY <2>4 DEF Restart
    <2>5. CASE Tick
      BY <2>5 DEF Tick
    <2>6. CASE UNCHANGED vars
      BY <2>6 DEF vars
    <2> QED  BY <2>1, <2>2, <2>3, <2>4, <2>5, <2>6 DEF Next
  <1> QED  BY <1>1, <1>2, PTL DEF Spec

\* Steps other than check_and_record leave the store and its history alone.
LEMMA StoreSteps ==
    ASSUME [Next]_vars
    PROVE  \/ \E w \in Workers : check_and_record(w)
           \/ UNCHANGED <<seen, accepted, horizon>>
  BY DEF Next, vars, Arrive, verify_pop_refuses, Restart, Tick

\* No accepted proof that is fresh by the latest reading the store has purged
\* by is ever deleted: neither a purge nor a full store nor a restart drops it.
THEOREM LiveNoncesStay == Spec => []LiveNoncesAreKept
  <1>1. Init => LiveNoncesAreKept
    BY DEF Init, LiveNoncesAreKept
  <1>2. TypeOK /\ LiveNoncesAreKept /\ [Next]_vars => LiveNoncesAreKept'
    <2> SUFFICES ASSUME TypeOK, LiveNoncesAreKept, [Next]_vars
                 PROVE  LiveNoncesAreKept'
      OBVIOUS
    <2>1. ASSUME NEW w \in Workers, check_and_record(w)
          PROVE  LiveNoncesAreKept'
      <3> SUFFICES ASSUME NEW p \in accepted', p.ts >= horizon' - Skew
                   PROVE  p \in seen'
        BY DEF LiveNoncesAreKept
      <3>1. /\ horizon' \in Int /\ horizon' >= horizon /\ horizon' >= reading[w]
            /\ horizon \in Int /\ reading[w] \in Int /\ Skew \in Int
        BY <2>1, ReplayAssumption DEF check_and_record, TypeOK, Times
      <3>2. LiveRows(reading[w]) \subseteq seen'
        BY <2>1 DEF check_and_record
      <3>3. CASE p \in accepted
        <4>1. p.ts \in Int
          BY <3>3, ReplayAssumption DEF TypeOK, Proofs, Times
        <4>2. p \in seen
          BY <3>1, <3>3, <4>1 DEF LiveNoncesAreKept
        <4>3. p \in LiveRows(reading[w])
          BY <3>1, <4>1, <4>2 DEF LiveRows
        <4> QED  BY <3>2, <4>3
      <3>4. CASE p \notin accepted
        BY <2>1, <3>4 DEF check_and_record
      <3> QED  BY <3>3, <3>4
    <2>2. CASE UNCHANGED <<seen, accepted, horizon>>
      BY <2>2 DEF LiveNoncesAreKept
    <2> QED  BY <2>1, <2>2, StoreSteps
  <1> QED  BY <1>1, <1>2, TypeCorrect, PTL DEF Spec

\* A proof that is fresh by every reading the store has purged by is accepted
\* at most once, in whatever order requests reach the store.
THEOREM NoFreshReplay == Spec => FreshProofsAreSingleUse
  <1>1. ASSUME TypeOK, LiveNoncesAreKept, NEW p \in accepted, Accepts(p)
        PROVE  p.ts < horizon - Skew
    <2> SUFFICES ASSUME p.ts >= horizon - Skew  PROVE FALSE
      BY <1>1, ReplayAssumption DEF TypeOK, Proofs, Times
    <2>1. PICK w \in busy : /\ proof[w] = p
                            /\ ~Recorded(p, LiveRows(reading[w]))
                            /\ p \in seen'
                            /\ check_and_record(w)
      BY <1>1 DEF Accepts
    <2>2. p \in seen
      BY <1>1 DEF LiveNoncesAreKept
    <2>3. p.ts \in Int /\ reading[w] \in Int /\ Skew \in Int
      BY <1>1, <2>1, ReplayAssumption DEF TypeOK, Proofs, Times
    <2>4. p.ts >= reading[w] - Skew
      BY <2>1, <2>3 DEF check_and_record, Fresh
    <2>5. p \in LiveRows(reading[w])
      BY <2>2, <2>4 DEF LiveRows
    <2> QED  BY <2>1, <2>5 DEF Recorded
  <1>2. TypeOK /\ LiveNoncesAreKept
          => [\A p \in accepted : Accepts(p) => p.ts < horizon - Skew]_vars
    BY <1>1
  <1> QED  BY <1>2, TypeCorrect, LiveNoncesStay, PTL DEF FreshProofsAreSingleUse

-----------------------------------------------------------------------------
(***************************************************************************)
(* Policy documents, versions and rollback, on either backend.             *)
(*                                                                         *)
(* The rows, and what may be in a document, an export or a version.        *)
(***************************************************************************)
BoundRows == [Agents -> Bound \cup {None}]
RuleRows == [Rules -> Rule \cup {None}]
SettingsRow == [Mandates -> Setting]
Snapshot == [bounds : BoundRows, rules : RuleRows, boundary : [Holders -> Setting]]
Version == [action : {"apply", "rollback"}, source : Nat, snapshot : Snapshot]
Entries == [scopes : Scopes, cap : CapSpec]

RowsTyped ==
    /\ bounds \in BoundRows /\ rules \in RuleRows /\ disabling \in RuleRows
    /\ settings \in [Holders -> SettingsRow]
    /\ versions \in Seq(Version)

\* No export clears a cap.
ClearsNoCap(table) == \A a \in DOMAIN table : table[a].cap # Null

ExportTyped ==
    /\ DOMAIN export = {"work", "made"}
    /\ DOMAIN export.work = {"stage", "listed", "bounds", "rules"}
    /\ export.work.listed \in Partial(Agents, Scopes)
    /\ export.work.bounds \in Partial(Agents, Entries) /\ ClearsNoCap(export.work.bounds)
    /\ export.work.rules \in Partial(Rules, Rule)
    /\ export.made # None => export.made \in Document /\ ClearsNoCap(export.made.bounds)

-----------------------------------------------------------------------------
(***************************************************************************)
(* The open transaction, stage by stage: what it has written stands to the *)
(* committed rows as it did when it was written, because nobody else may   *)
(* write those rows, and on SQLite none at all.                            *)
(***************************************************************************)
SeenRules == {"snapshot_settings", "commit"}
SeenBounds == SeenRules \cup {"snapshot_rules"}
AfterSettings == SeenBounds \cup {"snapshot_bounds"}
AfterRules == AfterSettings \cup {"settings"}
AfterBounds == AfterRules \cup {"rules"}
Stages == AfterBounds \cup {"idle", "bounds"}

TxnTyped ==
    /\ DOMAIN txn = DOMAIN Idle
    /\ txn.stage \in Stages /\ txn.source \in Nat
    /\ txn.stage # "idle" => txn.kind \in {"apply", "rollback"}
    /\ txn.stage # "idle" /\ txn.kind = "apply" =>
         txn.doc \in Document /\ (txn.reapply => ClearsNoCap(txn.doc.bounds))
    /\ txn.stage # "idle" /\ txn.kind = "rollback" =>
         txn.source \in DOMAIN versions /\ txn.doc = versions[txn.source].snapshot

\* The rows DELETE and INSERT left out had nothing to restore.
Replaced(table, own, saved) ==
    /\ DOMAIN own \subseteq DOMAIN saved
    /\ \A x \in DOMAIN own : own[x] = saved[x]
    /\ backend = "sqlite" => \A x \in DOMAIN saved \ DOMAIN own : table[x] = saved[x]

Restated(entry, row) == Declared(row, entry.scopes, entry.cap)

BoundsReady == txn.stage \in AfterBounds =>
    /\ txn.kind = "rollback" => Replaced(bounds, txn.bounds, txn.doc.bounds)
    /\ txn.kind = "apply" =>
         /\ DOMAIN txn.bounds = DOMAIN txn.doc.bounds
         /\ \A a \in DOMAIN txn.bounds : txn.bounds[a] = Restated(txn.doc.bounds[a], bounds[a])

RulesReady == txn.stage \in AfterRules =>
    /\ txn.kind = "rollback" => Replaced(rules, txn.rules, txn.doc.rules)
    /\ txn.kind = "apply" => txn.rules = txn.doc.rules

\* A rollback keeps the other mandates of a row or, when none is on, clears them.
Softened(row, old) == \A m \in Kept : row[m] = old[m] \/ (row[m] = "unset" /\ old[m] # "on")

SettingsReady == txn.stage \in AfterSettings =>
    /\ DOMAIN txn.settings \subseteq Holders
    /\ \A h \in DOMAIN txn.settings : txn.settings[h] \in SettingsRow
    /\ txn.kind = "rollback" =>
         /\ \A h \in DOMAIN txn.settings : /\ Softened(txn.settings[h], settings[h])
                                           /\ txn.settings[h].boundary = txn.doc.boundary[h]
         /\ backend = "sqlite" => \A h \in Holders \ DOMAIN txn.settings :
                                     settings[h].boundary = txn.doc.boundary[h]

\* What the snapshot has read is what the commit will leave.
SnapshotReady ==
    /\ txn.stage \in SeenBounds =>
         /\ txn.snapshot = [bounds |-> txn.snapshot.bounds, rules |-> txn.snapshot.rules,
                            boundary |-> txn.snapshot.boundary]
         /\ txn.snapshot.bounds \in BoundRows
         /\ backend = "sqlite" => txn.snapshot.bounds = Over(bounds, txn.bounds)
    /\ txn.stage \in SeenRules =>
         /\ txn.snapshot.rules \in RuleRows
         /\ backend = "sqlite" => txn.snapshot.rules = Over(rules, txn.rules)
    /\ txn.stage = "commit" =>
         /\ txn.snapshot.boundary \in [Holders -> Setting]
         /\ backend = "sqlite" => txn.snapshot.boundary = Boundary(Over(settings, txn.settings))

\* A rollback names a version there was.
SourcesExist ==
    \A v \in DOMAIN versions : versions[v].action = "rollback" => versions[v].source \in DOMAIN versions

PolicyInv ==
    /\ RowsTyped /\ ExportTyped /\ TxnTyped
    /\ BoundsReady /\ RulesReady /\ SettingsReady /\ SnapshotReady
    /\ SourcesExist /\ RollbackIsExact

-----------------------------------------------------------------------------
(***************************************************************************)
(* Tables.                                                                 *)
(***************************************************************************)
LEMMA PartialIs ==
    ASSUME NEW S, NEW T, NEW f
    PROVE  f \in Partial(S, T) <=> DOMAIN f \subseteq S /\ f \in [DOMAIN f -> T]
  BY DEF Partial

LEMMA OverTyped ==
    ASSUME NEW S, NEW T, NEW base \in [S -> T], NEW own,
           \A x \in S \cap DOMAIN own : own[x] \in T
    PROVE  Over(base, own) \in [S -> T]
  BY DEF Over

\* DELETE and INSERT.
LEMMA RestoredIsReplaced ==
    ASSUME NEW S, NEW T, NEW base \in [S -> T], NEW saved \in [S -> T]
    PROVE  Replaced(base, Restored(base, saved), saved)
  BY DEF Restored, Replaced, Present

LEMMA DeclaredIsBound ==
    ASSUME NEW row \in Bound \cup {None}, NEW entry \in Entries
    PROVE  Restated(entry, row) \in Bound
  <1>1. (CASE entry.cap = Null -> None
           [] entry.cap = Absent -> IF row = None THEN None ELSE row.cap
           [] OTHER -> entry.cap) \in Caps \cup {None}
    BY DEF Entries, CapSpec, Bound
  <1>2. entry.scopes \in Scopes
    BY DEF Entries
  <1> QED  BY <1>1, <1>2 DEF Restated, Declared, Bound

LEMMA DocumentSays ==
    ASSUME NEW doc \in Document
    PROVE  /\ DOMAIN doc.bounds \subseteq Agents /\ \A a \in DOMAIN doc.bounds : doc.bounds[a] \in Entries
           /\ DOMAIN doc.rules \subseteq Rules /\ \A r \in DOMAIN doc.rules : doc.rules[r] \in Rule
           /\ doc.workspace \in Setting /\ doc.agents \subseteq Agents
  <1>1. doc.bounds \in Partial(Agents, Entries) /\ doc.rules \in Partial(Rules, Rule)
    BY DEF Document, Entries
  <1>2. doc.bounds \in [DOMAIN doc.bounds -> Entries] /\ DOMAIN doc.bounds \subseteq Agents
    BY <1>1, PartialIs
  <1>3. doc.rules \in [DOMAIN doc.rules -> Rule] /\ DOMAIN doc.rules \subseteq Rules
    BY <1>1, PartialIs
  <1>4. doc.workspace \in Setting /\ doc.agents \subseteq Agents
    BY DEF Document
  <1> QED  BY <1>2, <1>3, <1>4

\* What the open transaction would commit is well formed.
LEMMA OwnRowsTyped ==
    ASSUME PolicyInv, txn.stage # "idle"
    PROVE  /\ txn.stage \in AfterBounds => Over(bounds, txn.bounds) \in BoundRows
           /\ txn.stage \in AfterRules => Over(rules, txn.rules) \in RuleRows
           /\ txn.stage \in AfterSettings => Over(settings, txn.settings) \in [Holders -> SettingsRow]
  <1>1. /\ bounds \in BoundRows /\ rules \in RuleRows /\ settings \in [Holders -> SettingsRow]
        /\ versions \in Seq(Version) /\ txn.kind \in {"apply", "rollback"}
    BY DEF PolicyInv, RowsTyped, TxnTyped
  <1>2. CASE txn.kind = "rollback"
    <2>1. txn.doc \in Snapshot
      <3>1. txn.source \in DOMAIN versions /\ txn.doc = versions[txn.source].snapshot
        BY <1>2 DEF PolicyInv, TxnTyped
      <3>2. versions[txn.source] \in Version
        BY <1>1, <3>1
      <3> QED  BY <3>1, <3>2 DEF Version
    <2>2. txn.doc.bounds \in BoundRows /\ txn.doc.rules \in RuleRows
      BY <2>1 DEF Snapshot
    <2>3. ASSUME txn.stage \in AfterBounds  PROVE Over(bounds, txn.bounds) \in BoundRows
      <3>1. \A x \in Agents \cap DOMAIN txn.bounds : txn.bounds[x] \in Bound \cup {None}
        BY <1>2, <2>2, <2>3 DEF PolicyInv, BoundsReady, Replaced, BoundRows
      <3> QED  BY <1>1, <3>1, OverTyped DEF BoundRows
    <2>4. ASSUME txn.stage \in AfterRules  PROVE Over(rules, txn.rules) \in RuleRows
      <3>1. \A x \in Rules \cap DOMAIN txn.rules : txn.rules[x] \in Rule \cup {None}
        BY <1>2, <2>2, <2>4 DEF PolicyInv, RulesReady, Replaced, RuleRows
      <3> QED  BY <1>1, <3>1, OverTyped DEF RuleRows
    <2> QED  BY <1>1, <2>3, <2>4, OverTyped DEF PolicyInv, SettingsReady
  <1>3. CASE txn.kind = "apply"
    <2>1. txn.doc \in Document
      BY <1>3 DEF PolicyInv, TxnTyped
    <2>2. ASSUME txn.stage \in AfterBounds  PROVE Over(bounds, txn.bounds) \in BoundRows
      <3>1. \A x \in Agents \cap DOMAIN txn.bounds :
              /\ txn.bounds[x] = Restated(txn.doc.bounds[x], bounds[x])
              /\ txn.doc.bounds[x] \in Entries /\ bounds[x] \in Bound \cup {None}
        BY <1>1, <1>3, <2>1, <2>2, DocumentSays DEF PolicyInv, BoundsReady, BoundRows
      <3>2. \A x \in Agents \cap DOMAIN txn.bounds : txn.bounds[x] \in Bound \cup {None}
        BY <3>1, DeclaredIsBound
      <3> QED  BY <1>1, <3>2, OverTyped DEF BoundRows
    <2>3. ASSUME txn.stage \in AfterRules  PROVE Over(rules, txn.rules) \in RuleRows
      <3>1. \A x \in Rules \cap DOMAIN txn.rules : txn.rules[x] \in Rule \cup {None}
        BY <1>3, <2>1, <2>3, DocumentSays DEF PolicyInv, RulesReady
      <3> QED  BY <1>1, <3>1, OverTyped DEF RuleRows
    <2> QED  BY <1>1, <2>2, <2>3, OverTyped DEF PolicyInv, SettingsReady
  <1> QED  BY <1>1, <1>2, <1>3

-----------------------------------------------------------------------------
(***************************************************************************)
(* Steps outside the transaction.                                          *)
(***************************************************************************)
LEMMA PolicyStarts == PolicyInit => PolicyInv
  <1> SUFFICES ASSUME PolicyInit  PROVE PolicyInv
    OBVIOUS
  <1>1. RowsTyped
    BY DEF PolicyInit, RowsTyped, BoundRows, RuleRows, SettingsRow, Blank, Setting
  <1>2. NoRows \in Partial(Agents, Scopes) /\ NoRows \in Partial(Agents, Entries) /\ NoRows \in Partial(Rules, Rule)
    BY PartialIs DEF NoRows
  <1>3. ExportTyped
    BY <1>2 DEF PolicyInit, ExportTyped, NoExport, ClearsNoCap, NoRows
  <1>4. TxnTyped /\ BoundsReady /\ RulesReady /\ SettingsReady /\ SnapshotReady
    BY DEF PolicyInit, TxnTyped, BoundsReady, RulesReady, SettingsReady, SnapshotReady, Idle, Stages,
           AfterBounds, AfterRules, AfterSettings, SeenBounds, SeenRules
  <1>5. SourcesExist /\ RollbackIsExact
    BY DEF PolicyInit, SourcesExist, RollbackIsExact
  <1> QED  BY <1>1, <1>3, <1>4, <1>5 DEF PolicyInv

\* A step beside the transaction writes no row that the transaction has written,
\* and on SQLite none while there is a transaction.
Beside ==
    \/ UNCHANGED rows
    \/ txn.stage = "idle"
    \/ /\ backend = "postgres"
       /\ \A a \in DOMAIN txn.bounds : bounds'[a] = bounds[a]
       /\ \A h \in DOMAIN txn.settings : settings'[h] = settings[h]

LEMMA BesideStep ==
    ASSUME PolicyInv, Beside, RowsTyped', ExportTyped', UNCHANGED <<versions, txn, backend>>
    PROVE  PolicyInv'
  <1>1. TxnTyped' /\ SourcesExist' /\ RollbackIsExact'
    BY DEF PolicyInv, TxnTyped, SourcesExist, RollbackIsExact
  <1>2. BoundsReady'
    BY DEF PolicyInv, BoundsReady, Replaced, Beside, rows, AfterBounds, AfterRules, AfterSettings, SeenBounds, SeenRules
  <1>3. RulesReady'
    BY DEF PolicyInv, RulesReady, Replaced, Beside, rows, AfterRules, AfterSettings, SeenBounds, SeenRules
  <1>4. SettingsReady'
    BY DEF PolicyInv, SettingsReady, Softened, Beside, rows, AfterSettings, SeenBounds, SeenRules
  <1>5. SnapshotReady'
    <2>1. CASE UNCHANGED rows
      BY <2>1 DEF PolicyInv, SnapshotReady, rows, Over, Boundary
    <2>2. CASE txn.stage = "idle"
      BY <2>2 DEF SnapshotReady, SeenBounds, SeenRules
    <2>3. CASE backend = "postgres"
      BY <2>3 DEF PolicyInv, SnapshotReady
    <2> QED  BY <2>1, <2>2, <2>3 DEF Beside
  <1> QED  BY <1>1, <1>2, <1>3, <1>4, <1>5 DEF PolicyInv

LEMMA set_boundsStep ==
    ASSUME PolicyInv, NEW a \in Agents, NEW s \in Scopes, NEW cap \in CapSpec, set_bounds(a, s, cap)
    PROVE  PolicyInv'
  <1>1. bounds \in BoundRows /\ bounds[a] \in Bound \cup {None}
    BY DEF PolicyInv, RowsTyped, BoundRows
  <1>2. PICK entry \in Entries : entry.scopes = s /\ entry.cap = cap
    <2>1. [scopes |-> s, cap |-> cap] \in Entries
      BY DEF Entries
    <2> QED  BY <2>1
  <1>3. Restated(entry, bounds[a]) \in Bound
    BY <1>1, <1>2, DeclaredIsBound
  <1>4. bounds' = [bounds EXCEPT ![a] = Restated(entry, bounds[a])]
    BY <1>2 DEF set_bounds, Restated
  <1>5. bounds' \in BoundRows
    BY <1>1, <1>3, <1>4 DEF BoundRows
  <1>6. RowsTyped' /\ ExportTyped' /\ UNCHANGED <<versions, txn, backend>>
    BY <1>5 DEF set_bounds, PolicyInv, RowsTyped, ExportTyped
  <1>7. Beside
    BY <1>1, <1>4 DEF set_bounds, MayWrite, Beside, BoundRows
  <1> QED  BY <1>6, <1>7, BesideStep

LEMMA set_requireStep ==
    ASSUME PolicyInv, NEW h \in Holders, NEW m \in Mandates, NEW v \in {"on", "off"}, set_require(h, m, v)
    PROVE  PolicyInv'
  <1>1. settings \in [Holders -> SettingsRow] /\ settings' = [settings EXCEPT ![h][m] = v]
    BY DEF PolicyInv, RowsTyped, set_require
  <1>2. settings' \in [Holders -> SettingsRow]
    BY <1>1 DEF SettingsRow, Setting
  <1>3. RowsTyped' /\ ExportTyped' /\ UNCHANGED <<versions, txn, backend>>
    BY <1>2 DEF set_require, PolicyInv, RowsTyped, ExportTyped
  <1>4. Beside
    BY <1>1 DEF set_require, MayWrite, Beside
  <1> QED  BY <1>3, <1>4, BesideStep

LEMMA RuleSteps ==
    ASSUME PolicyInv, NEW r \in Rules,
           \/ \E s \in Scopes : add_rule(r, s)
           \/ DisableRead(r)
           \/ update_rule(r)
    PROVE  PolicyInv'
  <1>1. rules \in RuleRows /\ disabling \in RuleRows
    BY DEF PolicyInv, RowsTyped
  <1>2. rules' \in RuleRows /\ disabling' \in RuleRows
    <2>1. CASE \E s \in Scopes : add_rule(r, s)
      BY <1>1, <2>1 DEF add_rule, RuleRows, Rule
    <2>2. CASE DisableRead(r)
      BY <1>1, <2>2 DEF DisableRead, RuleRows, rows
    <2>3. CASE update_rule(r)
      <3>1. disabling[r] \in Rule
        BY <1>1, <2>3 DEF update_rule, RuleRows
      <3>2. [disabling[r] EXCEPT !.status = "disabled"] \in Rule
        BY <3>1 DEF Rule
      <3> QED  BY <1>1, <2>3, <3>2 DEF update_rule, RuleRows
    <2> QED  BY <2>1, <2>2, <2>3
  <1>3. UNCHANGED <<bounds, settings, export, versions, txn, backend>>
    BY DEF add_rule, DisableRead, update_rule, rows
  <1>4. RowsTyped' /\ ExportTyped'
    BY <1>2, <1>3 DEF PolicyInv, RowsTyped, ExportTyped
  <1>5. Beside
    BY <1>3 DEF Beside, add_rule, DisableRead, update_rule, MayWrite, rows
  <1> QED  BY <1>3, <1>4, <1>5, BesideStep

(***************************************************************************)
(* The export reads beside everybody.                                      *)
(***************************************************************************)
LEMMA ExportedCapIsPlain ==
    ASSUME NEW row \in Bound \cup {None}
    PROVE  ExportedCap(row) \in CapSpec /\ ExportedCap(row) # Null
  BY PolicyAssumption DEF ExportedCap, Bound, CapSpec

LEMMA ExportReads ==
    ASSUME PolicyInv, UNCHANGED <<rows, versions, txn, disabling, writes, backend>>, ExportTyped'
    PROVE  PolicyInv'
  <1>1. RowsTyped' /\ Beside
    BY DEF PolicyInv, RowsTyped, rows, Beside
  <1> QED  BY <1>1, BesideStep

LEMMA ExportListStep ==
    ASSUME PolicyInv, ExportList
    PROVE  PolicyInv'
  <1> DEFINE scopes == [a \in Present(bounds) |-> bounds[a].scopes]
  <1>1. scopes \in Partial(Agents, Scopes)
    <2>1. DOMAIN scopes \subseteq Agents /\ scopes \in [DOMAIN scopes -> Scopes]
      BY DEF PolicyInv, RowsTyped, BoundRows, Bound, Present
    <2> QED  BY <2>1, PartialIs
  <1>2. NoRows \in Partial(Agents, Entries) /\ NoRows \in Partial(Rules, Rule)
    BY PartialIs DEF NoRows
  <1>3. /\ DOMAIN export' = {"work", "made"} /\ export'.made = None
        /\ export'.work = [stage |-> "caps", listed |-> scopes, bounds |-> NoRows, rules |-> NoRows]
    BY DEF PolicyInv, ExportTyped, ExportList, NoExport
  <1> HIDE DEF scopes
  <1>4. ExportTyped'
    BY <1>1, <1>2, <1>3 DEF ExportTyped, ClearsNoCap, NoRows
  <1> QED  BY <1>4, ExportReads DEF ExportList

LEMMA ExportCapStep ==
    ASSUME PolicyInv, NEW a \in Agents, ExportCap(a)
    PROVE  PolicyInv'
  <1> DEFINE work == export.work
             listed == [b \in DOMAIN work.listed \ {a} |-> work.listed[b]]
             entry == [scopes |-> work.listed[a], cap |-> ExportedCap(bounds[a])]
             table == [b \in DOMAIN work.bounds \cup {a} |-> IF b = a THEN entry ELSE work.bounds[b]]
  <1>1. /\ DOMAIN work.listed \subseteq Agents /\ work.listed \in [DOMAIN work.listed -> Scopes]
        /\ DOMAIN work.bounds \subseteq Agents /\ work.bounds \in [DOMAIN work.bounds -> Entries]
    BY PartialIs DEF PolicyInv, ExportTyped
  <1>2. a \in DOMAIN work.listed /\ bounds[a] \in Bound \cup {None}
    BY DEF ExportCap, PolicyInv, RowsTyped, BoundRows
  <1>3. entry \in Entries /\ entry.cap # Null
    BY <1>1, <1>2, ExportedCapIsPlain DEF Entries
  <1>4. listed \in Partial(Agents, Scopes)
    <2>1. DOMAIN listed \subseteq Agents /\ listed \in [DOMAIN listed -> Scopes]
      BY <1>1
    <2> QED  BY <2>1, PartialIs
  <1>5. table \in Partial(Agents, Entries) /\ ClearsNoCap(table)
    <2> HIDE DEF entry
    <2>1. DOMAIN table \subseteq Agents /\ table \in [DOMAIN table -> Entries]
      BY <1>1, <1>3
    <2>2. ClearsNoCap(work.bounds)
      BY DEF PolicyInv, ExportTyped
    <2>3. ClearsNoCap(table)
      BY <1>3, <2>2 DEF ClearsNoCap
    <2> QED  BY <2>1, <2>3, PartialIs
  <1>6. /\ DOMAIN export' = {"work", "made"} /\ export'.made = export.made
        /\ export'.work = [work EXCEPT !.listed = listed, !.bounds = table]
    BY DEF PolicyInv, ExportTyped, ExportCap
  <1> HIDE DEF listed, table
  <1>7. /\ DOMAIN export'.work = DOMAIN work /\ export'.work.listed = listed /\ export'.work.bounds = table
        /\ export'.work.rules = work.rules
    BY <1>6 DEF PolicyInv, ExportTyped
  <1>8. ExportTyped'
    BY <1>4, <1>5, <1>6, <1>7 DEF PolicyInv, ExportTyped
  <1> QED  BY <1>8, ExportReads DEF ExportCap

LEMMA ExportRulesStep ==
    ASSUME PolicyInv, ExportRules
    PROVE  PolicyInv'
  <1> DEFINE table == [r \in Present(rules) |-> rules[r]]
  <1>1. table \in Partial(Rules, Rule)
    <2>1. DOMAIN table \subseteq Rules /\ table \in [DOMAIN table -> Rule]
      BY DEF PolicyInv, RowsTyped, RuleRows, Present
    <2> QED  BY <2>1, PartialIs
  <1>2. /\ DOMAIN export' = {"work", "made"} /\ export'.made = export.made
        /\ DOMAIN export'.work = DOMAIN export.work /\ export'.work.listed = export.work.listed
        /\ export'.work.bounds = export.work.bounds /\ export'.work.rules = table
    BY DEF PolicyInv, ExportTyped, ExportRules
  <1> HIDE DEF table
  <1>3. ExportTyped'
    BY <1>1, <1>2 DEF PolicyInv, ExportTyped
  <1> QED  BY <1>3, ExportReads DEF ExportRules

LEMMA ExportSettingsStep ==
    ASSUME PolicyInv, ExportSettings
    PROVE  PolicyInv'
  <1>1. /\ DOMAIN export' = {"work", "made"} /\ export'.work = NoExport
        /\ export'.made = [bounds |-> export.work.bounds, rules |-> export.work.rules,
                           workspace |-> settings[Workspace].boundary, agents |-> ExportedAgents]
    BY DEF ExportSettings
  <1>2. settings[Workspace].boundary \in Setting /\ ExportedAgents \subseteq Agents
    BY DEF PolicyInv, RowsTyped, Holders, SettingsRow, Mandates, ExportedAgents
  <1>3. export'.made \in Document /\ ClearsNoCap(export'.made.bounds)
    BY <1>1, <1>2 DEF PolicyInv, ExportTyped, Document, Entries
  <1>4. NoRows \in Partial(Agents, Scopes) /\ NoRows \in Partial(Agents, Entries) /\ NoRows \in Partial(Rules, Rule)
    BY PartialIs DEF NoRows
  <1>5. ExportTyped'
    BY <1>1, <1>3, <1>4 DEF ExportTyped, NoExport, ClearsNoCap, NoRows
  <1> QED  BY <1>5, ExportReads DEF ExportSettings

-----------------------------------------------------------------------------
(***************************************************************************)
(* Steps of the transaction.                                               *)
(***************************************************************************)
Tables == <<rows, versions, disabling, export, writes, backend>>

\* A transaction that has written nothing yet, or none.
LEMMA FreshTransaction ==
    ASSUME PolicyInv, UNCHANGED Tables, TxnTyped', txn'.stage \in {"idle", "bounds"}
    PROVE  PolicyInv'
  <1>1. RowsTyped' /\ ExportTyped' /\ SourcesExist' /\ RollbackIsExact'
    BY DEF PolicyInv, Tables, rows, RowsTyped, ExportTyped, SourcesExist, RollbackIsExact
  <1>2. BoundsReady' /\ RulesReady' /\ SettingsReady' /\ SnapshotReady'
    BY DEF BoundsReady, RulesReady, SettingsReady, SnapshotReady,
           AfterBounds, AfterRules, AfterSettings, SeenBounds, SeenRules
  <1> QED  BY <1>1, <1>2 DEF PolicyInv

LEMMA AbortStep ==
    ASSUME PolicyInv, Abort
    PROVE  PolicyInv'
  <1>1. TxnTyped' /\ txn'.stage = "idle" /\ UNCHANGED Tables
    BY DEF Abort, TxnTyped, Idle, Stages, Tables
  <1> QED  BY <1>1, FreshTransaction

LEMMA apply_policy_fileStep ==
    ASSUME PolicyInv, NEW doc, NEW again \in BOOLEAN, apply_policy_file(doc, again),
           doc \in Document, again => ClearsNoCap(doc.bounds)
    PROVE  PolicyInv'
  <1>1. /\ DOMAIN txn' = DOMAIN Idle /\ txn'.stage = "bounds" /\ txn'.kind = "apply"
        /\ txn'.source = 0 /\ txn'.doc = doc /\ txn'.reapply = again
    BY DEF apply_policy_file, Idle
  <1>2. TxnTyped' /\ UNCHANGED Tables
    BY <1>1 DEF apply_policy_file, TxnTyped, Stages, Tables
  <1> QED  BY <1>1, <1>2, FreshTransaction

LEMMA rollback_policy_versionStep ==
    ASSUME PolicyInv, NEW v \in DOMAIN versions, rollback_policy_version(v)
    PROVE  PolicyInv'
  <1>1. /\ DOMAIN txn' = DOMAIN Idle /\ txn'.stage = "bounds" /\ txn'.kind = "rollback"
        /\ txn'.source = v /\ txn'.doc = versions[v].snapshot
    BY DEF rollback_policy_version, Idle
  <1>2. v \in Nat
    BY DEF PolicyInv, RowsTyped
  <1>3. TxnTyped' /\ UNCHANGED Tables
    BY <1>1, <1>2 DEF rollback_policy_version, TxnTyped, Stages, Tables, rows
  <1> QED  BY <1>1, <1>3, FreshTransaction

\* A statement of the transaction leaves its errand alone.
Continues ==
    /\ UNCHANGED Tables /\ txn.stage # "idle" /\ txn'.stage \in Stages \ {"idle"}
    /\ DOMAIN txn' = DOMAIN txn
    /\ txn'.kind = txn.kind /\ txn'.source = txn.source /\ txn'.doc = txn.doc /\ txn'.reapply = txn.reapply

LEMMA StatementStep ==
    ASSUME PolicyInv, Continues, BoundsReady', RulesReady', SettingsReady', SnapshotReady'
    PROVE  PolicyInv'
  <1>1. RowsTyped' /\ ExportTyped' /\ SourcesExist' /\ RollbackIsExact'
    BY DEF PolicyInv, Continues, Tables, rows, RowsTyped, ExportTyped, SourcesExist, RollbackIsExact
  <1>2. TxnTyped'
    BY DEF PolicyInv, Continues, Tables, TxnTyped
  <1> QED  BY <1>1, <1>2 DEF PolicyInv

\* What a rollback restores is a whole policy.
LEMMA SavedIsWhole ==
    ASSUME PolicyInv, txn.stage # "idle", txn.kind = "rollback"
    PROVE  /\ txn.doc.bounds \in BoundRows /\ txn.doc.rules \in RuleRows
           /\ txn.doc.boundary \in [Holders -> Setting]
           /\ txn.doc = [bounds |-> txn.doc.bounds, rules |-> txn.doc.rules, boundary |-> txn.doc.boundary]
  <1>1. txn.source \in DOMAIN versions /\ txn.doc = versions[txn.source].snapshot /\ versions \in Seq(Version)
    BY DEF PolicyInv, TxnTyped, RowsTyped
  <1>2. versions[txn.source] \in Version
    BY <1>1
  <1>3. txn.doc \in Snapshot
    BY <1>1, <1>2 DEF Version
  <1> QED  BY <1>3 DEF Snapshot

LEMMA BoundsStatementStep ==
    ASSUME PolicyInv, BoundsStatement
    PROVE  PolicyInv'
  <1>1. /\ Continues /\ txn'.stage = "rules"
        /\ txn'.bounds = IF txn.kind = "rollback" THEN Restored(bounds, txn.doc.bounds)
                         ELSE [a \in DOMAIN txn.doc.bounds |->
                                 Declared(bounds[a], txn.doc.bounds[a].scopes, txn.doc.bounds[a].cap)]
    BY DEF BoundsStatement, Continues, Tables, PolicyInv, TxnTyped, Idle, Stages, AfterBounds
  <1>2. UNCHANGED <<bounds, backend>> /\ txn.stage # "idle"
    BY <1>1 DEF Continues, Tables, rows
  <1>3. BoundsReady'
    <2>1. CASE txn.kind = "rollback"
      <3>1. txn.doc.bounds \in [Agents -> Bound \cup {None}] /\ bounds \in [Agents -> Bound \cup {None}]
        BY <1>1, <1>2, <2>1, SavedIsWhole DEF PolicyInv, RowsTyped, BoundRows, Continues
      <3>2. Replaced(bounds, Restored(bounds, txn.doc.bounds), txn.doc.bounds)
        BY <3>1, RestoredIsReplaced
      <3>3. Replaced(bounds, txn'.bounds, txn.doc.bounds)
        BY <1>1, <2>1, <3>2
      <3> QED  BY <1>1, <1>2, <2>1, <3>3 DEF BoundsReady, Replaced, Continues
    <2>2. CASE txn.kind # "rollback"
      BY <1>1, <1>2, <2>2 DEF BoundsReady, Restated, Continues
    <2> QED  BY <2>1, <2>2
  <1>4. RulesReady' /\ SettingsReady' /\ SnapshotReady'
    BY <1>1 DEF RulesReady, SettingsReady, SnapshotReady, AfterRules, AfterSettings, SeenBounds, SeenRules
  <1> QED  BY <1>1, <1>3, <1>4, StatementStep

LEMMA RulesStatementStep ==
    ASSUME PolicyInv, RulesStatement
    PROVE  PolicyInv'
  <1>1. /\ Continues /\ txn.stage = "rules" /\ txn'.stage = "settings" /\ txn'.bounds = txn.bounds
        /\ txn'.rules = IF txn.kind = "rollback" THEN Restored(rules, txn.doc.rules) ELSE txn.doc.rules
    BY DEF RulesStatement, Continues, Tables, PolicyInv, TxnTyped, Idle, Stages, AfterBounds, AfterRules
  <1>2. UNCHANGED <<bounds, rules, backend>>
    BY <1>1 DEF Continues, Tables, rows
  <1>3. BoundsReady'
    BY <1>1, <1>2 DEF PolicyInv, BoundsReady, Replaced, Restated, Declared, Continues, AfterBounds
  <1>4. RulesReady'
    <2>1. CASE txn.kind = "rollback"
      <3>1. txn.doc.rules \in [Rules -> Rule \cup {None}] /\ rules \in [Rules -> Rule \cup {None}]
        BY <1>1, <1>2, <2>1, SavedIsWhole DEF PolicyInv, RowsTyped, RuleRows, Continues
      <3>2. Replaced(rules, Restored(rules, txn.doc.rules), txn.doc.rules)
        BY <3>1, RestoredIsReplaced
      <3>3. Replaced(rules, txn'.rules, txn.doc.rules)
        BY <1>1, <2>1, <3>2
      <3> QED  BY <1>1, <1>2, <2>1, <3>3 DEF RulesReady, Replaced, Continues
    <2>2. CASE txn.kind # "rollback"
      BY <1>1, <1>2, <2>2 DEF RulesReady, Continues
    <2> QED  BY <2>1, <2>2
  <1>5. SettingsReady' /\ SnapshotReady'
    BY <1>1 DEF SettingsReady, SnapshotReady, AfterSettings, SeenBounds, SeenRules
  <1> QED  BY <1>1, <1>3, <1>4, <1>5, StatementStep

\* The rows a rollback writes.
LEMMA RestoredSettingsAre ==
    ASSUME settings \in [Holders -> SettingsRow], NEW saved \in [Holders -> Setting]
    PROVE  LET own == RestoredSettings(saved) IN
           /\ DOMAIN own \subseteq Holders
           /\ \A h \in DOMAIN own : /\ own[h] \in SettingsRow /\ Softened(own[h], settings[h])
                                    /\ own[h].boundary = saved[h]
           /\ \A h \in Holders \ DOMAIN own : settings[h].boundary = saved[h]
  <1> DEFINE own == RestoredSettings(saved)
  <1>1. DOMAIN own = SettingsRows \cup {x \in Holders : saved[x] # "unset"}
    BY DEF RestoredSettings
  <1>2. ASSUME NEW h \in DOMAIN own
        PROVE  own[h] \in SettingsRow /\ Softened(own[h], settings[h]) /\ own[h].boundary = saved[h]
    <2>1. h \in Holders
      BY <1>1 DEF SettingsRows
    <2>2. own[h] = [(IF Deleted(h, saved) THEN Blank ELSE settings[h]) EXCEPT !.boundary = saved[h]]
      BY <1>1 DEF RestoredSettings
    <2>3. Blank \in SettingsRow /\ settings[h] \in SettingsRow /\ saved[h] \in Setting
      BY <2>1 DEF Blank, SettingsRow, Setting
    <2>4. \A m \in Kept : m \in Mandates /\ m # "boundary" /\ Blank[m] = "unset"
      BY DEF Kept, Blank
    <2> HIDE DEF own
    <2>5. CASE Deleted(h, saved)
      <3>1. own[h] = [Blank EXCEPT !.boundary = saved[h]]
        BY <2>2, <2>5
      <3> QED  BY <2>3, <2>4, <2>5, <3>1 DEF Softened, Deleted, SettingsRow, Mandates
    <2>6. CASE ~Deleted(h, saved)
      <3>1. own[h] = [settings[h] EXCEPT !.boundary = saved[h]]
        BY <2>2, <2>6
      <3> QED  BY <2>3, <2>4, <3>1 DEF Softened, SettingsRow, Mandates
    <2> QED  BY <2>5, <2>6
  <1>3. \A h \in Holders \ DOMAIN own : settings[h].boundary = saved[h]
    BY <1>1 DEF SettingsRows, Blank, Mandates
  <1>4. DOMAIN own \subseteq Holders
    BY <1>1 DEF SettingsRows
  <1> QED  BY <1>2, <1>3, <1>4

\* The rows an apply writes.
LEMMA AppliedSettingsAre ==
    ASSUME settings \in [Holders -> SettingsRow], NEW doc \in Document
    PROVE  LET own == AppliedSettings(doc) IN
           DOMAIN own \subseteq Holders /\ \A h \in DOMAIN own : own[h] \in SettingsRow
  <1> DEFINE own == AppliedSettings(doc)
  <1>1. doc.workspace \in Setting /\ doc.agents \subseteq Agents
    BY DocumentSays
  <1>2. DOMAIN own = doc.agents \cup (IF doc.workspace = "unset" THEN {} ELSE {Workspace})
    BY DEF AppliedSettings
  <1>3. DOMAIN own \subseteq Holders
    BY <1>1, <1>2 DEF Holders
  <1>4. \A h \in DOMAIN own : own[h] \in SettingsRow
    BY <1>1, <1>3 DEF AppliedSettings, SettingsRow, Setting
  <1> QED  BY <1>3, <1>4

LEMMA SettingsStatementStep ==
    ASSUME PolicyInv, SettingsStatement
    PROVE  PolicyInv'
  <1>1. /\ Continues /\ txn.stage = "settings" /\ txn'.stage = "snapshot_bounds"
        /\ txn'.bounds = txn.bounds /\ txn'.rules = txn.rules
        /\ txn'.settings = IF txn.kind = "rollback" THEN RestoredSettings(txn.doc.boundary)
                           ELSE AppliedSettings(txn.doc)
    BY DEF SettingsStatement, Continues, Tables, PolicyInv, TxnTyped, Idle, Stages, AfterBounds, AfterRules, AfterSettings
  <1>2. UNCHANGED <<bounds, rules, settings, backend>> /\ settings \in [Holders -> SettingsRow]
    BY <1>1 DEF Continues, Tables, rows, PolicyInv, RowsTyped
  <1>3. BoundsReady' /\ RulesReady'
    BY <1>1, <1>2 DEF PolicyInv, BoundsReady, RulesReady, Replaced, Restated, Declared, Continues, AfterBounds, AfterRules
  <1>4. SettingsReady'
    <2>1. CASE txn.kind = "rollback"
      <3>1. txn'.settings = RestoredSettings(txn.doc.boundary) /\ txn.doc.boundary \in [Holders -> Setting]
        BY <1>1, <2>1, SavedIsWhole
      <3>2. /\ DOMAIN txn'.settings \subseteq Holders
            /\ \A h \in DOMAIN txn'.settings :
                 /\ txn'.settings[h] \in SettingsRow /\ Softened(txn'.settings[h], settings[h])
                 /\ txn'.settings[h].boundary = txn.doc.boundary[h]
            /\ \A h \in Holders \ DOMAIN txn'.settings : settings[h].boundary = txn.doc.boundary[h]
        BY <1>2, <3>1, RestoredSettingsAre
      <3> QED  BY <1>1, <1>2, <3>2 DEF SettingsReady, Softened, Continues
    <2>2. CASE txn.kind # "rollback"
      <3>1. txn'.settings = AppliedSettings(txn.doc) /\ txn.doc \in Document
        BY <1>1, <2>2 DEF PolicyInv, TxnTyped
      <3>2. DOMAIN txn'.settings \subseteq Holders /\ \A h \in DOMAIN txn'.settings : txn'.settings[h] \in SettingsRow
        BY <1>2, <3>1, AppliedSettingsAre
      <3> QED  BY <1>1, <2>2, <3>2 DEF SettingsReady, Continues
    <2> QED  BY <2>1, <2>2
  <1>5. SnapshotReady'
    BY <1>1 DEF SnapshotReady, SeenBounds, SeenRules
  <1> QED  BY <1>1, <1>3, <1>4, <1>5, StatementStep

\* The three reads of the snapshot write nothing.
LEMMA SnapshotStep ==
    ASSUME PolicyInv, Continues, SnapshotReady', txn.stage \in AfterSettings, txn'.stage \in AfterSettings,
           txn'.bounds = txn.bounds, txn'.rules = txn.rules, txn'.settings = txn.settings
    PROVE  PolicyInv'
  <1>1. UNCHANGED <<bounds, rules, settings, backend>> /\ txn'.kind = txn.kind /\ txn'.doc = txn.doc
    BY DEF Continues, Tables, rows
  <1>2. txn.stage \in AfterBounds /\ txn.stage \in AfterRules
    BY DEF AfterBounds, AfterRules
  <1>3. BoundsReady' /\ RulesReady'
    BY <1>1, <1>2 DEF PolicyInv, BoundsReady, RulesReady, Replaced, Restated, Declared
  <1>4. SettingsReady'
    BY <1>1 DEF PolicyInv, SettingsReady, Softened
  <1> QED  BY <1>3, <1>4, StatementStep

LEMMA SnapshotBoundsStep ==
    ASSUME PolicyInv, SnapshotBounds
    PROVE  PolicyInv'
  <1>1. /\ Continues /\ txn.stage = "snapshot_bounds" /\ txn'.stage = "snapshot_rules"
        /\ txn'.bounds = txn.bounds /\ txn'.rules = txn.rules /\ txn'.settings = txn.settings
        /\ txn'.snapshot = [bounds |-> Over(bounds, txn.bounds), rules |-> None, boundary |-> None]
    BY DEF SnapshotBounds, Continues, Tables, PolicyInv, TxnTyped, Idle, Stages, AfterBounds, AfterRules, AfterSettings, SeenBounds
  <1>2. Over(bounds, txn.bounds) \in BoundRows /\ UNCHANGED bounds
    BY <1>1, OwnRowsTyped DEF Continues, Tables, rows, AfterBounds, AfterRules, AfterSettings
  <1>3. SnapshotReady'
    BY <1>1, <1>2 DEF SnapshotReady, SeenRules, Over
  <1> QED  BY <1>1, <1>3, SnapshotStep DEF AfterSettings, SeenBounds

LEMMA SnapshotRulesStep ==
    ASSUME PolicyInv, SnapshotRules
    PROVE  PolicyInv'
  <1>1. txn.stage = "snapshot_rules" /\ txn.snapshot = [bounds |-> txn.snapshot.bounds, rules |-> txn.snapshot.rules,
                                                        boundary |-> txn.snapshot.boundary]
    BY DEF SnapshotRules, PolicyInv, SnapshotReady, SeenBounds
  <1>2. /\ Continues /\ txn'.stage = "snapshot_settings"
        /\ txn'.bounds = txn.bounds /\ txn'.rules = txn.rules /\ txn'.settings = txn.settings
        /\ txn'.snapshot = [txn.snapshot EXCEPT !.rules = Over(rules, txn.rules)]
    BY DEF SnapshotRules, Continues, Tables, PolicyInv, TxnTyped, Idle, Stages, AfterBounds, AfterRules, AfterSettings, SeenBounds, SeenRules
  <1>3. txn'.snapshot = [bounds |-> txn.snapshot.bounds, rules |-> Over(rules, txn.rules),
                         boundary |-> txn.snapshot.boundary]
    BY <1>1, <1>2
  <1>4. Over(rules, txn.rules) \in RuleRows /\ UNCHANGED <<bounds, rules, backend>>
    BY <1>1, <1>2, OwnRowsTyped DEF Continues, Tables, rows, AfterRules, AfterSettings, SeenBounds
  <1>5. txn.snapshot.bounds \in BoundRows /\ (backend = "sqlite" => txn.snapshot.bounds = Over(bounds, txn.bounds))
    BY <1>1 DEF PolicyInv, SnapshotReady, SeenBounds
  <1>6. SnapshotReady'
    BY <1>2, <1>3, <1>4, <1>5 DEF SnapshotReady, Over
  <1> QED  BY <1>1, <1>2, <1>6, SnapshotStep DEF AfterSettings, SeenBounds, SeenRules

LEMMA SnapshotSettingsStep ==
    ASSUME PolicyInv, SnapshotSettings
    PROVE  PolicyInv'
  <1> DEFINE read == Boundary(Over(settings, txn.settings))
  <1>1. txn.stage = "snapshot_settings" /\ txn.snapshot = [bounds |-> txn.snapshot.bounds, rules |-> txn.snapshot.rules,
                                                           boundary |-> txn.snapshot.boundary]
    BY DEF SnapshotSettings, PolicyInv, SnapshotReady, SeenBounds, SeenRules
  <1>2. /\ Continues /\ txn'.stage = "commit"
        /\ txn'.bounds = txn.bounds /\ txn'.rules = txn.rules /\ txn'.settings = txn.settings
        /\ txn'.snapshot = [txn.snapshot EXCEPT !.boundary = read]
    BY DEF SnapshotSettings, Continues, Tables, PolicyInv, TxnTyped, Idle, Stages, AfterBounds, AfterRules, AfterSettings, SeenBounds, SeenRules
  <1>3. txn'.snapshot = [bounds |-> txn.snapshot.bounds, rules |-> txn.snapshot.rules, boundary |-> read]
    BY <1>1, <1>2
  <1>4. Over(settings, txn.settings) \in [Holders -> SettingsRow] /\ UNCHANGED <<bounds, rules, settings, backend>>
    BY <1>1, <1>2, OwnRowsTyped DEF Continues, Tables, rows, AfterSettings, SeenBounds, SeenRules
  <1>5. read \in [Holders -> Setting]
    BY <1>4 DEF Boundary, SettingsRow, Mandates
  <1>6. read' = read
    BY <1>2, <1>4 DEF Boundary, Over
  <1>7. /\ txn.snapshot.bounds \in BoundRows /\ (backend = "sqlite" => txn.snapshot.bounds = Over(bounds, txn.bounds))
        /\ txn.snapshot.rules \in RuleRows /\ (backend = "sqlite" => txn.snapshot.rules = Over(rules, txn.rules))
    BY <1>1 DEF PolicyInv, SnapshotReady, SeenBounds, SeenRules
  <1>8. /\ (Over(bounds, txn.bounds))' = Over(bounds, txn.bounds)
        /\ (Over(rules, txn.rules))' = Over(rules, txn.rules)
    BY <1>2, <1>4 DEF Over
  <1>9. SnapshotReady'
    BY <1>2, <1>3, <1>4, <1>5, <1>6, <1>7, <1>8 DEF SnapshotReady
  <1> QED  BY <1>1, <1>2, <1>9, SnapshotStep DEF AfterSettings, SeenBounds, SeenRules

LEMMA Appended ==
    ASSUME NEW S, NEW s \in Seq(S), NEW e \in S
    PROVE  /\ Append(s, e) \in Seq(S) /\ Len(Append(s, e)) = Len(s) + 1
           /\ DOMAIN s = 1..Len(s) /\ DOMAIN Append(s, e) = 1..(Len(s) + 1) /\ Len(s) \in Nat
           /\ \A i \in 1..Len(s) : Append(s, e)[i] = s[i]
           /\ Append(s, e)[Len(s) + 1] = e
  OBVIOUS

\* The version that the commit would record.
Recording == [action |-> txn.kind, source |-> txn.source, snapshot |-> txn.snapshot]

LEMMA RecordingIsVersion ==
    ASSUME PolicyInv, txn.stage = "commit"
    PROVE  Recording \in Version
  <1>1. /\ txn.snapshot = [bounds |-> txn.snapshot.bounds, rules |-> txn.snapshot.rules,
                           boundary |-> txn.snapshot.boundary]
        /\ txn.snapshot.bounds \in BoundRows /\ txn.snapshot.rules \in RuleRows
        /\ txn.snapshot.boundary \in [Holders -> Setting]
    BY DEF PolicyInv, SnapshotReady, SeenBounds, SeenRules
  <1>2. txn.snapshot \in Snapshot
    BY <1>1 DEF Snapshot
  <1>3. txn.kind \in {"apply", "rollback"} /\ txn.source \in Nat
    BY DEF PolicyInv, TxnTyped
  <1> QED  BY <1>2, <1>3 DEF Recording, Version

\* A rollback on SQLite records what it restored.
LEMMA RestoredIsRecorded ==
    ASSUME PolicyInv, txn.stage = "commit", txn.kind = "rollback", backend = "sqlite"
    PROVE  txn.snapshot = txn.doc
  <1>1. /\ txn.snapshot = [bounds |-> txn.snapshot.bounds, rules |-> txn.snapshot.rules,
                           boundary |-> txn.snapshot.boundary]
        /\ txn.snapshot.bounds = Over(bounds, txn.bounds) /\ txn.snapshot.rules = Over(rules, txn.rules)
        /\ txn.snapshot.boundary = Boundary(Over(settings, txn.settings))
    BY DEF PolicyInv, SnapshotReady, SeenBounds, SeenRules
  <1>2. /\ txn.doc.bounds \in BoundRows /\ txn.doc.rules \in RuleRows /\ txn.doc.boundary \in [Holders -> Setting]
        /\ txn.doc = [bounds |-> txn.doc.bounds, rules |-> txn.doc.rules, boundary |-> txn.doc.boundary]
    BY SavedIsWhole
  <1>3. /\ Replaced(bounds, txn.bounds, txn.doc.bounds) /\ Replaced(rules, txn.rules, txn.doc.rules)
        /\ bounds \in BoundRows /\ rules \in RuleRows /\ settings \in [Holders -> SettingsRow]
    BY DEF PolicyInv, BoundsReady, RulesReady, RowsTyped, AfterBounds, AfterRules, AfterSettings, SeenBounds, SeenRules
  <1>4. Over(bounds, txn.bounds) = txn.doc.bounds
    BY <1>2, <1>3 DEF BoundRows, Over, Replaced
  <1>5. Over(rules, txn.rules) = txn.doc.rules
    BY <1>2, <1>3 DEF RuleRows, Over, Replaced
  <1>6. \A h \in Holders : (Over(settings, txn.settings))[h].boundary = txn.doc.boundary[h]
    BY <1>3 DEF PolicyInv, SettingsReady, Over, AfterSettings, SeenBounds, SeenRules
  <1>7. Boundary(Over(settings, txn.settings)) = txn.doc.boundary
    BY <1>2, <1>6 DEF Boundary
  <1> QED  BY <1>1, <1>2, <1>4, <1>5, <1>7

LEMMA CommitStep ==
    ASSUME PolicyInv, Commit
    PROVE  PolicyInv'
  <1>1. txn.stage = "commit" /\ versions' = Append(versions, Recording) /\ UNCHANGED <<backend, export, disabling>>
    BY DEF Commit, Recording
  <1>2. versions \in Seq(Version) /\ Recording \in Version
    BY <1>1, RecordingIsVersion DEF PolicyInv, RowsTyped
  <1>3. /\ versions' \in Seq(Version) /\ DOMAIN versions = 1..Len(versions) /\ Len(versions) \in Nat
        /\ DOMAIN versions' = 1..(Len(versions) + 1)
        /\ \A i \in DOMAIN versions : i \in DOMAIN versions' /\ versions'[i] = versions[i]
        /\ versions'[Len(versions) + 1] = Recording
    BY <1>1, <1>2, Appended
  <1>4. RowsTyped' /\ ExportTyped'
    BY <1>1, <1>3, OwnRowsTyped DEF Commit, PolicyInv, RowsTyped, ExportTyped, AfterBounds, AfterRules, AfterSettings,
       SeenBounds, SeenRules
  <1>5. txn.kind = "rollback" => txn.source \in DOMAIN versions /\ txn.doc = versions[txn.source].snapshot
    BY <1>1 DEF PolicyInv, TxnTyped
  <1>6. ASSUME NEW v \in DOMAIN versions'
        PROVE  v \in DOMAIN versions \/ v = Len(versions) + 1
    BY <1>3
  <1>7. SourcesExist'
    BY <1>3, <1>5, <1>6 DEF PolicyInv, SourcesExist, Recording
  <1>8. RollbackIsExact'
    <2> SUFFICES ASSUME backend = "sqlite", NEW v \in DOMAIN versions', versions'[v].action = "rollback"
                 PROVE  versions'[v].snapshot = versions'[versions'[v].source].snapshot
      BY <1>1 DEF RollbackIsExact
    <2>1. CASE v \in DOMAIN versions
      BY <1>3, <2>1 DEF PolicyInv, RollbackIsExact, SourcesExist
    <2>2. CASE v = Len(versions) + 1
      <3>1. versions'[v] = Recording /\ txn.kind = "rollback"
        BY <1>3, <2>2 DEF Recording
      <3>2. txn.snapshot = txn.doc
        BY <1>1, <3>1, RestoredIsRecorded
      <3> QED  BY <1>3, <1>5, <3>1, <3>2 DEF Recording
    <2> QED  BY <1>6, <2>1, <2>2
  <1>9. /\ TxnTyped' /\ BoundsReady' /\ RulesReady' /\ SettingsReady' /\ SnapshotReady'
    BY DEF Commit, TxnTyped, BoundsReady, RulesReady, SettingsReady, SnapshotReady, Idle, Stages,
           AfterBounds, AfterRules, AfterSettings, SeenBounds, SeenRules
  <1> QED  BY <1>4, <1>7, <1>8, <1>9 DEF PolicyInv

LEMMA PolicyStep ==
    ASSUME PolicyInv, [PolicyNext]_policyVars
    PROVE  PolicyInv'
  <1>1. CASE \E a \in Agents, s \in Scopes, cap \in CapSpec : set_bounds(a, s, cap)
    BY <1>1, set_boundsStep
  <1>2. CASE \E h \in Holders, m \in Mandates, v \in {"on", "off"} : set_require(h, m, v)
    BY <1>2, set_requireStep
  <1>3. CASE \E r \in Rules : (\E s \in Scopes : add_rule(r, s)) \/ DisableRead(r) \/ update_rule(r)
    BY <1>3, RuleSteps
  <1>4. CASE \E doc \in Documents : apply_policy_file(doc, FALSE)
    <2>1. PICK doc \in Documents : apply_policy_file(doc, FALSE)
      BY <1>4
    <2>2. doc \in Document
      BY PolicyAssumption
    <2> QED  BY <2>1, <2>2, apply_policy_fileStep
  <1>5. CASE export.made # None /\ apply_policy_file(export.made, TRUE)
    <2>1. export.made \in Document /\ ClearsNoCap(export.made.bounds)
      BY <1>5 DEF PolicyInv, ExportTyped
    <2> QED  BY <1>5, <2>1, apply_policy_fileStep
  <1>6. CASE \E v \in DOMAIN versions : rollback_policy_version(v)
    BY <1>6, rollback_policy_versionStep
  <1>7. CASE BoundsStatement \/ RulesStatement \/ SettingsStatement
    BY <1>7, BoundsStatementStep, RulesStatementStep, SettingsStatementStep
  <1>8. CASE SnapshotBounds \/ SnapshotRules \/ SnapshotSettings
    BY <1>8, SnapshotBoundsStep, SnapshotRulesStep, SnapshotSettingsStep
  <1>9. CASE Commit \/ Abort
    BY <1>9, CommitStep, AbortStep
  <1>10. CASE ExportList \/ (\E a \in Agents : ExportCap(a)) \/ ExportRules \/ ExportSettings
    BY <1>10, ExportListStep, ExportCapStep, ExportRulesStep, ExportSettingsStep
  <1>11. CASE UNCHANGED policyVars
    <2>1. UNCHANGED <<rows, versions, txn, disabling, writes, backend>> /\ ExportTyped'
      BY <1>11 DEF policyVars, PolicyInv, ExportTyped
    <2> QED  BY <2>1, ExportReads
  <1> QED  BY <1>1, <1>2, <1>3, <1>4, <1>5, <1>6, <1>7, <1>8, <1>9, <1>10, <1>11 DEF PolicyNext

\* The invariant holds on both backends.
THEOREM PolicyInvariant == PolicySpec => []PolicyInv
  BY PolicyStarts, PolicyStep, PTL DEF PolicySpec

-----------------------------------------------------------------------------
\* Exporting the policy and applying it to the same state changes nothing.
LEMMA ExportsAreQuiet ==
    ASSUME PolicyInv
    PROVE  ReapplyIsQuiet
  <1>1. bounds \in BoundRows /\ rules \in RuleRows /\ settings \in [Holders -> SettingsRow]
    BY DEF PolicyInv, RowsTyped
  <1>2. /\ Exported.bounds = [a \in Present(bounds) |-> [scopes |-> bounds[a].scopes, cap |-> ExportedCap(bounds[a])]]
        /\ Exported.rules = [r \in Present(rules) |-> rules[r]]
        /\ Exported.workspace = settings[Workspace].boundary /\ Exported.agents = ExportedAgents
    BY DEF Exported
  <1>3. ASSUME NEW a \in Present(bounds)
        PROVE  Declared(bounds[a], bounds[a].scopes, ExportedCap(bounds[a])) = bounds[a]
    <2>1. bounds[a] \in Bound /\ bounds[a] # None
      BY <1>1 DEF Present, BoundRows
    <2>2. bounds[a] = [scopes |-> bounds[a].scopes, cap |-> bounds[a].cap] /\ bounds[a].cap \in Caps \cup {None}
      BY <2>1 DEF Bound
    <2>3. CASE bounds[a].cap = None
      <3>1. ExportedCap(bounds[a]) = Absent
        BY <2>3 DEF ExportedCap
      <3> QED  BY <2>1, <2>2, <3>1, PolicyAssumption DEF Declared
    <2>4. CASE bounds[a].cap \in Caps
      <3>1. ExportedCap(bounds[a]) = bounds[a].cap /\ bounds[a].cap # Null /\ bounds[a].cap # Absent
        BY <2>1, <2>4, PolicyAssumption DEF ExportedCap
      <3> QED  BY <2>2, <3>1 DEF Declared
    <2> QED  BY <2>2, <2>3, <2>4
  <1> DEFINE redone == [a \in DOMAIN Exported.bounds |->
                          Declared(bounds[a], Exported.bounds[a].scopes, Exported.bounds[a].cap)]
  <1>4. Over(bounds, redone) = bounds
    <2>1. \A a \in DOMAIN redone : redone[a] = bounds[a]
      BY <1>2, <1>3
    <2> HIDE DEF redone
    <2> QED  BY <1>1, <2>1 DEF Over, BoundRows
  <1>5. Over(rules, Exported.rules) = rules
    BY <1>1, <1>2 DEF Over, RuleRows
  <1>6. Boundary(Over(settings, AppliedSettings(Exported))) = Boundary(settings)
    <2> DEFINE own == AppliedSettings(Exported)
    <2>1. ASSUME NEW h \in DOMAIN own, h \in Holders  PROVE own[h].boundary = settings[h].boundary
      <3>1. own[h] = [settings[h] EXCEPT !.boundary = IF h = Workspace THEN Exported.workspace ELSE "on"]
        BY DEF AppliedSettings
      <3>2. settings[h] \in SettingsRow /\ "boundary" \in Mandates
        BY <1>1, <2>1 DEF Mandates
      <3>3. h # Workspace => h \in ExportedAgents
        BY <1>2 DEF AppliedSettings
      <3>4. (IF h = Workspace THEN Exported.workspace ELSE "on") = settings[h].boundary
        BY <1>2, <3>3 DEF ExportedAgents
      <3> QED  BY <3>1, <3>2, <3>4 DEF SettingsRow
    <2> HIDE DEF own
    <2>2. \A h \in Holders : (Over(settings, own))[h].boundary = settings[h].boundary
      BY <1>1, <2>1 DEF Over
    <2> QED  BY <2>2 DEF Boundary, own
  <1> QED  BY <1>4, <1>5, <1>6 DEF ReapplyIsQuiet, Applied, Live

(***************************************************************************)
(* What was written can be had again, for any documents and direct changes *)
(* in between: a rollback restores bounds, rules and boundary settings of  *)
(* the version it names exactly (rollback_policy_version, on SQLite), and  *)
(* an export applied to the state it was taken from changes nothing.       *)
(***************************************************************************)
THEOREM RoundTripsStayExact == PolicySpec => []RoundTripsAreExact
  <1>1. PolicyInv => RoundTripsAreExact
    BY ExportsAreQuiet DEF PolicyInv, RoundTripsAreExact
  <1> QED  BY <1>1, PolicyInvariant, PTL

\* Rows change by direct changes and by commits, versions by commits.
LEMMA WhoWrites ==
    ASSUME [PolicyNext]_policyVars
    PROVE  /\ versions' # versions => Commit
           /\ bounds' # bounds => Commit \/ \E a \in Agents, s \in Scopes, cap \in CapSpec : set_bounds(a, s, cap)
           /\ rules' # rules => Commit \/ \E r \in Rules : (\E s \in Scopes : add_rule(r, s)) \/ update_rule(r)
  BY DEF PolicyNext, policyVars, rows, set_bounds, set_require, add_rule, DisableRead, update_rule,
         apply_policy_file, rollback_policy_version, BoundsStatement, RulesStatement, SettingsStatement,
         SnapshotBounds, SnapshotRules, SnapshotSettings, Abort, ExportList, ExportCap, ExportRules, ExportSettings

(***************************************************************************)
(* A version that becomes visible says what is in force at that moment     *)
(* (apply_policy_file and rollback_policy_version on SQLite), although it  *)
(* was read in three statements.                                           *)
(***************************************************************************)
THEOREM SnapshotsAreTrue == PolicySpec => SnapshotsAgree
  <1>1. ASSUME PolicyInv, [PolicyNext]_policyVars, backend = "sqlite", Len(versions') > Len(versions)
        PROVE  versions'[Len(versions')].snapshot = Live'
    <2>1. Commit /\ txn.stage = "commit"
      <3>1. versions \in Seq(Version) /\ Len(versions) \in Nat
        BY <1>1 DEF PolicyInv, RowsTyped
      <3>2. versions' # versions
        BY <1>1, <3>1
      <3> QED  BY <1>1, <3>2, WhoWrites DEF Commit
    <2>2. versions \in Seq(Version) /\ Recording \in Version /\ versions' = Append(versions, Recording)
      BY <1>1, <2>1, RecordingIsVersion DEF PolicyInv, RowsTyped, Commit, Recording
    <2>3. versions'[Len(versions')] = Recording
      BY <2>2, Appended
    <2>4. /\ txn.snapshot = [bounds |-> txn.snapshot.bounds, rules |-> txn.snapshot.rules,
                             boundary |-> txn.snapshot.boundary]
          /\ txn.snapshot.bounds = Over(bounds, txn.bounds) /\ txn.snapshot.rules = Over(rules, txn.rules)
          /\ txn.snapshot.boundary = Boundary(Over(settings, txn.settings))
      BY <1>1, <2>1 DEF PolicyInv, SnapshotReady, SeenBounds, SeenRules
    <2>5. bounds' = Over(bounds, txn.bounds) /\ rules' = Over(rules, txn.rules) /\ settings' = Over(settings, txn.settings)
      BY <2>1 DEF Commit
    <2>6. Live' = [bounds |-> bounds', rules |-> rules', boundary |-> Boundary(settings')]
      BY DEF Live, Boundary
    <2> QED  BY <2>3, <2>4, <2>5, <2>6 DEF Recording
  <1>2. PolicyInv /\ [PolicyNext]_policyVars =>
          [backend = "sqlite" /\ Len(versions') > Len(versions)
             => versions'[Len(versions')].snapshot = Live']_policyVars
    BY <1>1
  <1> QED  BY <1>2, PolicyInvariant, PTL DEF PolicySpec, SnapshotsAgree

(***************************************************************************)
(* A rollback exempts nobody from the token and proof mandates, on either  *)
(* backend and whatever the rows it deletes hold: the DELETE spares rows   *)
(* in which one is on.                                                     *)
(***************************************************************************)
THEOREM RollbacksExemptNobody == PolicySpec => RollbackNeverExempts
  <1>1. ASSUME PolicyInv, [PolicyNext]_policyVars, Restores, NEW a \in Agents, NEW m \in Kept,
               Required(settings, a, m)
        PROVE  Required(settings', a, m)
    <2>1. Commit /\ txn.stage = "commit" /\ txn.kind = "rollback"
      <3>1. versions \in Seq(Version) /\ Len(versions) \in Nat
        BY <1>1 DEF PolicyInv, RowsTyped
      <3>2. versions' # versions
        BY <1>1, <3>1 DEF Restores
      <3> QED  BY <1>1, <3>2, WhoWrites DEF Commit, Restores
    <2>2. settings \in [Holders -> SettingsRow] /\ settings' = Over(settings, txn.settings)
      BY <1>1, <2>1 DEF PolicyInv, RowsTyped, Commit
    <2>3. \A h \in DOMAIN txn.settings : Softened(txn.settings[h], settings[h])
      BY <1>1, <2>1 DEF PolicyInv, SettingsReady, AfterSettings, SeenBounds, SeenRules
    <2>4. \A h \in Holders : \/ settings'[h][m] = settings[h][m]
                             \/ settings'[h][m] = "unset" /\ settings[h][m] # "on"
      BY <2>2, <2>3 DEF Over, Softened
    <2>5. a \in Holders /\ Workspace \in Holders /\ m # "boundary"
      BY DEF Holders, Kept
    <2> QED  BY <1>1, <2>4, <2>5 DEF Required
  <1>2. PolicyInv /\ [PolicyNext]_policyVars =>
          [Restores => \A a \in Agents, m \in Kept : Required(settings, a, m) => Required(settings', a, m)]_policyVars
    BY <1>1
  <1> QED  BY <1>2, PolicyInvariant, PTL DEF PolicySpec, RollbackNeverExempts

\* A cap is gone: who did it.
CapCleared(a) ==
    bounds[a] # None /\ bounds[a].cap # None /\ bounds'[a] # None /\ bounds'[a].cap = None

Avowed(a) ==
    \/ \E s \in Scopes : set_bounds(a, s, Null)
    \/ txn.stage = "commit" /\ txn.kind = "rollback"
    \/ /\ txn.stage = "commit" /\ ~txn.reapply
       /\ a \in DOMAIN txn.doc.bounds /\ txn.doc.bounds[a].cap = Null

\* Only null takes a cap away.
LEMMA OnlyNullClears ==
    ASSUME NEW row, row # None, row.cap # None, NEW s, NEW cap \in CapSpec, Declared(row, s, cap).cap = None
    PROVE  cap = Null
  BY PolicyAssumption DEF Declared, CapSpec

LEMMA ClearingIsAvowed ==
    ASSUME PolicyInv, [PolicyNext]_policyVars, NEW a \in Agents, CapCleared(a)
    PROVE  Avowed(a)
  <1>1. bounds' # bounds /\ bounds \in BoundRows
    BY DEF CapCleared, PolicyInv, RowsTyped
  <1>2. CASE Commit
    <2>1. txn.stage = "commit" /\ txn.kind \in {"apply", "rollback"} /\ bounds' = Over(bounds, txn.bounds)
      BY <1>2 DEF Commit, PolicyInv, TxnTyped
    <2>2. CASE txn.kind = "rollback"
      BY <2>1, <2>2 DEF Avowed
    <2>3. CASE txn.kind = "apply"
      <3>1. /\ txn.doc \in Document /\ (txn.reapply => ClearsNoCap(txn.doc.bounds))
            /\ DOMAIN txn.bounds = DOMAIN txn.doc.bounds
            /\ \A b \in DOMAIN txn.bounds : txn.bounds[b] = Restated(txn.doc.bounds[b], bounds[b])
        BY <2>1, <2>3 DEF PolicyInv, TxnTyped, BoundsReady, AfterBounds, AfterRules, AfterSettings, SeenBounds, SeenRules
      <3>2. a \in DOMAIN txn.bounds
        BY <1>1, <2>1 DEF CapCleared, Over, BoundRows
      <3>3. bounds'[a] = Declared(bounds[a], txn.doc.bounds[a].scopes, txn.doc.bounds[a].cap)
        BY <1>1, <2>1, <3>1, <3>2 DEF Over, BoundRows, Restated
      <3>4. txn.doc.bounds[a].cap \in CapSpec
        BY <3>1, <3>2, DocumentSays DEF Entries
      <3>5. txn.doc.bounds[a].cap = Null
        BY <3>3, <3>4, OnlyNullClears DEF CapCleared
      <3> QED  BY <2>1, <3>1, <3>2, <3>5 DEF Avowed, ClearsNoCap
    <2> QED  BY <2>1, <2>2, <2>3
  <1>3. CASE \E b \in Agents, s \in Scopes, cap \in CapSpec : set_bounds(b, s, cap)
    <2>1. PICK b \in Agents, s \in Scopes, cap \in CapSpec : set_bounds(b, s, cap)
      BY <1>3
    <2>2. bounds' = [bounds EXCEPT ![b] = Declared(bounds[b], s, cap)]
      BY <2>1 DEF set_bounds
    <2>3. a = b /\ bounds'[a] = Declared(bounds[a], s, cap)
      BY <1>1, <2>2 DEF CapCleared, BoundRows
    <2>4. cap = Null
      BY <2>3, OnlyNullClears DEF CapCleared
    <2> QED  BY <2>1, <2>3, <2>4 DEF Avowed
  <1> QED  BY <1>1, <1>2, <1>3, WhoWrites

LEMMA RulesChangeByDecision ==
    ASSUME PolicyInv, [PolicyNext]_policyVars, NEW r \in Rules, rules'[r] # None, rules'[r] # rules[r]
    PROVE  \/ txn.stage = "commit"
           \/ rules[r] = None /\ rules'[r].status = "active"
           \/ rules[r] # None /\ rules'[r].status = "disabled"
  <1>1. rules \in RuleRows /\ disabling \in RuleRows
    BY DEF PolicyInv, RowsTyped
  <1>2. CASE Commit
    BY <1>2 DEF Commit
  <1>3. CASE \E q \in Rules, s \in Scopes : add_rule(q, s)
    BY <1>1, <1>3 DEF add_rule, RuleRows
  <1>4. CASE \E q \in Rules : update_rule(q)
    <2>1. PICK q \in Rules : update_rule(q)
      BY <1>4
    <2>2. disabling[q] \in Rule /\ rules[q] # None /\ rules' = [rules EXCEPT ![q] = [disabling[q] EXCEPT !.status = "disabled"]]
      BY <1>1, <2>1 DEF update_rule, RuleRows
    <2>3. q = r /\ rules'[r] = [disabling[q] EXCEPT !.status = "disabled"]
      BY <1>1, <2>2 DEF RuleRows
    <2> QED  BY <2>2, <2>3 DEF Rule
  <1> QED  BY <1>2, <1>3, <1>4, WhoWrites

(***************************************************************************)
(* Nothing an operator decided is undone by a stale file or a late writer, *)
(* on either backend: caps are cleared only by those who say null or roll  *)
(* back, never by an export applied again; and no late                     *)
(* disable_auto_approval_rule brings back a rule that was removed.         *)
(***************************************************************************)
THEOREM ChangesStayDeliberate == PolicySpec => ChangesAreDeliberate
  <1>1. PolicyInv /\ [PolicyNext]_policyVars =>
          [\A a \in Agents :
             bounds[a] # None /\ bounds[a].cap # None /\ bounds'[a] # None /\ bounds'[a].cap = None =>
               \/ \E s \in Scopes : set_bounds(a, s, Null)
               \/ txn.stage = "commit" /\ txn.kind = "rollback"
               \/ /\ txn.stage = "commit" /\ ~txn.reapply
                  /\ a \in DOMAIN txn.doc.bounds /\ txn.doc.bounds[a].cap = Null]_policyVars
    BY ClearingIsAvowed DEF CapCleared, Avowed
  <1>2. PolicyInv /\ [PolicyNext]_policyVars =>
          [\A r \in Rules : rules'[r] # None /\ rules'[r] # rules[r] =>
             \/ txn.stage = "commit"
             \/ rules[r] = None /\ rules'[r].status = "active"
             \/ rules[r] # None /\ rules'[r].status = "disabled"]_policyVars
    BY RulesChangeByDecision
  <1>3. PolicySpec => CapsAreClearedExplicitly
    BY <1>1, PolicyInvariant, PTL DEF PolicySpec, CapsAreClearedExplicitly
  <1>4. PolicySpec => RulesComeFromDecisions
    BY <1>2, PolicyInvariant, PTL DEF PolicySpec, RulesComeFromDecisions
  <1> QED  BY <1>3, <1>4 DEF ChangesAreDeliberate

=============================================================================
