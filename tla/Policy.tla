------------------------------- MODULE Policy -------------------------------
(***************************************************************************)
(* The control-plane state of one workspace that a policy document covers: *)
(* issuance bounds, auto-approval rules and mandates; the documents that   *)
(* change it, the versions each change records, rollback, and the direct   *)
(* changes of operators, which go through no document.                     *)
(*                                                                         *)
(* An apply or a rollback is one transaction, one at a time in a           *)
(* workspace.  On SQLite it holds the database's write lock from BEGIN     *)
(* IMMEDIATE on, so that nothing is written beside it.  On PostgreSQL it   *)
(* holds an advisory lock that only other applies and rollbacks ask for:   *)
(* its statements see, under READ COMMITTED, what others have committed,   *)
(* and a direct change waits for it only on a row it has written.          *)
(* Names, timestamps and authors are left out; what a bound or a rule says *)
(* is a model value.                                                       *)
(***************************************************************************)
EXTENDS Naturals, Sequences, FiniteSets

CONSTANTS
    Agents, Workspace,  \* who holds settings; Workspace is the row of agent_id ""
    Rules,
    Scopes,             \* what a bound or a rule may allow
    Caps,               \* the values of a TTL cap
    None,               \* no row, no value
    Absent, Null,       \* a cap that is not declared; one declared as null
    Documents,          \* policy files an operator may apply
    Backends,           \* the storage services to consider: "sqlite", "postgres"
    BoundaryDefault,    \* the schema default of require_boundary
    MaxVersions,        \* bound on recorded versions
    MaxWrites           \* bound on direct changes

Mandates == {"boundary", "token", "pop"}
Kept == Mandates \ {"boundary"}     \* not part of a policy document
Setting == {"unset", "on", "off"}
Holders == Agents \cup {Workspace}

\* A cap as a document or a call declares it: absent keeps the stored one, null clears it.
CapSpec == Caps \cup {Absent, Null}
Bound == [scopes : Scopes, cap : Caps \cup {None}]
Rule == [scopes : Scopes, status : {"active", "disabled"}]
Partial(S, T) == UNION {[D -> T] : D \in SUBSET S}
Document ==
    [bounds : Partial(Agents, [scopes : Scopes, cap : CapSpec]),
     rules : Partial(Rules, Rule),
     workspace : Setting,                \* "unset": the document does not say
     agents : SUBSET Agents]
ASSUME PolicyAssumption ==
    /\ Workspace \notin Agents
    /\ Absent # Null /\ {None, Absent, Null} \cap Caps = {}
    /\ None \notin Bound \cup Rule \cup Document
    /\ Backends \subseteq {"sqlite", "postgres"} /\ Backends # {}
    /\ BoundaryDefault \in BOOLEAN
    /\ MaxVersions \in Nat /\ MaxWrites \in Nat
    /\ \A d \in Documents : d \in Document

VARIABLES
    bounds, rules, settings,    \* the committed rows; None or all "unset": no row
    versions,                   \* policy_versions
    txn,                        \* the open policy transaction
    disabling,                  \* rules as disable_auto_approval_rule has read them
    export,                     \* the export in progress, and the last one made
    writes,                     \* direct changes so far
    backend                     \* the storage service, chosen when the service starts

rows == <<bounds, rules, settings>>
policyVars == <<rows, versions, txn, disabling, export, writes, backend>>

\* The rows the open transaction has written, on top of the committed ones.
Over(base, own) == [x \in DOMAIN base |-> IF x \in DOMAIN own THEN own[x] ELSE base[x]]
NoRows == [x \in {} |-> None]
Idle == [stage |-> "idle", kind |-> None, source |-> 0, doc |-> None, reapply |-> FALSE,
         bounds |-> NoRows, rules |-> NoRows, settings |-> NoRows, snapshot |-> None]
NoExport == [stage |-> "idle", listed |-> NoRows, bounds |-> NoRows, rules |-> NoRows]

Blank == [m \in Mandates |-> "unset"]
Present(table) == {x \in DOMAIN table : table[x] # None}
SettingsRows == {h \in Holders : settings[h] # Blank}

PolicyInit ==
    /\ bounds = [a \in Agents |-> None]
    /\ rules = [r \in Rules |-> None]
    /\ settings = [h \in Holders |-> Blank]
    /\ versions = << >>
    /\ txn = Idle
    /\ disabling = [r \in Rules |-> None]
    /\ export = [work |-> NoExport, made |-> None]
    /\ writes = 0
    /\ backend \in Backends

-----------------------------------------------------------------------------
(***************************************************************************)
(* The direct changes of operators, each one transaction with its audit    *)
(* event.                                                                  *)
(***************************************************************************)
\* The upsert of set_bounds.
Declared(row, scopes, cap) ==
    [scopes |-> scopes,
     cap |-> CASE cap = Null -> None
               [] cap = Absent -> IF row = None THEN None ELSE row.cap
               [] OTHER -> cap]

MayWrite(x, own) ==
    /\ writes < MaxWrites
    /\ txn.stage = "idle" \/ (backend = "postgres" /\ x \notin DOMAIN own)

set_bounds(a, scopes, cap) ==
    /\ MayWrite(a, txn.bounds)
    /\ bounds' = [bounds EXCEPT ![a] = Declared(@, scopes, cap)]
    /\ writes' = writes + 1
    /\ UNCHANGED <<rules, settings, versions, txn, disabling, export, backend>>

\* One setter for the three settings: it writes its own value and presence bit.
set_require(h, mandate, value) ==
    /\ MayWrite(h, txn.settings)
    /\ settings' = [settings EXCEPT ![h][mandate] = value]
    /\ writes' = writes + 1
    /\ UNCHANGED <<bounds, rules, versions, txn, disabling, export, backend>>

add_rule(r, scopes) ==
    /\ MayWrite(r, txn.rules)
    /\ rules[r] = None
    /\ rules' = [rules EXCEPT ![r] = [scopes |-> scopes, status |-> "active"]]
    /\ writes' = writes + 1
    /\ UNCHANGED <<bounds, settings, versions, txn, disabling, export, backend>>

\* disable_auto_approval_rule reads the rule in one transaction ...
DisableRead(r) ==
    /\ disabling[r] = None /\ rules[r] # None
    /\ writes < MaxWrites
    /\ disabling' = [disabling EXCEPT ![r] = rules[r]]
    /\ writes' = writes + 1
    /\ UNCHANGED <<rows, versions, txn, export, backend>>

\* ... and writes what it read, disabled, in another: nothing when the rule is gone.
update_rule(r) ==
    /\ disabling[r] # None
    /\ txn.stage = "idle" \/ (backend = "postgres" /\ r \notin DOMAIN txn.rules)
    /\ rules' = IF rules[r] = None THEN rules
                ELSE [rules EXCEPT ![r] = [disabling[r] EXCEPT !.status = "disabled"]]
    /\ disabling' = [disabling EXCEPT ![r] = None]
    /\ UNCHANGED <<bounds, settings, versions, txn, export, writes, backend>>

-----------------------------------------------------------------------------
(***************************************************************************)
(* A policy transaction: the document's bounds, rules and boundary         *)
(* settings, or the restored ones, then the three reads of the snapshot,   *)
(* then the commit.                                                        *)
(***************************************************************************)
MayBegin == txn.stage = "idle" /\ Len(versions) < MaxVersions

apply_policy_file(doc, again) ==
    /\ MayBegin
    /\ txn' = [Idle EXCEPT !.stage = "bounds", !.kind = "apply", !.doc = doc, !.reapply = again]
    /\ UNCHANGED <<rows, versions, disabling, export, writes, backend>>

\* The stored snapshot is read under the lock; an unknown version changes nothing.
rollback_policy_version(v) ==
    /\ MayBegin
    /\ txn' = [Idle EXCEPT !.stage = "bounds", !.kind = "rollback", !.source = v,
                           !.doc = versions[v].snapshot]
    /\ UNCHANGED <<rows, versions, disabling, export, writes, backend>>

\* Variant: rows the snapshot does not have are left alone.
RestoredAdditively(base, saved) == [x \in Present(saved) |-> saved[x]]

\* DELETE and INSERT: the rows there were, and the rows of the snapshot.
Restored(base, saved) == [x \in Present(base) \cup Present(saved) |-> saved[x]]

BoundsStatement ==
    /\ txn.stage = "bounds"
    /\ txn' = [txn EXCEPT !.stage = "rules", !.bounds =
         IF txn.kind = "rollback" THEN Restored(bounds, txn.doc.bounds)
         ELSE [a \in DOMAIN txn.doc.bounds |->
                 Declared(bounds[a], txn.doc.bounds[a].scopes, txn.doc.bounds[a].cap)]]
    /\ UNCHANGED <<rows, versions, disabling, export, writes, backend>>

RulesStatement ==
    /\ txn.stage = "rules"
    /\ txn' = [txn EXCEPT !.stage = "settings", !.rules =
         IF txn.kind = "rollback" THEN Restored(rules, txn.doc.rules) ELSE txn.doc.rules]
    /\ UNCHANGED <<rows, versions, disabling, export, writes, backend>>

\* An apply turns agents on only; the workspace either way.
AppliedSettings(doc) ==
    [h \in doc.agents \cup (IF doc.workspace = "unset" THEN {} ELSE {Workspace}) |->
       [settings[h] EXCEPT !.boundary = IF h = Workspace THEN doc.workspace ELSE "on"]]

\* A plausible slip: rows with a mandate that is on go as well.
DeletedBlindly(h, saved) == backend = "sqlite" => saved[h] = "unset"

\* A rollback deletes the rows that neither hold the token or the proof mandate
\* nor, on SQLite, get a boundary setting back, and then upserts those it saved.
Deleted(h, saved) ==
    /\ \A m \in Kept : settings[h][m] # "on"
    /\ backend = "sqlite" => saved[h] = "unset"

RestoredSettings(saved) ==
    [h \in SettingsRows \cup {x \in Holders : saved[x] # "unset"} |->
       [(IF Deleted(h, saved) THEN Blank ELSE settings[h]) EXCEPT !.boundary = saved[h]]]

SettingsStatement ==
    /\ txn.stage = "settings"
    /\ txn' = [txn EXCEPT !.stage = "snapshot_bounds", !.settings =
         IF txn.kind = "rollback" THEN RestoredSettings(txn.doc.boundary)
         ELSE AppliedSettings(txn.doc)]
    /\ UNCHANGED <<rows, versions, disabling, export, writes, backend>>

Boundary(set) == [h \in Holders |-> set[h].boundary]

SnapshotBounds ==
    /\ txn.stage = "snapshot_bounds"
    /\ txn' = [txn EXCEPT !.stage = "snapshot_rules", !.snapshot =
         [bounds |-> Over(bounds, txn.bounds), rules |-> None, boundary |-> None]]
    /\ UNCHANGED <<rows, versions, disabling, export, writes, backend>>

SnapshotRules ==
    /\ txn.stage = "snapshot_rules"
    /\ txn' = [txn EXCEPT !.stage = "snapshot_settings",
                          !.snapshot.rules = Over(rules, txn.rules)]
    /\ UNCHANGED <<rows, versions, disabling, export, writes, backend>>

\* Variant: the settings are read outside the transaction.
SnapshotCommittedSettings ==
    /\ txn.stage = "snapshot_settings"
    /\ txn' = [txn EXCEPT !.stage = "commit", !.snapshot.boundary = Boundary(settings)]
    /\ UNCHANGED <<rows, versions, disabling, export, writes, backend>>

SnapshotSettings ==
    /\ txn.stage = "snapshot_settings"
    /\ txn' = [txn EXCEPT !.stage = "commit",
                          !.snapshot.boundary = Boundary(Over(settings, txn.settings))]
    /\ UNCHANGED <<rows, versions, disabling, export, writes, backend>>

\* The version, the audit event and the rows commit together.
Commit ==
    /\ txn.stage = "commit"
    /\ versions' = Append(versions, [action |-> txn.kind, source |-> txn.source,
                                     snapshot |-> txn.snapshot])
    /\ bounds' = Over(bounds, txn.bounds)
    /\ rules' = Over(rules, txn.rules)
    /\ settings' = Over(settings, txn.settings)
    /\ txn' = Idle
    /\ UNCHANGED <<disabling, export, writes, backend>>

\* Any statement, or the commit, may fail: nothing is kept.
Abort ==
    /\ txn.stage # "idle"
    /\ txn' = Idle
    /\ UNCHANGED <<rows, versions, disabling, export, writes, backend>>

-----------------------------------------------------------------------------
(***************************************************************************)
(* The export: a list of the bounds' scopes, each agent's cap in a read of *)
(* its own, the rules, the boundary settings.                              *)
(***************************************************************************)
ExportList ==
    /\ export.work.stage = "idle"
    /\ export' = [export EXCEPT
         !.work = [NoExport EXCEPT !.stage = "caps",
                                   !.listed = [a \in Present(bounds) |-> bounds[a].scopes]],
         !.made = None]
    /\ UNCHANGED <<rows, versions, txn, disabling, writes, backend>>

\* Variant: a missing cap is exported as null.
ExportedNull(row) == IF row = None \/ row.cap = None THEN Null ELSE row.cap

\* An agent without a cap gets no max_ttl key, and neither does one whose row is gone.
ExportedCap(row) == IF row = None \/ row.cap = None THEN Absent ELSE row.cap

ExportCap(a) ==
    LET work == export.work IN
    /\ work.stage = "caps" /\ a \in DOMAIN work.listed
    /\ export' = [export EXCEPT !.work =
         [work EXCEPT !.listed = [b \in DOMAIN work.listed \ {a} |-> work.listed[b]],
                      !.bounds = [b \in DOMAIN work.bounds \cup {a} |->
                          IF b = a THEN [scopes |-> work.listed[a], cap |-> ExportedCap(bounds[a])]
                          ELSE work.bounds[b]]]]
    /\ UNCHANGED <<rows, versions, txn, disabling, writes, backend>>

ExportRules ==
    /\ export.work.stage = "caps" /\ DOMAIN export.work.listed = {}
    /\ export' = [export EXCEPT !.work.stage = "settings",
                                !.work.rules = [r \in Present(rules) |-> rules[r]]]
    /\ UNCHANGED <<rows, versions, txn, disabling, writes, backend>>

\* Agents that are exempt are not exported: a document can only turn agents on.
ExportedAgents == {a \in Agents : settings[a].boundary = "on"}

ExportSettings ==
    /\ export.work.stage = "settings"
    /\ export' = [work |-> NoExport,
                  made |-> [bounds |-> export.work.bounds, rules |-> export.work.rules,
                            workspace |-> settings[Workspace].boundary,
                            agents |-> ExportedAgents]]
    /\ UNCHANGED <<rows, versions, txn, disabling, writes, backend>>

PolicyNext ==
    \/ \E a \in Agents, s \in Scopes, cap \in CapSpec : set_bounds(a, s, cap)
    \/ \E h \in Holders, m \in Mandates, v \in {"on", "off"} : set_require(h, m, v)
    \/ \E r \in Rules, s \in Scopes : add_rule(r, s)
    \/ \E r \in Rules : DisableRead(r) \/ update_rule(r)
    \/ \E doc \in Documents : apply_policy_file(doc, FALSE)
    \/ export.made # None /\ apply_policy_file(export.made, TRUE)
    \/ \E v \in DOMAIN versions : rollback_policy_version(v)
    \/ BoundsStatement \/ RulesStatement \/ SettingsStatement
    \/ SnapshotBounds \/ SnapshotRules \/ SnapshotSettings
    \/ Commit \/ Abort
    \/ ExportList \/ (\E a \in Agents : ExportCap(a)) \/ ExportRules \/ ExportSettings

PolicySpec == PolicyInit /\ [][PolicyNext]_policyVars

-----------------------------------------------------------------------------
(***************************************************************************)
(* Properties.                                                             *)
(***************************************************************************)
\* The live state, as _snapshot_policy_state would store it.
Live == [bounds |-> bounds, rules |-> rules, boundary |-> Boundary(settings)]

\* "no reader ever observes ... a version snapshot that disagrees with the live
\* policy" (the SQLite apply): a version that becomes visible says what is in force
\* at that moment, whatever was written before, between or after its statements.
SnapshotsAgree ==
    [][backend = "sqlite" /\ Len(versions') > Len(versions)
         => versions'[Len(versions')].snapshot = Live']_policyVars

\* A rollback ends in exactly the bounds, rules and boundary settings of the version
\* it names, whatever was added, changed or removed since, by documents or directly
\* (on SQLite: on PostgreSQL a direct change may commit in the middle).
RollbackIsExact ==
    backend = "sqlite" => \A v \in DOMAIN versions : versions[v].action = "rollback" =>
        versions[v].snapshot = versions[versions[v].source].snapshot

Required(set, a, m) ==
    IF set[a][m] # "unset" THEN set[a][m] = "on"
    ELSE IF set[Workspace][m] # "unset" THEN set[Workspace][m] = "on"
    ELSE m = "boundary" /\ BoundaryDefault

Restores == txn.kind = "rollback" /\ Len(versions') > Len(versions)

\* A rollback takes the token and the proof mandate from no agent: whoever had to
\* prove something before still has to, whatever rows the restore removed.
RollbackNeverExempts ==
    [][Restores => \A a \in Agents, m \in Kept :
         Required(settings, a, m) => Required(settings', a, m)]_policyVars

\* "Subject-token and PoP mandates remain unchanged during rollback."
RollbackKeepsMandates ==
    [][Restores => \A a \in Agents, m \in Kept :
         Required(settings, a, m) <=> Required(settings', a, m)]_policyVars

\* No change but one that says so takes an agent's cap away while its bounds stay:
\* a null in the call or the document, or a rollback to a state without the cap. In
\* particular no export, however stale, that is applied again.
CapsAreClearedExplicitly ==
    [][\A a \in Agents :
         bounds[a] # None /\ bounds[a].cap # None /\ bounds'[a] # None /\ bounds'[a].cap = None =>
           \/ \E s \in Scopes : set_bounds(a, s, Null)
           \/ txn.stage = "commit" /\ txn.kind = "rollback"
           \/ /\ txn.stage = "commit" /\ ~txn.reapply
              /\ a \in DOMAIN txn.doc.bounds /\ txn.doc.bounds[a].cap = Null]_policyVars

\* A rule an operator has disabled works again only by a document or a rollback: no
\* late disable, racing one of them, brings back a rule that was removed, and no
\* creation overwrites one.
RulesComeFromDecisions ==
    [][\A r \in Rules : rules'[r] # None /\ rules'[r] # rules[r] =>
         \/ txn.stage = "commit"
         \/ rules[r] = None /\ rules'[r].status = "active"
         \/ rules[r] # None /\ rules'[r].status = "disabled"]_policyVars

\* What an apply of the document makes of the live state.
Applied(doc) ==
    [bounds |-> Over(bounds, [a \in DOMAIN doc.bounds |->
                    Declared(bounds[a], doc.bounds[a].scopes, doc.bounds[a].cap)]),
     rules |-> Over(rules, doc.rules),
     boundary |-> Boundary(Over(settings, AppliedSettings(doc)))]

\* An export that was not disturbed: as if its reads were one.
Exported ==
    [bounds |-> [a \in Present(bounds) |->
                   [scopes |-> bounds[a].scopes, cap |-> ExportedCap(bounds[a])]],
     rules |-> [r \in Present(rules) |-> rules[r]],
     workspace |-> settings[Workspace].boundary,
     agents |-> ExportedAgents]

\* Exporting the policy and applying the file changes nothing: what an export leaves
\* out (absent caps, exempt agents) is what an apply leaves alone.
ReapplyIsQuiet == Applied(Exported) = Live

\* What was written can be had again: a rollback restores the version it names, an
\* export applied to the state it was taken from changes nothing.
RoundTripsAreExact == RollbackIsExact /\ ReapplyIsQuiet

\* Nothing an operator decided is undone by a stale file or a late writer.
ChangesAreDeliberate == CapsAreClearedExplicitly /\ RulesComeFromDecisions
=============================================================================
