---------------------------- MODULE AuditReports ----------------------------
(***************************************************************************)
(* The reports of the MCP server: an object of the service read together    *)
(* with its complete audit history, walked page by page over HTTP while     *)
(* other callers append to the log and while an operator may replace the    *)
(* database by a backup of itself.                                          *)
(*                                                                          *)
(* One grant request, the grant it leads to and one boundary stand for the  *)
(* objects; the writers are the MCP write tools and the agents that use the *)
(* grant.  An event is its id and its type; its sequence number is its      *)
(* position.  Each request of the walk is one step: the service answers it  *)
(* from one read of an append-only table.                                   *)
(***************************************************************************)
EXTENDS Integers, Sequences, FiniteSetsExt, SequencesExt

CONSTANTS
    PageSize,     \* the limit of a page (100 in the code)
    MaxWritten,   \* bound: events ever written
    MaxRestores   \* bound: restores of a backup

ASSUME ReportsAssumption ==
    PageSize \in Nat \ {0} /\ MaxWritten \in Nat /\ MaxRestores \in Nat

VARIABLES
    log,       \* audit_events, by sequence number
    objects,   \* the request, the grant and the boundary as stored
    backup,    \* the last backup of log and objects
    written,   \* event ids given out
    restores,  \* restores so far
    call       \* the report in progress

reportVars == <<log, objects, backup, written, restores, call>>

NoCursor == 0  \* an absent cursor

\* The events each filter of list_filtered selects.
Matches == [request  |-> {"requested", "approved", "rejected"},
            grant    |-> {"issued", "approved", "used", "revoked"},
            boundary |-> {"used", "set"}]
Filters == DOMAIN Matches

\* The events that record a change of each object.
Changes == [request  |-> {"requested", "approved", "rejected"},
            grant    |-> {"issued", "revoked"},
            boundary |-> {"set"}]

\* seen, expected and since only serve the properties: the changes the objects read
\* already showed, the history of the filter at the first page, the restores before.
Idle == [pc |-> "idle", kind |-> "none", issued |-> FALSE, filter |-> "request",
         snapshot |-> NoCursor, before |-> NoCursor, walked |-> <<>>, first |-> <<>>,
         timeline |-> <<>>, seen |-> {}, expected |-> <<>>, since |-> 0]

ReportsInit ==
    /\ log = <<[id |-> 1, type |-> "requested"]>>
    /\ objects = [request |-> "pending", grant |-> "none", boundary |-> "enabled"]
    /\ backup = [log |-> log, objects |-> objects]
    /\ written = 1 /\ restores = 0
    /\ call = Idle

(***************************************************************************)
(* Writers.  A change and its events commit together (AuditTrail).          *)
(***************************************************************************)
Store(types) ==
    /\ written + Len(types) <= MaxWritten
    /\ log' = log \o [i \in DOMAIN types |-> [id |-> written + i, type |-> types[i]]]
    /\ written' = written + Len(types)
    /\ UNCHANGED <<backup, restores, call>>

Change(object, from, to, types) ==
    /\ objects[object] = from
    /\ objects' = [objects EXCEPT ![object] = to]
    /\ Store(types)

\* approve_grant_request and auto_approve_grant_request issue the grant as well.
Approve ==
    /\ objects.request = "pending"
    /\ objects' = [objects EXCEPT !.request = "approved", !.grant = "active"]
    /\ Store(<<"issued", "approved">>)

Reject == Change("request", "pending", "rejected", <<"rejected">>)
Revoke == Change("grant", "active", "revoked", <<"revoked">>)
DisableBoundary == Change("boundary", "enabled", "disabled", <<"set">>)
EnableBoundary == Change("boundary", "disabled", "enabled", <<"set">>)

\* An agent uses its grant: a decision of the boundary, permit or deny.
Use ==
    /\ objects.grant # "none"
    /\ Store(<<"used">>)
    /\ UNCHANGED objects

TakeBackup ==
    /\ restores < MaxRestores
    /\ backup' = [log |-> log, objects |-> objects]
    /\ UNCHANGED <<log, objects, written, restores, call>>

\* The service is stopped, a backup takes the database's place, the service starts again.
RestoreBackup ==
    /\ restores < MaxRestores /\ backup.log # log
    /\ log' = backup.log /\ objects' = backup.objects
    /\ restores' = restores + 1
    /\ UNCHANGED <<backup, written, call>>

Writers == Approve \/ Reject \/ Revoke \/ DisableBoundary \/ EnableBoundary \/ Use
           \/ TakeBackup \/ RestoreBackup

(***************************************************************************)
(* GET /v1/audit-events with page=true.                                     *)
(***************************************************************************)
\* Variant: an unknown cursor is past the end.
PositionOrEnd(id) ==
    IF \E i \in DOMAIN log : log[i].id = id
    THEN CHOOSE i \in DOMAIN log : log[i].id = id
    ELSE Len(log) + 1

\* The sequence number of a cursor's event, if this database has the event.
Position(id) ==
    IF \E i \in DOMAIN log : log[i].id = id
    THEN CHOOSE i \in DOMAIN log : log[i].id = id
    ELSE NoCursor

\* list_filtered refuses a cursor of another database, or cursors out of order.
CursorsHold(snapshot, before) ==
    /\ snapshot # NoCursor => Position(snapshot) # NoCursor
    /\ before # NoCursor => Position(before) # NoCursor /\ Position(before) <= Position(snapshot)

\* The sequence numbers list_filtered selects, before it limits them.
Selected(filter, snapshot, before) ==
    {i \in DOMAIN log :
        /\ log[i].type \in Matches[filter]
        /\ snapshot # NoCursor => i <= Position(snapshot)
        /\ before # NoCursor => i < Position(before)}

Newest(S, n) == {i \in S : Cardinality({j \in S : j > i}) < n}

\* Events by sequence number: each comes after those with a smaller one.
InOrder(events) ==
    [k \in 1..Cardinality(events) |->
        CHOOSE e \in events : Cardinality({d \in events : d.seq < e.seq}) = k - 1]
EventsAt(S) == InOrder({[seq |-> i, id |-> log[i].id] : i \in S})

\* Variant: every page names its own newest event as the snapshot.
PageReplyAtTail(filter, snapshot, before) ==
    LET rows == Newest(Selected(filter, snapshot, before), PageSize + 1)
        hasMore == Cardinality(rows) > PageSize
        events == EventsAt(Newest(rows, PageSize))
    IN  [events   |-> events,
         snapshot |-> IF events # <<>> THEN Last(events).id ELSE snapshot,
         next     |-> IF hasMore THEN Head(events).id ELSE NoCursor]

\* The handler asks for one row more than the page to know whether there is another page.
PageReply(filter, snapshot, before) ==
    LET rows == Newest(Selected(filter, snapshot, before), PageSize + 1)
        hasMore == Cardinality(rows) > PageSize
        events == EventsAt(Newest(rows, PageSize))
    IN  [events   |-> events,
         snapshot |-> IF snapshot = NoCursor /\ events # <<>> THEN Last(events).id ELSE snapshot,
         next     |-> IF hasMore THEN Head(events).id ELSE NoCursor]

(***************************************************************************)
(* The client: grant_report, boundary_report and grant_request_report.      *)
(***************************************************************************)
Ids(events) == {events[i].id : i \in DOMAIN events}
Shown(object) == {log[i].id : i \in {j \in DOMAIN log : log[j].type \in Changes[object]}}

\* A walk starts after the object it is about has been read.
WalkOf(object, report) ==
    [report EXCEPT !.pc = "walk", !.filter = object, !.seen = @ \cup Shown(object),
                   !.snapshot = NoCursor, !.before = NoCursor, !.walked = <<>>]

Report(kind) ==
    /\ call.pc = "idle" /\ objects[kind] # "none"
    /\ call' = WalkOf(kind, [Idle EXCEPT !.kind = kind, !.since = restores,
                              !.issued = kind = "request" /\ objects.request = "approved"])
    /\ UNCHANGED <<log, objects, backup, written, restores>>

\* What _complete_audit_events refuses in a page.  A repeated page cursor would be a
\* repeated event.
Malformed(reply) ==
    \/ call.before # NoCursor /\ reply.events = <<>>
    \/ Ids(reply.events) \cap Ids(call.walked) # {}
    \/ IF call.snapshot = NoCursor
       THEN reply.snapshot # (IF reply.events = <<>> THEN NoCursor ELSE Last(reply.events).id)
       ELSE reply.snapshot # call.snapshot
    \/ /\ reply.next # NoCursor
       /\ reply.snapshot = NoCursor \/ reply.events = <<>> \/ Head(reply.events).id # reply.next

InSequence(events) == \A i \in 1..(Len(events) - 1) : events[i].seq < events[i + 1].seq

\* _merge_audit_event_streams: overlapping events must agree, then all by sequence number.
Disagree(one, two) ==
    \E i \in DOMAIN one, j \in DOMAIN two :
        one[i] # two[j] /\ (one[i].id = two[j].id \/ one[i].seq = two[j].seq)
Merged(one, two) == InOrder(ToSet(one) \cup ToSet(two))

Finished(report, timeline) == [report EXCEPT !.pc = "done", !.timeline = timeline]

\* The end of a walk: a request with an issued grant continues with the grant.
EndWalk(report) ==
    IF ~InSequence(report.walked) THEN [report EXCEPT !.pc = "alarm"]
    ELSE IF report.issued /\ report.filter = "request" THEN
        [report EXCEPT !.pc = "grant", !.first = report.walked]
    ELSE IF ~report.issued THEN Finished(report, report.walked)
    ELSE IF Disagree(report.first, report.walked) THEN [report EXCEPT !.pc = "alarm"]
    ELSE Finished(report, Merged(report.first, report.walked))

Walk(reply) ==
    LET read == [call EXCEPT !.walked = reply.events \o @,
                             !.snapshot = reply.snapshot, !.before = reply.next,
                             !.expected = IF call.snapshot = NoCursor
                                          THEN EventsAt(Selected(call.filter, NoCursor, NoCursor))
                                          ELSE @]
    IN  IF Malformed(reply) THEN [call EXCEPT !.pc = "alarm"]
        ELSE IF reply.next = NoCursor THEN EndWalk(read) ELSE read

\* One page: the service refuses the cursors (400) or answers.
GetPage ==
    /\ call.pc = "walk"
    /\ call' = IF CursorsHold(call.snapshot, call.before)
               THEN Walk(PageReply(call.filter, call.snapshot, call.before))
               ELSE [call EXCEPT !.pc = "refused"]
    /\ UNCHANGED <<log, objects, backup, written, restores>>

\* The issued grant is read, or no longer there (404), then its events are walked.
GetIssuedGrant ==
    /\ call.pc = "grant"
    /\ call' = IF objects.grant = "none" THEN [call EXCEPT !.pc = "refused"]
               ELSE WalkOf("grant", call)
    /\ UNCHANGED <<log, objects, backup, written, restores>>

\* A request of the report fails; none is repeated.
RequestFails ==
    /\ call.pc \in {"walk", "grant"}
    /\ call' = [call EXCEPT !.pc = "failed"]
    /\ UNCHANGED <<log, objects, backup, written, restores>>

Return ==
    /\ call.pc \in {"done", "alarm", "refused", "failed"}
    /\ call' = Idle
    /\ UNCHANGED <<log, objects, backup, written, restores>>

ReportsNext ==
    Writers \/ GetPage \/ GetIssuedGrant \/ RequestFails \/ Return
    \/ \E kind \in Filters : Report(kind)

ReportsSpec == ReportsInit /\ [][ReportsNext]_reportVars

(***************************************************************************)
(* Properties.                                                              *)
(***************************************************************************)
(* A walk that ends is the complete history its first page looked at: no     *)
(* event is missing, repeated or of another history, although the log grows  *)
(* between two pages and the database may be replaced by a backup between    *)
(* them (tools.py _complete_audit_events, sqlite.py list_filtered).          *)
WalksAreExact ==
    call.pc \in {"grant", "done"} => call.walked = call.expected

(* A report's timeline explains the object it shows: the objects are read    *)
(* before their events, so every change visible in one has its event in the  *)
(* timeline unless the database was replaced meanwhile (tools.py             *)
(* grant_report, boundary_report, grant_request_report).                     *)
TimelineCoversObject ==
    call.pc = "done" /\ restores = call.since => call.seen \subseteq Ids(call.timeline)

(* A finished report is the whole history, and explains what it shows.       *)
ReportsAreExact == WalksAreExact /\ TimelineCoversObject

(* The checks of the client never refuse an honest service: without a        *)
(* restore no page, chronology or overlap of two walks looks inconsistent    *)
(* and no cursor is unknown, whatever is appended meanwhile.                 *)
HonestWalksSucceed ==
    restores = call.since => call.pc \notin {"alarm", "refused"}
=============================================================================
