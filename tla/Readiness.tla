----------------------------- MODULE Readiness -----------------------------
(***************************************************************************)
(* /readyz against PostgreSQL: BoundedBackendProbe, which runs the check   *)
(* on a worker thread under a deadline, and PostgresReadinessProbe, the    *)
(* check, which owns its connections and can be cancelled.                 *)
(*                                                                         *)
(* A worker whose call does not return is abandoned and replaced, up to a  *)
(* limit; a reclaimer thread cancels what is older than the bound over new *)
(* connections.  The check ends with the connection the process serves     *)
(* its requests on, which reconnects when it is used.                      *)
(*                                                                         *)
(* One step per critical section and per event flag.  A deadline passes at *)
(* any moment.  A delivered cancel ends the statement it finds.            *)
(***************************************************************************)
EXTENDS Integers, FiniteSets

CONSTANTS
    Callers,        \* requests to /readyz at a time
    MaxAbandoned,   \* MAX_ABANDONED_READINESS_WORKERS
    Workers,        \* worker threads
    Conns           \* connections of the check

\* There is always another thread and another connection to be had.
ASSUME ReadinessAssumption ==
    /\ MaxAbandoned \in Nat
    /\ IsFiniteSet(Workers) /\ Cardinality(Workers) > MaxAbandoned /\ 0 \notin Workers
    /\ IsFiniteSet(Conns) /\ Cardinality(Conns) > MaxAbandoned /\ 0 \notin Conns

VARIABLES
    up,         \* the store answers, and threads start and run
    serving,    \* the connection requests are served on
    caller,     \* where each caller is
    probe,      \* BoundedBackendProbe._probe
    current,    \* _worker, 0 when None
    worker,     \* the worker threads with the call each has under way
    abandoned,  \* _abandoned
    reclaim,    \* the reclaimer thread runs and its _reclaim event is set
    sweep,      \* connections a cancel is being sent for
    parked,     \* PostgresReadinessProbe._connection, 0 when None
    open,       \* connections of the check that are open
    tainted,    \* history: open connections a cancel was attempted against
    closed,     \* BoundedBackendProbe._closed
    pgClosed    \* PostgresReadinessProbe._closed

backendVars == <<up, serving>>
reclaimVars == <<reclaim, sweep>>
connVars == <<parked, open, tainted>>
vars == <<backendVars, caller, probe, current, worker, abandoned, reclaimVars, connVars,
          closed, pgClosed>>

\* "open": usable, or lost and not yet noticed; "busy": a request holds its
\* lock; "quarantined": closed, and is_ready is false.
ServingStates == {"open", "busy", "quarantined"}

Stages == {"none", "start", "wait", "woken", "check", "connect", "query", "wedged",
           "checkin", "serving", "done", "exit"}
\* The call is registered in PostgresReadinessProbe._active.
ActiveStages == {"connect", "query", "wedged", "checkin"}

NoWorker == [pc |-> "none", idle |-> FALSE, requested |-> FALSE, counted |-> FALSE,
             mine |-> FALSE, conn |-> 0, attempted |-> FALSE, ready |-> FALSE, reusable |-> FALSE]
\* None counts as finished: either is replaced by the next call.
NoProbe == [finished |-> TRUE, ready |-> FALSE, expired |-> FALSE, seenUp |-> FALSE]

Alive == {w \in Workers : worker[w].pc # "none"}
FreshWorker == CHOOSE w \in Workers : w \notin Alive
FreshConn == CHOOSE c \in Conns : c \notin open
-----------------------------------------------------------------------------
GiveAnswer(c) == caller' = [caller EXCEPT ![c] = "idle"]

\* An unfinished probe within its deadline is shared.
Joinable == ~probe.finished /\ ~probe.expired

\* What those who hold a probe that is replaced are about to be told.
ProbeOutcome == IF probe.finished /\ probe.ready THEN "ready" ELSE "late"

\* A probe is replaced once it is finished or its deadline has passed: those
\* who wait for it keep its outcome.
NewProbe(c) ==
    /\ probe' = [NoProbe EXCEPT !.finished = FALSE, !.seenUp = up]
    /\ caller' = [d \in Callers |-> IF d = c THEN "waiting"
                                   ELSE IF caller[d] = "waiting" THEN ProbeOutcome ELSE caller[d]]

\* _wake_reclaimer, whose thread may fail to start.
WakeReclaimer == reclaim' = TRUE \/ (~up /\ UNCHANGED reclaim)

CallClosed(c) ==
    /\ caller[c] = "idle" /\ closed
    /\ GiveAnswer(c)
    /\ UNCHANGED <<backendVars, probe, current, worker, abandoned, reclaimVars, connVars,
                   closed, pgClosed>>

CallJoins(c) ==
    /\ caller[c] = "idle" /\ ~closed /\ Joinable
    /\ caller' = [caller EXCEPT ![c] = "waiting"]
    /\ UNCHANGED <<backendVars, probe, current, worker, abandoned, reclaimVars, connVars,
                   closed, pgClosed>>

\* _servicing_worker: a parked worker takes the new probe.
CallReusesWorker(c) ==
    /\ caller[c] = "idle" /\ ~closed /\ ~Joinable
    /\ current # 0 /\ worker[current].idle
    /\ NewProbe(c)
    /\ worker' = [worker EXCEPT ![current].requested = TRUE]
    /\ UNCHANGED <<backendVars, current, abandoned, reclaimVars, connVars, closed, pgClosed>>

\* Variant: the limit is compared with one too few.
AtLimitLate == abandoned > MaxAbandoned

\* The store has swallowed every worker there may be.
AtLimit == abandoned >= MaxAbandoned

CallAtLimit(c) ==
    /\ caller[c] = "idle" /\ ~closed /\ ~Joinable
    /\ current # 0 /\ ~worker[current].idle /\ AtLimit
    /\ GiveAnswer(c)
    /\ WakeReclaimer
    /\ UNCHANGED <<backendVars, probe, current, worker, abandoned, sweep, connVars, closed, pgClosed>>

\* The worker that does not come back is abandoned, woken in case it merely
\* lost the race to park, and counted.
Abandon ==
    IF current = 0 THEN worker
    ELSE [worker EXCEPT ![current] = [@ EXCEPT !.requested = TRUE, !.counted = TRUE]]

\* Whatever probe a worker has read is no longer the one recorded.
Supersede(rows) == [w \in Workers |-> [rows[w] EXCEPT !.mine = FALSE]]

CountAbandoned ==
    IF current = 0 THEN UNCHANGED <<abandoned, reclaim>>
    ELSE abandoned' = abandoned + 1 /\ WakeReclaimer

CallStartsWorker(c) ==
    LET w == FreshWorker
    IN  /\ caller[c] = "idle" /\ ~closed /\ ~Joinable
        /\ current # 0 => ~worker[current].idle /\ ~AtLimit
        /\ NewProbe(c)
        /\ worker' = [Supersede(Abandon) EXCEPT ![w] = [NoWorker EXCEPT !.pc = "start", !.requested = TRUE]]
        /\ current' = w
        /\ CountAbandoned
        /\ UNCHANGED <<backendVars, sweep, connVars, closed, pgClosed>>

\* Thread.start() raises: the worker that does not come back is abandoned all
\* the same, no new one and no new probe are recorded (the old probe may still
\* be answered, for those who wait for it), and the caller is told FALSE.
CallCannotStart(c) ==
    /\ caller[c] = "idle" /\ ~closed /\ ~Joinable
    /\ current # 0 => ~worker[current].idle /\ ~AtLimit
    /\ ~up
    /\ GiveAnswer(c)
    /\ worker' = Abandon
    /\ current' = 0
    /\ CountAbandoned
    /\ UNCHANGED <<backendVars, probe, sweep, connVars, closed, pgClosed>>

\* The wait ends when the probe is finished or its deadline passes: finished,
\* it answers even late.  An answer everyone has had is forgotten.
AnswerWith(c, ready) ==
    /\ \/ /\ caller[c] = "waiting" /\ (probe.finished \/ probe.expired)
          /\ ready = (probe.finished /\ probe.ready)
       \/ caller[c] \in {"ready", "late"} /\ ready = (caller[c] = "ready")
    /\ GiveAnswer(c)
    /\ probe' = IF \A d \in Callers \ {c} : caller[d] # "waiting"
                THEN IF probe.finished THEN NoProbe ELSE [probe EXCEPT !.seenUp = FALSE]
                ELSE probe
    /\ UNCHANGED <<backendVars, current, worker, abandoned, reclaimVars, connVars, closed,
                   pgClosed>>

\* The deadline passes.  The bound leaves a store that answers the time it
\* needs: then only a wedged or a dead worker can miss it.
Expire ==
    /\ Joinable
    /\ up /\ current # 0 => worker[current].pc = "wedged"
    /\ probe' = [probe EXCEPT !.expired = TRUE]
    /\ UNCHANGED <<backendVars, caller, current, worker, abandoned, reclaimVars, connVars,
                   closed, pgClosed>>
-----------------------------------------------------------------------------
\* A worker goes on with the given record.
Become(w, record) ==
    /\ worker' = [worker EXCEPT ![w] = record]
    /\ UNCHANGED <<caller, current, abandoned, reclaimVars, closed, pgClosed>>

Park(w) ==
    /\ worker[w].pc = "start"
    /\ Become(w, [worker[w] EXCEPT !.pc = "wait", !.idle = TRUE])
    /\ UNCHANGED <<backendVars, probe, connVars>>

\* requested is cleared before idle, and idle before the probe is read.
Wake(w) ==
    /\ worker[w].pc = "wait" /\ worker[w].requested
    /\ Become(w, [worker[w] EXCEPT !.pc = "woken", !.requested = FALSE])
    /\ UNCHANGED <<backendVars, probe, connVars>>

Read(w) ==
    LET busy == [worker[w] EXCEPT !.idle = FALSE]
    IN  /\ worker[w].pc = "woken"
        /\ Become(w, IF closed \/ worker[w].counted THEN [busy EXCEPT !.pc = "exit"]
                     ELSE IF probe.finished THEN [busy EXCEPT !.pc = "start"]
                     ELSE [busy EXCEPT !.pc = "check", !.mine = TRUE])
        /\ UNCHANGED <<backendVars, probe, connVars>>

\* The call takes the idle connection out of its slot.
TakeParked(w) ==
    /\ Become(w, [worker[w] EXCEPT !.pc = IF parked = 0 THEN "connect" ELSE "query", !.conn = parked])
    /\ parked' = 0

\* PostgresReadinessProbe.__call__ up to its registration in _active.
Check(w) ==
    /\ worker[w].pc = "check"
    /\ IF serving = "quarantined" \/ pgClosed
       THEN Become(w, [worker[w] EXCEPT !.pc = "done"]) /\ UNCHANGED parked
       ELSE TakeParked(w)
    /\ UNCHANGED <<backendVars, probe, open, tainted>>

\* connect_postgres_readiness, bounded by connect_timeout.
Connect(w) ==
    /\ worker[w].pc = "connect"
    /\ IF up THEN /\ Become(w, [worker[w] EXCEPT !.pc = "query", !.conn = FreshConn])
                  /\ open' = open \cup {FreshConn}
       ELSE Become(w, [worker[w] EXCEPT !.pc = "checkin"]) /\ UNCHANGED open
    /\ UNCHANGED <<backendVars, probe, parked, tainted>>

\* SELECT 1 and the readiness queries: an answer, an error, or nothing at all.
Query(w) ==
    /\ worker[w].pc = "query"
    /\ \/ up /\ Become(w, [worker[w] EXCEPT !.pc = "checkin", !.ready = TRUE, !.reusable = TRUE])
       \/ ~up /\ \E answered \in BOOLEAN :
                    Become(w, [worker[w] EXCEPT !.pc = "checkin", !.reusable = answered])
       \/ ~up /\ Become(w, [worker[w] EXCEPT !.pc = "wedged"])
    /\ UNCHANGED <<backendVars, probe, connVars>>

\* Variant: only a cancel that took effect forbids reuse.
MayParkUnlessCancelled(w) ==
    worker[w].conn # 0 /\ worker[w].reusable /\ ~pgClosed /\ parked = 0

MayPark(w) ==
    worker[w].conn # 0 /\ worker[w].reusable /\ ~worker[w].attempted /\ ~pgClosed /\ parked = 0

\* _check_in: park the connection for the next probe, or close it; a cancel
\* that comes now finds it closed.
CheckIn(w) ==
    /\ worker[w].pc = "checkin"
    /\ worker' = [worker EXCEPT ![w] =
          [@ EXCEPT !.pc = IF worker[w].ready THEN "serving" ELSE "done",
                    !.conn = 0, !.attempted = FALSE, !.reusable = FALSE]]
    /\ IF MayPark(w) THEN parked' = worker[w].conn /\ UNCHANGED <<open, tainted, sweep>>
       ELSE /\ open' = open \ {worker[w].conn}
            /\ tainted' = tainted \ {worker[w].conn}
            /\ sweep' = sweep \ {worker[w].conn}
            /\ UNCHANGED parked
    /\ UNCHANGED <<backendVars, caller, probe, current, abandoned, reclaim, closed, pgClosed>>

\* What a use of the serving connection makes of it: a lost one is replaced if
\* the store can be reached, and quarantined if not (the use that notices the
\* loss and the one that fails to replace the connection are one).
AfterUse ==
    IF up THEN "open" ELSE "quarantined"

\* _serving_connection_ready, once no request holds the connection's lock.
CheckServing(w) ==
    /\ worker[w].pc = "serving" /\ serving # "busy"
    /\ serving' = AfterUse
    /\ Become(w, [worker[w] EXCEPT !.pc = "done", !.ready = AfterUse = "open"])
    /\ UNCHANGED <<up, probe, connVars>>

\* Variant: the answer goes to whatever probe is outstanding.
AnswersLatest(w) == TRUE

\* The answer goes to the probe the worker read, which may be superseded.
AnswersProbe(w) == worker[w].mine

\* The worker is idle before its probe is finished; it waits for the next
\* request, or dies of what escaped the check.
Report(w) ==
    LET over == [worker[w] EXCEPT !.mine = FALSE, !.ready = FALSE, !.idle = TRUE]
        awaited == \E c \in Callers : caller[c] = "waiting"
    IN  /\ worker[w].pc = "done"
        /\ probe' = IF AnswersProbe(w)
                    THEN IF worker[w].ready /\ awaited
                         THEN [probe EXCEPT !.finished = TRUE, !.expired = FALSE, !.ready = TRUE]
                         ELSE NoProbe
                    ELSE probe
        /\ \/ Become(w, [over EXCEPT !.pc = "wait"])
           \/ ~up /\ Become(w, [over EXCEPT !.pc = "exit"])
        /\ UNCHANGED <<backendVars, connVars>>

\* _release_worker, and the thread is gone.
Exit(w) ==
    /\ worker[w].pc = "exit"
    /\ worker' = [worker EXCEPT ![w] = NoWorker]
    /\ abandoned' = IF worker[w].counted THEN abandoned - 1 ELSE abandoned
    /\ current' = IF current = w THEN 0 ELSE current
    /\ UNCHANGED <<backendVars, caller, probe, reclaimVars, connVars, closed, pgClosed>>

-----------------------------------------------------------------------------
\* The call has been running for longer than the bound, as its probe has.
Overdue(w) == worker[w].pc \in ActiveStages /\ (~worker[w].mine \/ probe.expired)

\* Variant: a call a cancel was tried on is not tried again.
TargetsOnce == {w \in Workers : Overdue(w) /\ worker[w].conn # 0 /\ ~worker[w].attempted}

\* PostgresReadinessProbe.cancel: overdue calls on a connection, those included
\* that have ended and are not checked in yet.  The code passes over a call whose
\* cancel was delivered; that call has ended, and a second cancel finds nothing.
Targets == {w \in Workers : Overdue(w) /\ worker[w].conn # 0}

\* Cancels set out for the given calls.
Send(targets) ==
    /\ sweep' = sweep \cup {worker[w].conn : w \in targets}
    /\ tainted' = tainted \cup {worker[w].conn : w \in targets}

Attempt(targets) ==
    [w \in Workers |-> IF w \in targets THEN [worker[w] EXCEPT !.attempted = TRUE] ELSE worker[w]]

\* One round of _reclaim_loop.
Reclaim ==
    /\ reclaim /\ ~closed /\ sweep = {}
    /\ IF abandoned = 0 THEN reclaim' = FALSE /\ UNCHANGED <<sweep, tainted, worker>>
       ELSE Send(Targets) /\ worker' = Attempt(Targets) /\ UNCHANGED reclaim
    /\ UNCHANGED <<backendVars, caller, probe, current, abandoned, parked, open,
                   closed, pgClosed>>

\* _cancel_quietly for one call: refused while the store is unreachable.
\* Delivered, it ends the statement that runs on the connection.
Deliver(c) ==
    LET hit(w) == worker[w].conn = c
        end(r) == [r EXCEPT !.pc = IF @ \in {"query", "wedged"} THEN "checkin" ELSE @]
    IN  /\ sweep' = sweep \ {c}
        /\ worker' = IF up THEN [w \in Workers |-> IF hit(w) THEN end(worker[w]) ELSE worker[w]]
                     ELSE worker
        /\ UNCHANGED <<backendVars, caller, probe, current, abandoned, reclaim,
                       connVars, closed, pgClosed>>

\* BoundedBackendProbe.close, from server_close: the worker and the reclaimer
\* are told to stop, expired calls are cancelled.
Close ==
    /\ ~closed /\ closed' = TRUE
    /\ current' = 0 /\ reclaim' = FALSE
    /\ Send(Targets)
    /\ worker' = IF current = 0 THEN Attempt(Targets)
                 ELSE [Attempt(Targets) EXCEPT ![current].requested = TRUE]
    /\ UNCHANGED <<backendVars, caller, probe, abandoned, parked, open, pgClosed>>

\* PostgresReadinessProbe.close, after the worker was joined or not: only the
\* idle connection is closed here.
ClosePg ==
    LET active == {w \in Workers : worker[w].pc \in ActiveStages /\ worker[w].conn # 0}
    IN  /\ closed /\ ~pgClosed /\ pgClosed' = TRUE
        /\ sweep' = sweep \cup {worker[w].conn : w \in active}
        /\ tainted' = (tainted \cup {worker[w].conn : w \in active}) \ {parked}
        /\ worker' = Attempt(active)
        /\ parked' = 0 /\ open' = open \ {parked}
        /\ UNCHANGED <<backendVars, caller, probe, current, abandoned, reclaim,
                       closed>>
-----------------------------------------------------------------------------
Outage ==
    /\ up /\ up' = FALSE
    /\ UNCHANGED <<serving, caller, probe, current, worker, abandoned, reclaimVars, connVars, closed,
                   pgClosed>>

StoreReturns ==
    /\ ~up /\ up' = TRUE
    /\ probe' = [probe EXCEPT !.seenUp = \E c \in Callers : caller[c] = "waiting"]
    /\ UNCHANGED <<serving, caller, current, worker, abandoned, reclaimVars, connVars,
                   closed, pgClosed>>

\* A request uses the serving connection and holds its lock while it runs.
Request ==
    /\ ~closed /\ serving # "busy"
    /\ serving' = IF AfterUse = "open" THEN "busy" ELSE AfterUse
    /\ UNCHANGED <<up, caller, probe, current, worker, abandoned, reclaimVars, connVars,
                   closed, pgClosed>>

\* It ends; a commit whose outcome is unknown quarantines the connection.
EndRequest ==
    /\ serving = "busy"
    /\ serving' \in IF up THEN {"open"} ELSE {"open", "quarantined"}
    /\ UNCHANGED <<up, caller, probe, current, worker, abandoned, reclaimVars, connVars,
                   closed, pgClosed>>

\* Only the given callers ever ask.
InitFor(asking) ==
    /\ up = TRUE /\ serving = "open"
    /\ caller = [c \in Callers |-> IF c \in asking THEN "idle" ELSE "absent"]
    /\ probe = NoProbe
    /\ current = 0 /\ worker = [w \in Workers |-> NoWorker]
    /\ abandoned = 0 /\ reclaim = FALSE /\ sweep = {}
    /\ parked = 0 /\ open = {} /\ tainted = {}
    /\ closed = FALSE /\ pgClosed = FALSE

Init == InitFor(Callers)

CallerStep(c) ==
    \/ CallClosed(c) \/ CallJoins(c) \/ CallReusesWorker(c) \/ CallAtLimit(c)
    \/ CallStartsWorker(c) \/ CallCannotStart(c) \/ \E ready \in BOOLEAN : AnswerWith(c, ready)

WorkerStep(w) ==
    \/ Park(w) \/ Wake(w) \/ Read(w) \/ Check(w) \/ Connect(w) \/ Query(w)
    \/ CheckIn(w) \/ CheckServing(w) \/ Report(w) \/ Exit(w)

Next ==
    \/ \E c \in Callers : CallerStep(c)
    \/ Expire
    \/ \E w \in Workers : WorkerStep(w)
    \/ \E c \in sweep : Deliver(c)
    \/ Reclaim \/ Close \/ ClosePg
    \/ Outage \/ StoreReturns \/ Request \/ EndRequest

\* Threads are scheduled, time passes, the endpoint is polled, and requests
\* end once the store answers.
Fairness ==
    /\ \A c \in Callers : WF_vars(CallerStep(c))
    /\ WF_vars(Expire)
    /\ \A w \in Workers : WF_vars(WorkerStep(w)) /\ SF_vars(CheckServing(w))
    /\ WF_vars(\E c \in sweep : Deliver(c))
    /\ WF_vars(Reclaim)
    /\ WF_vars(up /\ EndRequest)

\* Requests keep arriving, whatever /readyz says.
TrafficSpec == Init /\ [][Next]_vars /\ Fairness /\ WF_vars(Request)

\* What holds however threads are scheduled.
ReadinessSpec == Init /\ [][Next]_vars

\* They need not: an instance that is not ready is drained.
DrainedSpec == Init /\ [][Next]_vars /\ Fairness
-----------------------------------------------------------------------------
TypeOK ==
    /\ up \in BOOLEAN /\ serving \in ServingStates
    /\ current \in Workers \cup {0} /\ parked \in Conns \cup {0}
    /\ \A w \in Workers : worker[w].pc \in Stages
    /\ abandoned \in 0..MaxAbandoned
    /\ open \subseteq Conns /\ tainted \subseteq open

\* However long the store stays away, the process keeps at most one worker
\* and one session more than it may abandon, and the count of abandoned
\* workers is exact, so that the limit can neither be passed nor be reached
\* for good by workers that are long gone.
SessionsAreBounded ==
    /\ Cardinality(Alive) <= MaxAbandoned + 1
    /\ Cardinality(open) <= MaxAbandoned + 1
    /\ abandoned = Cardinality({w \in Workers : worker[w].counted})

\* A connection is parked or in one call, never both or two, and is closed by
\* its owner only, shutdown included; none is forgotten open.
ConnectionsHaveOneOwner ==
    /\ \A v, w \in Workers : v # w /\ worker[v].conn # 0 => worker[v].conn # worker[w].conn
    /\ \A w \in Workers : worker[w].conn # 0 => worker[w].conn # parked
    /\ open = ({worker[w].conn : w \in Workers} \cup {parked}) \ {0}

\* What the probe costs is bounded and can be found again.
SessionsAreAccountedFor == SessionsAreBounded /\ ConnectionsHaveOneOwner

\* A cancel meant for one call never ends another: a connection that a cancel
\* was sent against, delivered or not, is not used by a later call.
CancelsHitTheirCall ==
    /\ parked \notin tainted
    /\ \A w \in Workers : worker[w].pc \in ActiveStages /\ worker[w].conn \in tainted => worker[w].attempted

\* Ready is never a stale answer: the store answered after the probe it is
\* reported for was made, not before an outage.
ReadyIsFresh == probe.ready => probe.seenUp

\* Once the store is back for good, /readyz says so again, whatever was
\* abandoned, cancelled or left behind by the outage.
ReadinessRecovers ==
    <>[]up => <>closed \/ []<><<\E c \in Callers : AnswerWith(c, TRUE)>>_vars
=============================================================================
