----------------------------- MODULE SQLitePool -----------------------------
(***************************************************************************)
(* The bounded pool of SQLite request contexts: admission of requests,     *)
(* replacement of contexts that may no longer be used, readiness probes    *)
(* that borrow a context, and shutdown.                                    *)
(*                                                                         *)
(* One lock guards both the pool and its admission queue (the Condition is *)
(* built over the pool's RLock), and no I/O happens under it.  So a step   *)
(* is one critical section, or one piece of I/O between two of them:       *)
(* opening a connection, closing one, inspecting one.                      *)
(*                                                                         *)
(* The code numbers contexts by generation and availability periods by     *)
(* epoch, and only ever compares those numbers for equality.  Here a       *)
(* context is a name, reused once nothing refers to it any more, and       *)
(* "stale" is the set of waiters whose captured epoch has been passed (the *)
(* epoch only grows).  Both make the state space finite without a bound.   *)
(***************************************************************************)
EXTENDS Integers, FiniteSets, Sequences

CONSTANTS
    Callers,    \* threads that run requests
    Probers,    \* readiness workers: a wedged one is replaced, so several
    TargetSize, \* _target_size
    Names       \* number of context names, enough for all that exist at once

ASSUME PoolAssumption ==
    /\ TargetSize \in Nat \ {0}
    /\ Names \in Nat /\ Names >= TargetSize

Contexts == 1..Names
None == 0

VARIABLES
    contexts,   \* _contexts
    available,  \* _available: the contexts no one holds, oldest first
    healthy,    \* contexts marked healthy and not closed (set together)
    open,       \* contexts whose connection is open
    accepting,  \* _accepting of the admission queue
    closed,     \* _closed, of the pool and of the admission queue
    waiters,    \* the admission queue
    stale,      \* waiters that joined before the last invalidation
    asleep,     \* waiters inside condition.wait
    building,   \* _build_in_flight
    pc,         \* what each request thread does next
    back,       \* where it goes on after _replenish_once
    held,       \* the context of the request it runs
    made,       \* the context it is building
    calls,      \* the contexts in _probe_calls
    probe,      \* the context each readiness worker runs a statement on
    deferred,   \* _deferred_probe_contexts
    closing     \* contexts that close(), or a probe after it, will close

queue == <<waiters, stale, asleep>>
admission == <<accepting, closed, queue>>
thread == <<pc, back, held, made>>
probes == <<calls, probe, deferred, closing>>
vars == <<contexts, available, healthy, open, admission, building, thread, probes>>

Stages == {"idle", "build", "publish", "discard", "acquire", "wait", "run",
           "reclaim", "retire", "dispose", "replenish"}

Inside(s) == {s[i] : i \in DOMAIN s}

\* deque.remove of x, which is in s once, or nothing when it is not.
Without(s, x) ==
    IF x \notin Inside(s) THEN s
    ELSE LET i == CHOOSE j \in DOMAIN s : s[j] = x
         IN  [k \in 1..(Len(s) - 1) |-> IF k < i THEN s[k] ELSE s[k + 1]]

TypeOK ==
    /\ contexts \subseteq Contexts
    /\ available \in Seq(Contexts)
    /\ healthy \subseteq Contexts
    /\ open \subseteq Contexts
    /\ accepting \in BOOLEAN
    /\ closed \in BOOLEAN
    /\ waiters \in Seq(Callers)
    /\ stale \subseteq Callers
    /\ asleep \subseteq Callers
    /\ building \in BOOLEAN
    /\ pc \in [Callers -> Stages]
    /\ back \in [Callers -> {"acquire", "run", "idle"}]
    /\ held \in [Callers -> Contexts \cup {None}]
    /\ made \in [Callers -> Contexts \cup {None}]
    /\ calls \subseteq Contexts
    /\ probe \in [Probers -> Contexts \cup {None}]
    /\ deferred \subseteq Contexts
    /\ closing \subseteq Contexts

\* __init__ builds the whole pool before anyone may use it.
Init ==
    /\ contexts = 1..TargetSize
    /\ available = [i \in 1..TargetSize |-> i]
    /\ healthy = contexts
    /\ open = contexts
    /\ accepting = TRUE
    /\ closed = FALSE
    /\ waiters = <<>>
    /\ stale = {}
    /\ asleep = {}
    /\ building = FALSE
    /\ pc = [c \in Callers |-> "idle"]
    /\ back = [c \in Callers |-> "idle"]
    /\ held = [c \in Callers |-> None]
    /\ made = [c \in Callers |-> None]
    /\ calls = {}
    /\ probe = [p \in Probers |-> None]
    /\ deferred = {}
    /\ closing = {}

-----------------------------------------------------------------------------
(***************************************************************************)
(* The admission queue.  condition.notify_all() empties "asleep": a waiter *)
(* that is not asleep will take the lock and look again.                   *)
(***************************************************************************)
release(g) ==
    /\ available' = IF closed THEN available ELSE Append(available, g)
    /\ asleep' = {}
    /\ UNCHANGED <<accepting, closed, waiters, stale>>

publish(g) ==
    /\ available' = IF closed THEN available ELSE Append(available, g)
    /\ accepting' = (accepting \/ ~closed)
    /\ asleep' = {}
    /\ UNCHANGED <<closed, waiters, stale>>

invalidate_waiters ==
    /\ accepting' = FALSE
    /\ stale' = Inside(waiters)
    /\ asleep' = {}
    /\ UNCHANGED <<closed, waiters>>

\* Variant: a waiter that gives up or is served tells no one.
LeaveQuietly(c, line) ==
    /\ waiters' = Without(line, c)
    /\ stale' = stale \ {c}
    /\ asleep' = asleep \ {c}

\* A waiter leaves the queue, by popleft or by the finally clause: both notify.
Leave(c, line) ==
    /\ waiters' = Without(line, c)
    /\ stale' = stale \ {c}
    /\ asleep' = {}

Refused(c) == closed \/ ~accepting \/ c \in stale
Served(c, line) == ~Refused(c) /\ Head(line) = c /\ available # <<>>

\* One turn of acquire's loop for waiter c, in the queue "line" of which the
\* waiters "sleepers" are asleep; "expired" says whether its deadline passed.
Turn(c, line, sleepers, expired) ==
    \/ /\ Served(c, line)
       /\ Leave(c, line)
       /\ held' = [held EXCEPT ![c] = Head(available)]
       /\ available' = Tail(available)
       /\ pc' = [pc EXCEPT ![c] = "run"]
    \/ /\ Refused(c) \/ (~Served(c, line) /\ expired)
       /\ Leave(c, line)
       /\ pc' = [pc EXCEPT ![c] = "idle"]
       /\ UNCHANGED <<held, available>>
    \/ /\ ~Refused(c) /\ ~Served(c, line) /\ ~expired
       /\ waiters' = line
       /\ asleep' = sleepers \cup {c}
       /\ pc' = [pc EXCEPT ![c] = "wait"]
       /\ UNCHANGED <<held, available, stale>>

-----------------------------------------------------------------------------
(***************************************************************************)
(* Replacing contexts: _replenish_once, which builds at most one context   *)
(* at a time, outside the lock.                                            *)
(***************************************************************************)
InUse ==
    contexts \cup open \cup calls \cup deferred \cup closing
      \cup {held[c] : c \in Callers} \cup {made[c] : c \in Callers}
      \cup {probe[p] : p \in Probers}

\* The thread runs _replenish_once and goes on at "next".
_replenish_once(c, next) ==
    IF closed \/ building \/ Cardinality(contexts) >= TargetSize
      THEN /\ pc' = [pc EXCEPT ![c] = next]
           /\ UNCHANGED <<building, back, made>>
      ELSE /\ Contexts \ InUse # {}
           /\ building' = TRUE
           /\ made' = [made EXCEPT ![c] = CHOOSE g \in Contexts \ InUse : TRUE]
           /\ back' = [back EXCEPT ![c] = next]
           /\ pc' = [pc EXCEPT ![c] = "build"]

BuildSucceeds(c) ==
    /\ pc[c] = "build"
    /\ open' = open \cup {made[c]}
    /\ healthy' = healthy \cup {made[c]}
    /\ pc' = [pc EXCEPT ![c] = "publish"]
    /\ UNCHANGED <<contexts, available, admission, building, back,
                   held, made, probes>>

\* Variant: a failed build leaves _build_in_flight set.
FailInFlight(c) ==
    /\ pc[c] = "build"
    /\ invalidate_waiters
    /\ made' = [made EXCEPT ![c] = None]
    /\ pc' = [pc EXCEPT ![c] = IF back[c] = "acquire" THEN "idle" ELSE back[c]]
    /\ UNCHANGED <<building, contexts, available, healthy, open, back, held, probes>>

\* The exception refuses a request that was entering.  A quarantine passes it
\* to the request that reported the ambiguity, which still holds its context;
\* _retire suppresses it.
BuildFails(c) ==
    /\ pc[c] = "build"
    /\ building' = FALSE
    /\ invalidate_waiters
    /\ made' = [made EXCEPT ![c] = None]
    /\ pc' = [pc EXCEPT ![c] = IF back[c] = "acquire" THEN "idle" ELSE back[c]]
    /\ UNCHANGED <<contexts, available, healthy, open, back, held, probes>>

\* Variant: the pool may have closed while the context was built.
PublishUnlessFull(c) ==
    /\ pc[c] = "publish"
    /\ building' = FALSE
    /\ contexts' = contexts \cup {made[c]}
    /\ publish(made[c])
    /\ made' = [made EXCEPT ![c] = None]
    /\ pc' = [pc EXCEPT ![c] = back[c]]
    /\ UNCHANGED <<healthy, open, back, held, probes>>

Publish(c) ==
    /\ pc[c] = "publish"
    /\ building' = FALSE
    /\ IF ~closed /\ Cardinality(contexts) < TargetSize
         THEN /\ contexts' = contexts \cup {made[c]}
              /\ publish(made[c])
              /\ made' = [made EXCEPT ![c] = None]
              /\ pc' = [pc EXCEPT ![c] = back[c]]
              /\ UNCHANGED healthy
         ELSE /\ healthy' = healthy \ {made[c]}
              /\ pc' = [pc EXCEPT ![c] = "discard"]
              /\ UNCHANGED <<contexts, available, admission, made>>
    /\ UNCHANGED <<open, back, held, probes>>

Discard(c) ==
    /\ pc[c] = "discard"
    /\ open' = open \ {made[c]}
    /\ made' = [made EXCEPT ![c] = None]
    /\ pc' = [pc EXCEPT ![c] = back[c]]
    /\ UNCHANGED <<contexts, available, healthy, admission, building, back,
                   held, probes>>

-----------------------------------------------------------------------------
(***************************************************************************)
(* One request: request_scope.                                             *)
(***************************************************************************)
Enter(c) ==
    /\ pc[c] = "idle"
    /\ _replenish_once(c, "acquire")
    /\ UNCHANGED <<contexts, healthy, available, open, admission, held, probes>>

\* Joining the queue notifies it, and the first turn runs under the same lock.
Acquire(c) ==
    /\ pc[c] = "acquire"
    /\ \E expired \in BOOLEAN : Turn(c, Append(waiters, c), {}, expired)
    /\ UNCHANGED <<contexts, healthy, open, accepting, closed, building, back,
                   made, probes>>

\* A waiter looks again when it has been notified or its deadline has passed.
Wake(c) ==
    /\ pc[c] = "wait"
    /\ \E expired \in BOOLEAN :
         /\ c \notin asleep \/ expired
         /\ Turn(c, waiters, asleep, expired)
    /\ UNCHANGED <<contexts, healthy, open, accepting, closed, building, back,
                   made, probes>>

\* Mark the context a thread holds and take it out of the pool; the connection
\* is closed after the lock is left.
Remove(c) ==
    /\ healthy' = healthy \ {held[c]}
    /\ contexts' = contexts \ {held[c]}
    /\ available' = Without(available, held[c])
    /\ invalidate_waiters
    /\ pc' = [pc EXCEPT ![c] = "dispose"]

\* An ambiguous commit inside the request reports the context it ran on.
quarantine_current_context(c) ==
    /\ pc[c] = "run"
    /\ held[c] \in healthy
    /\ held[c] \in contexts
    /\ Remove(c)
    /\ back' = [back EXCEPT ![c] = "run"]
    /\ UNCHANGED <<open, building, held, made, probes>>

\* The request ends: is its connection in a transaction, and if so does a
\* rollback end that?  A closed connection can do neither.
Inspect(c) ==
    /\ pc[c] = "run"
    /\ \E clean \in BOOLEAN :
         /\ clean => held[c] \in open
         /\ pc' = [pc EXCEPT ![c] = IF clean THEN "reclaim" ELSE "retire"]
    /\ UNCHANGED <<contexts, available, healthy, open, admission, building,
                   back, held, made, probes>>

Reusable(g) == ~closed /\ g \in healthy /\ g \in contexts

_reclaim(c) ==
    /\ pc[c] = "reclaim"
    /\ IF Reusable(held[c])
         THEN release(held[c])
         ELSE UNCHANGED <<available, admission>>
    /\ held' = [held EXCEPT ![c] = None]
    /\ pc' = [pc EXCEPT ![c] = "idle"]
    /\ UNCHANGED <<contexts, healthy, open, building, back, made, probes>>

_retire(c) ==
    /\ pc[c] = "retire"
    /\ IF held[c] \notin healthy \/ held[c] \notin contexts
         THEN /\ pc' = [pc EXCEPT ![c] = "idle"]
              /\ held' = [held EXCEPT ![c] = None]
              /\ UNCHANGED <<contexts, available, healthy, admission, back>>
         ELSE /\ Remove(c)
              /\ back' = [back EXCEPT ![c] = "idle"]
              /\ UNCHANGED held
    /\ UNCHANGED <<open, building, made, probes>>

\* service.close() and connection.close(), before the replacement is built.  A
\* quarantined request still refers to its context; a retiring one is done.
\* Assumed of the environment, here and in CloseConnection: neither raises.  They
\* release a file lock, close a descriptor and close a connection with no
\* statement under way.  An exception would skip the rest of the sequence.
Dispose(c) ==
    /\ pc[c] = "dispose"
    /\ open' = open \ {held[c]}
    /\ held' = [held EXCEPT ![c] = IF back[c] = "run" THEN @ ELSE None]
    /\ pc' = [pc EXCEPT ![c] = "replenish"]
    /\ UNCHANGED <<contexts, available, healthy, admission, building, back,
                   made, probes>>

Replenish(c) ==
    /\ pc[c] = "replenish"
    /\ _replenish_once(c, back[c])
    /\ UNCHANGED <<contexts, healthy, available, open, admission, held, probes>>

-----------------------------------------------------------------------------
(***************************************************************************)
(* Readiness probes and shutdown.                                          *)
(***************************************************************************)
\* Variant: the probe looks at a free context and leaves it in the queue.
ProbeInPlace(p) ==
    /\ probe[p] = None
    /\ ~closed /\ ~building /\ Cardinality(contexts) >= TargetSize
    /\ available # <<>>
    /\ probe' = [probe EXCEPT ![p] = Head(available)]
    /\ calls' = calls \cup {Head(available)}
    /\ UNCHANGED <<contexts, available, healthy, open, admission, building,
                   thread, deferred, closing>>

\* A probe on a worker of its own takes a free context past the waiters, and
\* answers FALSE without one.
is_ready(p) ==
    /\ probe[p] = None
    /\ ~closed /\ ~building /\ Cardinality(contexts) >= TargetSize
    /\ available # <<>>
    /\ probe' = [probe EXCEPT ![p] = Head(available)]
    /\ calls' = calls \cup {Head(available)}
    /\ available' = Tail(available)
    /\ UNCHANGED <<contexts, healthy, open, admission, building, thread,
                   deferred, closing>>

\* The statement ended, with a row, an error or an interrupt.
_release_probe_context(p) ==
    LET g == probe[p] IN
    /\ g # None
    /\ probe' = [probe EXCEPT ![p] = None]
    /\ calls' = calls \ {g}
    /\ deferred' = deferred \ {g}
    /\ IF Reusable(g)
         THEN release(g) /\ UNCHANGED closing
         ELSE /\ closing' = IF g \in deferred THEN closing \cup {g} ELSE closing
              /\ UNCHANGED <<available, admission>>
    /\ UNCHANGED <<contexts, healthy, open, building, thread>>

\* close(): contexts that requests hold are closed under them, contexts that
\* probes hold are left to the probes.
Close ==
    /\ ~closed
    /\ closed' = TRUE
    /\ accepting' = FALSE
    /\ stale' = Inside(waiters)
    /\ asleep' = {}
    /\ contexts' = {}
    /\ available' = <<>>
    /\ healthy' = healthy \ contexts
    /\ deferred' = deferred \cup calls
    /\ closing' = closing \cup (contexts \ calls)
    /\ UNCHANGED <<open, waiters, building, thread, calls, probe>>

CloseConnection(g) ==
    /\ g \in closing
    /\ closing' = closing \ {g}
    /\ open' = open \ {g}
    /\ UNCHANGED <<contexts, available, healthy, admission, building, thread,
                   calls, probe, deferred>>

\* What the thread that runs requests does of its own accord once it started.
Progress(c) ==
    \/ Acquire(c) \/ Wake(c)
    \/ Inspect(c) \/ _reclaim(c) \/ _retire(c) \/ Dispose(c) \/ Replenish(c)
    \/ Publish(c) \/ Discard(c)

Next ==
    \/ \E c \in Callers :
         \/ Enter(c) \/ quarantine_current_context(c)
         \/ BuildSucceeds(c) \/ BuildFails(c)
         \/ Progress(c)
    \/ \E p \in Probers : is_ready(p) \/ _release_probe_context(p)
    \/ Close
    \/ \E g \in Contexts : CloseConnection(g)

Spec == Init /\ [][Next]_vars

\* Threads run, statements end (by the busy timeout or an interrupt), a build
\* that is tried again and again succeeds at last, and requests keep coming.
Fairness ==
    /\ \A c \in Callers :
         /\ WF_vars(Progress(c))
         /\ WF_vars(Enter(c))
         /\ WF_vars(BuildSucceeds(c) \/ BuildFails(c))
         /\ SF_vars(BuildSucceeds(c))
    /\ \A p \in Probers : WF_vars(_release_probe_context(p))
    /\ \A g \in Contexts : WF_vars(CloseConnection(g))

FairSpec == Spec /\ Fairness

-----------------------------------------------------------------------------
(***************************************************************************)
(* What the pool promises.                                                 *)
(***************************************************************************)
Holding == {c \in Callers : held[c] # None}
Probing == {p \in Probers : probe[p] # None}

\* A context is in one pair of hands: free exactly once, or held by one
\* request, or borrowed by one probe.  _reclaim and _release_probe_context
\* return a context once, and a removed one never.
ContextsAreExclusive ==
    /\ \A i, j \in DOMAIN available : available[i] = available[j] => i = j
    /\ \A c \in Holding : held[c] \notin Inside(available)
    /\ \A p \in Probing : probe[p] \notin Inside(available)
    /\ \A c, d \in Holding : held[c] = held[d] => c = d
    /\ \A p, q \in Probing : probe[p] = probe[q] => p = q
    /\ \A c \in Holding, p \in Probing : held[c] # probe[p]

\* Every context of the pool can be accounted for: the capacity never shrinks
\* because a request, a probe or a replacement lost one.
NoContextIsLost ==
    contexts \subseteq Inside(available) \cup {held[c] : c \in Holding}
                         \cup {probe[p] : p \in Probing}

\* A waiter sleeps only while there is nothing for it to do: no change that it
\* waits for (a lease for the head of the queue, refusal, shutdown, becoming
\* the head) happens without a notify_all.
NoWakeupIsLost ==
    \A c \in asleep : c \in Inside(waiters) /\ ~Refused(c) /\ ~Served(c, waiters)

\* The connection a readiness worker runs a statement on is never closed under
\* it, and interrupt_readiness_probes, which goes through _probe_calls, reaches
\* probes and never a request.
ProbesAreProtected ==
    /\ \A p \in Probing : probe[p] \in open
    /\ calls = {probe[p] : p \in Probing}

\* Every open connection has someone who will close it: the pool itself, the
\* thread that built or retires it, close(), or the probe close() left it to.
NoConnectionLeaks ==
    /\ \A g \in open :
         \/ g \in contexts \cup closing
         \/ \E c \in Callers : made[c] = g \/ (held[c] = g /\ pc[c] = "dispose")
         \/ g \in deferred /\ \E p \in Probers : probe[p] = g
    /\ deferred \cap closing = {}

\* What the pool owns is where it can be found: every context in one pair of
\* hands, every connection with someone who closes it, none closed under a probe.
ContextsAreAccountedFor ==
    /\ TypeOK
    /\ ContextsAreExclusive /\ NoContextIsLost
    /\ ProbesAreProtected /\ NoConnectionLeaks

\* Requests that find the pool refusing repair it: it accepts again, unless it
\* is shut down.
RefusalEnds == ~accepting ~> (accepting \/ closed)

\* After close() every connection is closed, those borrowed by probes and those
\* under construction included.
ShutdownCompletes == closed ~> (open = {})
=============================================================================
