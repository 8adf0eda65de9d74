---------------------------- MODULE RequestLimits ----------------------------
(***************************************************************************)
(* The two counters every handler thread of the HTTP server shares: the     *)
(* pre-authentication rate limiter, one fixed window per source, and the    *)
(* throttle that aggregates authentication failures per surface before they *)
(* are written to the audit log.                                            *)
(*                                                                          *)
(* Each is changed in one critical section, but with a clock value its      *)
(* caller read before it got the lock, and the throttle's events are        *)
(* written after the lock is released.                                      *)
(***************************************************************************)
EXTENDS Integers, Sequences, FiniteSetsExt, Functions

CONSTANTS
    MaxRequests,     \* VINCTOR_RATE_LIMIT_PER_MINUTE
    Window,          \* window_seconds of the limiter
    MaxSources,      \* max_sources
    TrustedProxies,  \* VINCTOR_TRUSTED_PROXIES
    FailureWindow,   \* AUTH_FAILURE_WINDOW_SECONDS
    Surfaces         \* the surfaces that record authentication failures

ASSUME LimitsAssumption ==
    /\ MaxRequests \in Nat \ {0} /\ Window \in Nat \ {0} /\ MaxSources \in Nat \ {0}
    /\ FailureWindow \in Nat \ {0}

VARIABLES
    sources,   \* _windows of the limiter: source -> start and count
    failing,   \* _windows of the throttle: surface -> start, last_seen and count
    tally      \* per surface: failures recorded, what the audit log says of them and what it lacks

limitVars == <<sources, failing, tally>>

Empty == [x \in {} |-> x]

LimitsInit ==
    /\ sources = Empty /\ failing = Empty
    /\ tally = [s \in Surfaces |-> [failures |-> 0, timely |-> 0, summaries |-> 0, counted |-> 0,
                                  lost |-> 0]]

(***************************************************************************)
(* Rate limiting.  An origin is the socket's peer, the entries of           *)
(* X-Forwarded-For ("bad" is one that is no address), whether the header is *)
(* short enough to be looked at, and who really sent the request.           *)
(***************************************************************************)
\* The rightmost entry that is not a trusted proxy, if all right of it are.
ClientHop(hops) ==
    LET untrusted == {i \in DOMAIN hops : hops[i] \notin TrustedProxies}
    IN  IF untrusted = {} \/ hops[Max(untrusted)] = "bad" THEN 0 ELSE Max(untrusted)

\* The forwarding data names a client.
NamesClient(origin) == origin.short /\ origin.hops # <<>> /\ ClientHop(origin.hops) # 0

\* Variant: forwarding data is believed from any peer.
SourceAsClaimed(origin) ==
    IF NamesClient(origin)
    THEN origin.hops[ClientHop(origin.hops)]
    ELSE origin.peer

\* resolve_rate_limit_source: forwarding data counts only from a trusted peer.
Source(origin) ==
    IF origin.peer \in TrustedProxies /\ NamesClient(origin)
    THEN origin.hops[ClientHop(origin.hops)]
    ELSE origin.peer

Expired(entry, now) == now - entry.start >= Window
LiveSources(now) == Restrict(sources, {s \in DOMAIN sources : ~Expired(sources[s], now)})

With(table, key, entry) == [k \in DOMAIN table \cup {key} |-> IF k = key THEN entry ELSE table[k]]

\* allow(): what it answers, and the table it leaves.
Allow(source, now) ==
    LET live == LiveSources(now)
    IN  IF source \notin DOMAIN live
        THEN [ok |-> TRUE,
              table |-> IF Cardinality(DOMAIN live) >= MaxSources THEN live
                        ELSE With(live, source, [start |-> now, count |-> 1])]
        ELSE IF live[source].count < MaxRequests
             THEN [ok |-> TRUE, table |-> [live EXCEPT ![source].count = @ + 1]]
             ELSE [ok |-> FALSE, table |-> live]

(***************************************************************************)
(* The authentication-failure throttle.                                     *)
(***************************************************************************)
InWindow(surface, now) ==
    surface \in DOMAIN failing /\ now - failing[surface].start < FailureWindow

\* Variant: a window of two failures gets no summary.
SummaryDueLate(surface) == surface \in DOMAIN failing /\ failing[surface].count > 2
SummaryDue(surface) == surface \in DOMAIN failing /\ failing[surface].count > 1

\* record(), under the lock: count the repeat, or close the window and open a new one.
RecordFailure(surface, now) ==
    /\ failing' = IF InWindow(surface, now)
                  THEN [failing EXCEPT ![surface].count = @ + 1, ![surface].last = now]
                  ELSE With(failing, surface, [start |-> now, last |-> now, count |-> 1])
    /\ tally' = [tally EXCEPT ![surface].failures = @ + 1]

\* The events left to write once the lock is released: the summary, then the timely one.
FailureEvents(surface, now) ==
    LET timely == [kind |-> "timely", count |-> 1]
    IN  IF InWindow(surface, now) THEN <<>>
        ELSE IF SummaryDue(surface)
             THEN <<[kind |-> "summary", count |-> failing[surface].count], timely>>
             ELSE <<timely>>

\* What the log lacks without an event: the failure a timely one reports, or all of a
\* window but the failure that its timely event reported.
Carried(event) == IF event.kind = "timely" THEN 1 ELSE event.count - 1

\* _emit: the log's account of the surface, whatever else is written in between.  A write
\* that fails is swallowed.
EmitFailure(surface, event, written) ==
    /\ tally' = [tally EXCEPT
                    ![surface].timely = IF written /\ event.kind = "timely" THEN @ + 1 ELSE @,
                    ![surface].summaries = IF written /\ event.kind = "summary" THEN @ + 1 ELSE @,
                    ![surface].counted = IF written /\ event.kind = "summary" THEN @ + event.count ELSE @,
                    ![surface].lost = IF written THEN @ ELSE @ + Carried(event)]
    /\ UNCHANGED failing

\* What a reader of the log counts: a closed window by its summary, or as the one
\* failure its timely event reported; and the open window as counted in memory.
Accounted(surface, open) ==
    tally[surface].counted + (tally[surface].timely - tally[surface].summaries - 1) + open
=============================================================================
