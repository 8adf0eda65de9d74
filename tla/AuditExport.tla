----------------------------- MODULE AuditExport -----------------------------
(***************************************************************************)
(* The OTLP exporter of one service process: a bounded queue, filled by the *)
(* threads that committed an event, and a daemon thread that sends batches. *)
(*                                                                          *)
(* Export is fail-open: a full queue, a closed exporter and a batch that    *)
(* cannot be sent lose events, each with a line on stderr.                  *)
(***************************************************************************)
EXTENDS Integers, Sequences

CONSTANTS
    QueueSize,    \* queue_size
    BatchSize,    \* batch_size
    MaxAttempts,  \* max_attempts
    MaxEmits      \* bound: events handed to the exporter

ASSUME ExportAssumption ==
    /\ QueueSize \in Nat \ {0} /\ BatchSize \in Nat \ {0}
    /\ MaxAttempts \in Nat \ {0} /\ MaxEmits \in Nat

VARIABLES
    queue,      \* the queue: events, and Stop
    closed,     \* _closed
    closing,    \* how far close() has got
    sender,     \* what the daemon thread is doing
    batch,      \* the batch it has collected
    lastBatch,  \* stop_after_batch
    attempt,    \* attempts already made to send it
    emitted,    \* events handed to emit() so far
    accepted,   \* those that entered the queue
    tried       \* those that were in a batch the thread tried to send

exportVars == <<queue, closed, closing, sender, batch, lastBatch, attempt,
                emitted, accepted, tried>>

Stop == 0  \* _STOP; events are 1, 2, ...

ExportInit ==
    /\ queue = <<>> /\ closed = FALSE /\ closing = "no"
    /\ sender = "waiting" /\ batch = <<>> /\ lastBatch = FALSE /\ attempt = 0
    /\ emitted = 0 /\ accepted = {} /\ tried = {}

HasRoom == Len(queue) < QueueSize

\* Variant: emit does not look at _closed.
AcceptsAnyTime == HasRoom

\* emit() under the state lock: drop when closed or full, and never block.
Accepts == ~closed /\ HasRoom

Emit ==
    /\ emitted < MaxEmits
    /\ emitted' = emitted + 1
    /\ IF Accepts
       THEN queue' = Append(queue, emitted') /\ accepted' = accepted \cup {emitted'}
       ELSE UNCHANGED <<queue, accepted>>
    /\ UNCHANGED <<closed, closing, sender, batch, lastBatch, attempt, tried>>

\* close(): refuse further events, then queue Stop, then join; both waits are bounded.
CloseExport ==
    /\ ~closed
    /\ closed' = TRUE /\ closing' = "putting"
    /\ UNCHANGED <<queue, sender, batch, lastBatch, attempt, emitted, accepted, tried>>

PutStop ==
    /\ closing = "putting" /\ HasRoom
    /\ queue' = Append(queue, Stop) /\ closing' = "joining"
    /\ UNCHANGED <<closed, sender, batch, lastBatch, attempt, emitted, accepted, tried>>

\* No room for Stop in time, or the thread not ended in time: close() returns anyway.
CloseReturns ==
    /\ closing = "joining" \/ (closing = "putting" /\ ~HasRoom)
    /\ closing' = "done"
    /\ UNCHANGED <<queue, closed, sender, batch, lastBatch, attempt, emitted, accepted, tried>>

(* _run: wait for an event, collect what follows it until the batch is full *)
(* or nothing came in time, send, and end at Stop.                          *)
Take ==
    /\ sender = "waiting" /\ queue # <<>>
    /\ queue' = Tail(queue)
    /\ IF Head(queue) = Stop
       THEN sender' = "ended" /\ UNCHANGED batch
       ELSE sender' = "collecting" /\ batch' = <<Head(queue)>>
    /\ UNCHANGED <<closed, closing, lastBatch, attempt, emitted, accepted, tried>>

Collect ==
    /\ sender = "collecting" /\ Len(batch) < BatchSize /\ queue # <<>>
    /\ queue' = Tail(queue)
    /\ IF Head(queue) = Stop
       THEN sender' = "sending" /\ lastBatch' = TRUE /\ UNCHANGED batch
       ELSE batch' = Append(batch, Head(queue)) /\ UNCHANGED <<sender, lastBatch>>
    /\ UNCHANGED <<closed, closing, attempt, emitted, accepted, tried>>

StopCollecting ==
    /\ sender = "collecting"
    /\ sender' = "sending"
    /\ UNCHANGED <<queue, closed, closing, batch, lastBatch, attempt, emitted, accepted, tried>>

\* _send_batch: a transient error is retried while attempts are left; any other end is one.
SendBatch ==
    /\ sender = "sending"
    /\ tried' = tried \cup {batch[i] : i \in DOMAIN batch}
    /\ \/ /\ sender' = IF lastBatch THEN "ended" ELSE "waiting"
          /\ batch' = <<>> /\ attempt' = 0
       \/ /\ attempt + 1 < MaxAttempts
          /\ attempt' = attempt + 1
          /\ UNCHANGED <<sender, batch>>
    /\ UNCHANGED <<queue, closed, closing, lastBatch, emitted, accepted>>

ExportNext ==
    Emit \/ CloseExport \/ PutStop \/ CloseReturns \/ Take \/ Collect \/ StopCollecting
    \/ SendBatch

ExportSpec == ExportInit /\ [][ExportNext]_exportVars

(* An exporter whose thread has ended has tried to send every event it       *)
(* accepted: close() refuses new events before it queues Stop, so none is    *)
(* left behind it unnoticed, whatever the emitting threads are doing         *)
(* (audit_export.py emit / close / _run).                                    *)
AcceptedIsTried ==
    sender = "ended" => accepted = tried
=============================================================================
