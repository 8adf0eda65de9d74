----------------------------- MODULE AuditChain -----------------------------
(***************************************************************************)
(* The tamper-evident audit chain: how a row is hashed and linked, and what *)
(* `audit verify` accepts.                                                  *)
(*                                                                          *)
(* A hash is the list of everything hashed into it, so that two hashes are  *)
(* equal exactly when they were computed from the same history: SHA-256     *)
(* without collisions.                                                      *)
(***************************************************************************)
EXTENDS Integers, Sequences

GENESIS_PREV_HASH == <<>>

row_hash(seq, event, prev) == Append(prev, <<seq, event>>)

ChainHead(rows) ==
    IF rows = <<>> THEN [seq |-> 0, hash |-> GENESIS_PREV_HASH]
    ELSE [seq |-> rows[Len(rows)].seq, hash |-> rows[Len(rows)].hash]

\* _write_event: read the head, link the next row to it.
NextRow(rows, event) ==
    LET head == ChainHead(rows)
    IN  [seq |-> head.seq + 1, event |-> event, column |-> event, prev |-> head.hash,
         hash |-> row_hash(head.seq + 1, event, head.hash)]

(* The four ways a row can break the chain; rows are walked in seq order.   *)
Deleted(rows, i) == rows[i].seq # i

\* Variant: only the first row's link is checked.
ReorderedAtGenesis(rows, i) == i = 1 /\ rows[i].prev # GENESIS_PREV_HASH

Reordered(rows, i) == rows[i].prev # (IF i = 1 THEN GENESIS_PREV_HASH ELSE rows[i - 1].hash)

Modified(rows, i) == rows[i].hash # row_hash(rows[i].seq, rows[i].event, rows[i].prev)

ColumnMismatch(rows, i) == rows[i].column # rows[i].event

VerifyChain(rows) ==
    \A i \in 1..Len(rows) :
        /\ ~Deleted(rows, i)
        /\ ~Reordered(rows, i)
        /\ ~Modified(rows, i)
        /\ ~ColumnMismatch(rows, i)

(* verify_against_anchor: every record names a row that is still there, and *)
(* the records reach the head.                                              *)
Confirmed(rows, record) == \E i \in 1..Len(rows) : rows[i].seq = record.seq /\ rows[i].hash = record.hash

Covered(rows, records) ==
    \/ ChainHead(rows).seq = 0
    \/ \E record \in records : record.seq >= ChainHead(rows).seq

VerifyAgainstAnchor(rows, records) ==
    /\ \A record \in records : Confirmed(rows, record)
    /\ Covered(rows, records)
=============================================================================
