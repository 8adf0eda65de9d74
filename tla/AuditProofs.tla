---------------------------- MODULE AuditProofs ----------------------------
(***************************************************************************)
(* The audit trail and the database it is kept in, for any number of       *)
(* connections, keys, rows, storage operations, crashes and power losses;  *)
(* the exporter, for queues, batches and streams of events of every        *)
(* length; and the reports read from the log page by page, for pages of    *)
(* every size, logs of every length and any number of restores.            *)
(*                                                                         *)
(* StorageInv relates four things no single action sees together: who      *)
(* holds the lease and how far a replacement has got; the files and what a *)
(* power loss may put in their place; the books of every copy of the       *)
(* database; and what each open transaction has written, holds back and    *)
(* still lacks.                                                            *)
(***************************************************************************)
EXTENDS StorageOps, AuditExport, AuditReports, FiniteSetTheorems, SequenceTheorems, WellFoundedInduction, TLAPS

(* Typing.                                                                 *)
Event == {"decision", "control", "altered"} \X Nat
Hash == Seq(Nat \X Event)
Row == [seq : Nat, event : Event, column : Event, prev : Hash, hash : Hash]
HeadRecord == [seq : Nat, hash : Hash]
KeyStatus == {None, "active", "revoked"}
Content == [rows : Seq(Row), keys : [KeyIds -> KeyStatus], operations : Nat]
MainFile == [id : Nat \ {0}, content : Content]
LogFile == [of : Nat \ {0}, content : Content]
ConnSteps == {"closed", "seeding", "creating", "idle", "snapshot", "changed", "written", "touching"}
OpSteps == {None, "start", "copy", "lease", "neutralize", "sync", "swap", "syncswap"}

FilesTyped ==
    /\ main \in MainFile
    /\ wal \in LogFile \cup {NoLog}
    /\ lease \subseteq Conns \cup {Exclusive}

ConnsTyped ==
    /\ inode \in [Conns -> Nat]
    /\ writer \in Conns \cup {None}
    /\ state \in [Conns -> ConnSteps]
    /\ work \in [Conns -> Content \cup {NoContent}]
    /\ scope \in [Conns -> [open : BOOLEAN, held : Seq(HeadRecord)]]
    /\ due \in [Conns -> Seq(HeadRecord)]
    /\ key \in [Conns -> KeyIds \cup {None}]
    /\ seen \in [Conns -> KeyStatus]

TrailTyped ==
    /\ anchored \subseteq HeadRecord
    /\ history \subseteq Hash /\ IsFiniteSet(history)
    /\ damaged \in BOOLEAN

OpTyped ==
    /\ op \in [kind : Kinds \cup {None}, step : OpSteps]
    /\ built \in Content \cup {NoContent}
    /\ snapshot \in Content \cup {NoContent, Partial}
    /\ synced \in [main : MainFile, wal : LogFile \cup {NoLog}]
    /\ ops \in Nat /\ faults \in Nat

StorageTyped == FilesTyped /\ ConnsTyped /\ TrailTyped /\ OpTyped

(* Who holds the lease.                                                    *)
Replacing == {"neutralize", "sync", "swap", "syncswap"}

LeaseHolds ==
    /\ Exclusive \in lease <=> op.step \in Replacing
    /\ Exclusive \in lease => lease = {Exclusive}

(* The files, and what a power loss may put in their place.               *)
LogsBelong ==
    /\ wal # NoLog => wal.of = main.id /\ synced = [main |-> main, wal |-> wal]
    /\ synced.main = main \/ (synced.main.id # main.id /\ wal = NoLog /\ synced.wal = NoLog)
    /\ synced.main = main /\ synced.wal # NoLog =>
         synced.wal.of = main.id /\ synced.wal.content.keys = db.keys
    /\ op.step \in {"lease", "neutralize", "sync", "swap"} => built \in Content
    /\ op.step \in {"sync", "swap"} => wal = NoLog /\ synced.main = main
    /\ op.step \in {"swap", "syncswap"} => wal = NoLog /\ synced.wal = NoLog

(* The books of a database: as many control rows as control operations.    *)
Balanced(content) == Cardinality(ControlRows(content.rows)) = content.operations

FilesBalance ==
    ~damaged =>
        /\ Balanced(main.content) /\ Balanced(synced.main.content)
        /\ wal # NoLog => Balanced(wal.content)
        /\ synced.wal # NoLog => Balanced(synced.wal.content)
        /\ snapshot \in Content => Balanced(snapshot)
        /\ built \in Content => Balanced(built)

(* A connection: it holds the lease of the file it has open while it is    *)
(* open; its transaction has the write lock and is based on the database;  *)
(* what it has announced is committed, what it holds back is in its        *)
(* transaction; and the control row is what its transaction still lacks.   *)
InTransaction(c) == state[c] \in {"changed", "written"}
KeepsRevoked(old, new) == \A k \in KeyIds : old[k] = "revoked" => new[k] = "revoked"

LeaseSound(c) == (c \in lease <=> state[c] # "closed") /\ (c \in lease => inode[c] = main.id)

WorkSound(c) ==
    /\ InTransaction(c) =>
         /\ writer = c /\ scope[c].open /\ work[c] \in Content
         /\ KeepsRevoked(db.keys, work[c].keys)
         /\ \A i \in 1..Len(scope[c].held) : scope[c].held[i].hash \in Hashes(work[c])
    /\ state[c] = "snapshot" => work[c] \in Content
    /\ ~damaged /\ state[c] = "changed" =>
         Cardinality(ControlRows(work[c].rows)) + 1 = work[c].operations
    /\ ~damaged /\ state[c] = "written" => Balanced(work[c])

DueSound(c) ==
    /\ \A i \in 1..Len(due[c]) : due[c][i].hash \in history
    /\ state[c] \in {"closed", "seeding", "creating"} => due[c] = <<>>

ConnSound(c) == LeaseSound(c) /\ WorkSound(c) /\ DueSound(c)

AnchorSound == \A record \in anchored : record.hash \in history

StorageInv ==
    /\ StorageTyped /\ LeaseHolds /\ LogsBelong /\ FilesBalance /\ AnchorSound
    /\ \A c \in Conns : ConnSound(c)

-----------------------------------------------------------------------------
(***************************************************************************)
(* The operators: rows, their count and their hashes.                      *)
(***************************************************************************)
LEMMA HashesAreFinite ==
    ASSUME NEW content \in Content
    PROVE  Hashes(content) \subseteq Hash /\ IsFiniteSet(Hashes(content))
<1>1. content.rows \in Seq(Row) /\ DOMAIN content.rows = 1..Len(content.rows)
      /\ Len(content.rows) \in Nat
  BY LenProperties DEF Content
<1>2. \A i \in DOMAIN content.rows : content.rows[i].hash \in Hash
  <2>1. \A i \in 1..Len(content.rows) : content.rows[i] \in Row
    BY <1>1, ElementOfSeq
  <2> QED BY <1>1, <2>1 DEF Row
<1>3. IsFiniteSet(DOMAIN content.rows)
  BY <1>1, FS_Interval
<1>4. IsFiniteSet({content.rows[i].hash : i \in DOMAIN content.rows})
  <2>1. [i \in DOMAIN content.rows |-> content.rows[i].hash]
          \in Surjection(DOMAIN content.rows, {content.rows[i].hash : i \in DOMAIN content.rows})
    BY DEF Surjection
  <2> QED BY <1>3, <2>1, FS_Surjection
<1> QED BY <1>2, <1>4 DEF Hashes

LEMMA NewEventTyped ==
    ASSUME NEW content \in Content, TrailTyped, NEW kind \in {"decision", "control"}
    PROVE  NewEvent(kind, content) \in Event /\ NewEvent(kind, content)[1] = kind
<1>1. IsFiniteSet(history \cup Hashes(content))
  BY HashesAreFinite, FS_Union DEF TrailTyped
<1>2. Cardinality(history \cup Hashes(content)) \in Nat
  BY <1>1, FS_CardinalityType
<1> QED BY <1>2 DEF NewEvent, Event

LEMMA NextRowTyped ==
    ASSUME NEW rows \in Seq(Row), NEW event \in Event
    PROVE  NextRow(rows, event) \in Row /\ NextRow(rows, event).event = event
<1>1. ChainHead(rows).seq \in Nat /\ ChainHead(rows).hash \in Hash
  <2>1. CASE rows = <<>>
    BY <2>1 DEF ChainHead, GENESIS_PREV_HASH, Hash
  <2>2. CASE rows # <<>>
    <3>1. rows[Len(rows)] \in Row
      BY <2>2
    <3> QED BY <2>2, <3>1 DEF ChainHead, Row
  <2> QED BY <2>1, <2>2
<1>2. ChainHead(rows).seq + 1 \in Nat
  BY <1>1
<1>3. <<ChainHead(rows).seq + 1, event>> \in Nat \X Event
  BY <1>2
<1>4. row_hash(ChainHead(rows).seq + 1, event, ChainHead(rows).hash) \in Hash
  BY <1>1, <1>3, AppendProperties DEF Hash, row_hash
<1> QED BY <1>1, <1>2, <1>4 DEF NextRow, Row

(* What one more row does to a database: it is one, its keys and its count *)
(* of operations are as before, and the new row's hash is among its own.   *)
LEMMA WithRowTyped ==
    ASSUME NEW content \in Content, TrailTyped, NEW kind \in {"decision", "control"}
    PROVE  /\ WithRow(content, kind) \in Content
           /\ WithRow(content, kind).keys = content.keys
           /\ WithRow(content, kind).operations = content.operations
           /\ LastRow(WithRow(content, kind)) \in Row
           /\ LastRow(WithRow(content, kind)).hash \in Hashes(WithRow(content, kind))
           /\ Hashes(content) \subseteq Hashes(WithRow(content, kind))
           /\ Announcement(LastRow(WithRow(content, kind))) \in Seq(HeadRecord)
           /\ Len(Announcement(LastRow(WithRow(content, kind)))) = 1
           /\ Announcement(LastRow(WithRow(content, kind)))[1].hash
                \in Hashes(WithRow(content, kind))
<1> DEFINE rows == content.rows
           row == NextRow(rows, NewEvent(kind, content))
           after == WithRow(content, kind)
<1>1. rows \in Seq(Row) /\ row \in Row
  BY NewEventTyped, NextRowTyped DEF Content
<1>2. /\ after.rows = Append(rows, row) /\ after.keys = content.keys
      /\ after.operations = content.operations
      /\ after = [rows |-> Append(rows, row), keys |-> content.keys, operations |-> content.operations]
  <2>1. content = [rows |-> rows, keys |-> content.keys, operations |-> content.operations]
    BY DEF Content
  <2>2. after = [content EXCEPT !.rows = Append(rows, row)]
    BY DEF WithRow
  <2> HIDE DEF row, after
  <2>3. after = [rows |-> Append(rows, row), keys |-> content.keys, operations |-> content.operations]
    BY <2>1, <2>2
  <2> QED BY <2>3
<1> HIDE DEF rows, row, after
<1>3. /\ after.rows \in Seq(Row) /\ Len(after.rows) = Len(rows) + 1 /\ Len(rows) \in Nat
      /\ after.rows[Len(after.rows)] = row
      /\ \A i \in 1..Len(rows) : after.rows[i] = rows[i]
      /\ DOMAIN rows = 1..Len(rows) /\ DOMAIN after.rows = 1..(Len(rows) + 1)
  BY <1>1, <1>2, AppendProperties, LenProperties
<1>4. after \in Content
  BY <1>2, <1>3 DEF Content
<1>5. LastRow(after) \in Row /\ LastRow(after).hash \in Hashes(after)
  BY <1>1, <1>3 DEF LastRow, Hashes
<1>6. Hashes(content) \subseteq Hashes(after)
  BY <1>3 DEF Hashes, rows
<1>7. [seq |-> LastRow(after).seq, hash |-> LastRow(after).hash] \in HeadRecord
  BY <1>5 DEF Row, HeadRecord
<1>8. /\ Announcement(LastRow(after)) \in Seq(HeadRecord) /\ Len(Announcement(LastRow(after))) = 1
      /\ Announcement(LastRow(after))[1].hash = LastRow(after).hash
  BY <1>7 DEF Announcement
<1> QED BY <1>2, <1>4, <1>5, <1>6, <1>8 DEF after

LEMMA ControlRowsAreCounted ==
    ASSUME NEW rows \in Seq(Row)
    PROVE  IsFiniteSet(ControlRows(rows)) /\ Cardinality(ControlRows(rows)) \in Nat
<1>1. ControlRows(rows) \subseteq 1..Len(rows) /\ Len(rows) \in Nat
  BY LenProperties DEF ControlRows
<1>2. IsFiniteSet(1..Len(rows))
  BY <1>1, FS_Interval
<1>3. IsFiniteSet(ControlRows(rows))
  BY <1>1, <1>2, FS_Subset
<1> QED BY <1>3, FS_CardinalityType

LEMMA WithRowCounted ==
    ASSUME NEW content \in Content, TrailTyped, NEW kind \in {"decision", "control"}
    PROVE  Cardinality(ControlRows(WithRow(content, kind).rows))
             = Cardinality(ControlRows(content.rows)) + (IF kind = "control" THEN 1 ELSE 0)
<1> DEFINE rows == content.rows
           row == NextRow(rows, NewEvent(kind, content))
           after == WithRow(content, kind)
<1>1. rows \in Seq(Row) /\ row \in Row /\ row.event[1] = kind
  BY NewEventTyped, NextRowTyped DEF Content
<1>2. after.rows = Append(rows, row)
  BY DEF WithRow, Content
<1> HIDE DEF rows, row, after
<1>3. /\ Len(rows) \in Nat
      /\ after.rows[Len(rows) + 1] = row
      /\ \A i \in 1..Len(rows) : after.rows[i] = rows[i]
      /\ DOMAIN rows = 1..Len(rows) /\ DOMAIN after.rows = 1..(Len(rows) + 1)
  BY <1>1, <1>2, AppendProperties, LenProperties
<1>4. CASE kind = "control"
  <2>1. ControlRows(after.rows) = ControlRows(rows) \cup {Len(rows) + 1}
    BY <1>1, <1>3, <1>4 DEF ControlRows
  <2>2. Len(rows) + 1 \notin ControlRows(rows)
    BY <1>3 DEF ControlRows
  <2> QED BY <1>1, <1>4, <2>1, <2>2, FS_AddElement, ControlRowsAreCounted DEF after, rows
<1>5. CASE kind = "decision"
  <2>1. ControlRows(after.rows) = ControlRows(rows)
    BY <1>1, <1>3, <1>5 DEF ControlRows
  <2> QED BY <1>1, <1>5, <2>1, ControlRowsAreCounted DEF after, rows
<1> QED BY <1>4, <1>5

-----------------------------------------------------------------------------
(***************************************************************************)
(* Verification: what the hashes of a verified chain say of its rows.      *)
(***************************************************************************)
LEMMA LeastNumber ==
    ASSUME NEW T \in SUBSET Nat, T # {}
    PROVE  \E m \in T : \A n \in T : m <= n
<1>1. OpToRel(<, Nat) = {p \in Nat \X Nat : p[1] < p[2]}
  BY DEF OpToRel
<1>2. PICK m \in T : \A n \in T : ~ (<<n, m>> \in OpToRel(<, Nat))
  BY NatLessThanWellFounded, WFMin, Zenon
<1>3. \A n \in T : ~(n < m)
  BY <1>1, <1>2
<1> QED BY <1>3

LEMMA RowsTyped ==
    ASSUME NEW rows \in Seq(Row)
    PROVE  /\ Len(rows) \in Nat /\ DOMAIN rows = 1..Len(rows)
           /\ \A i \in 1..Len(rows) :
                /\ rows[i].seq \in Nat /\ rows[i].event \in Event
                /\ rows[i].prev \in Hash /\ rows[i].hash \in Hash
           /\ Story(rows) \in Hash /\ Len(Story(rows)) = Len(rows)
           /\ \A i \in 1..Len(rows) : Story(rows)[i] = <<rows[i].seq, rows[i].event>>
<1>1. Len(rows) \in Nat /\ DOMAIN rows = 1..Len(rows)
  BY LenProperties
<1>2. \A i \in 1..Len(rows) : rows[i] \in Row
  BY ElementOfSeq
<1>3. \A i \in 1..Len(rows) :
         /\ rows[i].seq \in Nat /\ rows[i].event \in Event
         /\ rows[i].prev \in Hash /\ rows[i].hash \in Hash
  BY <1>2 DEF Row
<1>4. \A i \in 1..Len(rows) : <<rows[i].seq, rows[i].event>> \in Nat \X Event
  BY <1>3
<1>5. [i \in 1..Len(rows) |-> <<rows[i].seq, rows[i].event>>] \in [1..Len(rows) -> Nat \X Event]
  BY <1>4
<1>6. Story(rows) \in Hash
  BY <1>1, <1>5 DEF Story, Hash
<1>7. Len(Story(rows)) = Len(rows)
  BY <1>1, <1>6, LenProperties DEF Story, Hash
<1>8. \A i \in 1..Len(rows) : Story(rows)[i] = <<rows[i].seq, rows[i].event>>
  BY <1>1 DEF Story
<1> QED BY <1>1, <1>3, <1>6, <1>7, <1>8

(* The hash of a verified row holds every row up to it.  A first row that  *)
(* broke this would be linked to one that does not.                        *)
HashTellsStory(rows, i) ==
    Len(rows[i].hash) = i /\ \A j \in 1..i : rows[i].hash[j] = Story(rows)[j]

LEMMA VerifiedHashes ==
    ASSUME NEW rows \in Seq(Row), VerifyChain(rows)
    PROVE  \A i \in 1..Len(rows) : HashTellsStory(rows, i)
<1> DEFINE wrong == {i \in 1..Len(rows) : ~HashTellsStory(rows, i)}
<1>1. SUFFICES ASSUME wrong # {} PROVE FALSE
  OBVIOUS
<1>2. wrong \in SUBSET Nat
  BY RowsTyped
<1>3. PICK m \in wrong : \A n \in wrong : m <= n
  BY <1>1, <1>2, LeastNumber
<1>4. m \in 1..Len(rows) /\ ~HashTellsStory(rows, m)
  OBVIOUS
<1>5. /\ rows[m].prev = (IF m = 1 THEN GENESIS_PREV_HASH ELSE rows[m - 1].hash)
      /\ rows[m].hash = Append(rows[m].prev, <<rows[m].seq, rows[m].event>>)
  BY <1>4 DEF VerifyChain, Reordered, Modified, row_hash
<1>6. /\ rows[m].prev \in Seq(Nat \X Event) /\ <<rows[m].seq, rows[m].event>> \in Nat \X Event
      /\ Story(rows)[m] = <<rows[m].seq, rows[m].event>>
  BY <1>4, RowsTyped DEF Hash
<1>7. /\ Len(rows[m].hash) = Len(rows[m].prev) + 1
      /\ rows[m].hash[Len(rows[m].prev) + 1] = <<rows[m].seq, rows[m].event>>
      /\ \A j \in 1..Len(rows[m].prev) : rows[m].hash[j] = rows[m].prev[j]
  BY <1>5, <1>6, AppendProperties
<1>8. Len(rows[m].prev) = m - 1 /\ \A j \in 1..(m - 1) : rows[m].prev[j] = Story(rows)[j]
  <2>1. CASE m = 1
    BY <1>5, <2>1 DEF GENESIS_PREV_HASH
  <2>2. CASE m # 1
    <3>1. m - 1 \in 1..Len(rows) /\ m - 1 \notin wrong
      BY <1>2, <1>3, <1>4, <2>2, RowsTyped
    <3>2. HashTellsStory(rows, m - 1)
      BY <3>1
    <3> QED BY <1>5, <2>2, <3>2 DEF HashTellsStory
  <2> QED BY <2>1, <2>2
<1>9. HashTellsStory(rows, m)
  <2>1. m \in Nat \ {0}
    BY <1>4, RowsTyped
  <2>2. Len(rows[m].hash) = m
    BY <1>7, <1>8, <2>1
  <2>3. ASSUME NEW j \in 1..m PROVE rows[m].hash[j] = Story(rows)[j]
    <3>1. CASE j = m
      <4>1. Len(rows[m].prev) + 1 = m
        BY <1>8, <2>1
      <4>2. rows[m].hash[m] = <<rows[m].seq, rows[m].event>>
        BY <1>7, <4>1
      <4> QED BY <1>6, <3>1, <4>2
    <3>2. CASE j \in 1..(m - 1)
      BY <1>7, <1>8, <3>2
    <3> QED BY <2>1, <3>1, <3>2
  <2> QED BY <2>2, <2>3 DEF HashTellsStory
<1> QED BY <1>4, <1>9

LEMMA VerifiedRowsAreAnchored ==
    ASSUME NEW rows \in Seq(Row), VerifyChain(rows),
           NEW records \in SUBSET HeadRecord, VerifyAgainstAnchor(rows, records)
    PROVE  /\ \A record \in records : IsPrefix(record.hash, Story(rows))
           /\ rows # <<>> => \E record \in records : record.hash = Story(rows)
           /\ \A i \in DOMAIN rows : rows[i].column = rows[i].event
<1>1. \A i \in 1..Len(rows) : HashTellsStory(rows, i) /\ rows[i].seq = i
  BY VerifiedHashes DEF VerifyChain, Deleted
<1>2. ASSUME NEW record \in records
      PROVE  IsPrefix(record.hash, Story(rows))
             /\ (record.seq >= Len(rows) => record.hash = Story(rows))
  <2>1. PICK i \in 1..Len(rows) : rows[i].seq = record.seq /\ rows[i].hash = record.hash
    BY DEF VerifyAgainstAnchor, Confirmed
  <2>2. /\ i \in 1..Len(rows) /\ Len(rows) \in Nat /\ record.hash \in Seq(Nat \X Event)
        /\ Len(record.hash) = i /\ record.seq = i
        /\ \A j \in 1..i : record.hash[j] = Story(rows)[j]
        /\ Story(rows) \in Seq(Nat \X Event) /\ Len(Story(rows)) = Len(rows)
    BY <1>1, <2>1, RowsTyped DEF HashTellsStory, Hash
  <2>3. SubSeq(record.hash, 1, i) = SubSeq(Story(rows), 1, i)
    BY <2>2
  <2>4. IsPrefix(record.hash, Story(rows))
    BY <2>2, <2>3 DEF IsPrefix
  <2>5. ASSUME record.seq >= Len(rows) PROVE record.hash = Story(rows)
    BY <2>2, <2>5, SeqEqual
  <2> QED BY <2>4, <2>5
<1>3. rows # <<>> => \E record \in records : record.seq >= Len(rows)
  <2> SUFFICES ASSUME rows # <<>> PROVE \E record \in records : record.seq >= Len(rows)
    OBVIOUS
  <2>1. Len(rows) \in 1..Len(rows) /\ Len(rows) # 0
    BY EmptySeq
  <2>2. ChainHead(rows).seq = Len(rows)
    BY <1>1, <2>1 DEF ChainHead
  <2> QED BY <2>1, <2>2 DEF VerifyAgainstAnchor, Covered
<1>4. \A i \in DOMAIN rows : rows[i].column = rows[i].event
  BY RowsTyped DEF VerifyChain, ColumnMismatch
<1> QED BY <1>2, <1>3, <1>4

-----------------------------------------------------------------------------
(***************************************************************************)
(* The database an opener finds.                                           *)
(***************************************************************************)
LEMMA MarksAreNoContent ==
    /\ NoContent \notin Content /\ Corrupt \notin Content /\ Partial \notin Content
    /\ Empty \in Content /\ NoLog \notin LogFile
    /\ \A k \in KeyIds : Empty.keys[k] = None
    /\ Empty.rows = <<>> /\ Empty.operations = 0
<1>1. NoContent.operations = -1 /\ Corrupt.operations = -2 /\ Partial.operations = -3
  BY DEF NoContent, Corrupt, Partial, Empty
<1>2. \A content \in Content : content.operations \in Nat
  BY DEF Content
<1>3. NoContent \notin Content /\ Corrupt \notin Content /\ Partial \notin Content
  BY <1>1, <1>2
<1>4. Empty \in Content
  <2>1. <<>> \in Seq(Row)
    OBVIOUS
  <2>2. [k \in KeyIds |-> None] \in [KeyIds -> KeyStatus]
    BY DEF KeyStatus
  <2> QED BY <2>1, <2>2 DEF Empty, Content
<1>5. NoLog \notin LogFile
  BY DEF NoLog, LogFile
<1> QED BY <1>3, <1>4, <1>5 DEF Empty

LEMMA DatabaseTyped ==
    ASSUME FilesTyped, LogsBelong
    PROVE  /\ db \in Content /\ db # Corrupt
           /\ wal = NoLog => db = main.content
           /\ wal # NoLog => db = wal.content /\ wal \in LogFile /\ wal.of = main.id
           /\ main.content \in Content /\ main.id \in Nat \ {0}
<1>1. main.content \in Content /\ main.id \in Nat \ {0}
  BY DEF FilesTyped, MainFile
<1>2. CASE wal = NoLog
  BY <1>1, <1>2, MarksAreNoContent DEF db
<1>3. CASE wal # NoLog
  <2>1. wal \in LogFile /\ wal.of = main.id
    BY <1>3 DEF FilesTyped, LogsBelong
  <2>2. wal.content \in Content
    BY <2>1 DEF LogFile
  <2> QED BY <1>1, <1>3, <2>1, <2>2, MarksAreNoContent DEF db
<1> QED BY <1>2, <1>3

\* An open connection keeps the storage operations from the files.
LEMMA OpenKeepsFiles ==
    ASSUME LeaseHolds, NEW c \in Conns, LeaseSound(c), state[c] # "closed"
    PROVE  c \in lease /\ Exclusive \notin lease /\ op.step \notin Replacing
<1>1. c \in lease /\ c # Exclusive
  BY TrailAssumption DEF LeaseSound
<1> QED BY <1>1 DEF LeaseHolds

\* What TrailStep adds to a connection's step.
Alongside ==
    /\ synced' = IF <<main, wal>>' = <<main, wal>> THEN synced ELSE [main |-> main', wal |-> wal']
    /\ UNCHANGED <<op, built, snapshot, ops, faults>>

\* The connections other than c go on as they were.
OthersStay(c) ==
    \A d \in Conns \ {c} :
        /\ inode'[d] = inode[d] /\ state'[d] = state[d] /\ work'[d] = work[d]
        /\ scope'[d] = scope[d] /\ due'[d] = due[d] /\ key'[d] = key[d] /\ seen'[d] = seen[d]

(***************************************************************************)
(* A step that leaves the files alone.                                     *)
(***************************************************************************)
LEMMA FilesStay ==
    ASSUME LogsBelong, UNCHANGED <<main, wal, synced, op, built>>
    PROVE  LogsBelong' /\ db' = db
<1>1. db' = db
  BY DEF db
<1> QED BY <1>1 DEF LogsBelong

(***************************************************************************)
(* A commit: the log gets the new content, and nobody is replacing it.     *)
(***************************************************************************)
LEMMA CommitFiles ==
    ASSUME StorageTyped, LeaseHolds, LogsBelong, NEW c \in Conns, LeaseSound(c), state[c] # "closed",
           NEW content \in Content, wal' = [of |-> main.id, content |-> content],
           main' = main, lease' = lease, Alongside
    PROVE  /\ FilesTyped' /\ LogsBelong' /\ db' = content
           /\ synced' = [main |-> main, wal |-> wal'] /\ wal' # NoLog
           /\ synced' \in [main : MainFile, wal : LogFile \cup {NoLog}]
<1>1. op.step \notin Replacing
  BY OpenKeepsFiles
<1>2. main \in MainFile /\ main.id \in Nat \ {0}
  BY DEF StorageTyped, FilesTyped, MainFile
<1>3. wal' \in LogFile /\ wal'.of = main.id /\ wal'.content = content /\ wal' # NoLog
  BY <1>2, MarksAreNoContent DEF LogFile
<1>4. FilesTyped'
  BY <1>2, <1>3 DEF StorageTyped, FilesTyped
<1>5. db' = content
  BY <1>3 DEF db
<1>6. synced' = [main |-> main, wal |-> wal']
  <2>1. CASE wal' = wal
    BY <1>3, <2>1 DEF Alongside, LogsBelong
  <2>2. CASE wal' # wal
    BY <2>2 DEF Alongside
  <2> QED BY <2>1, <2>2
<1>7. LogsBelong'
  <2>1. wal'.of = main'.id /\ synced'.main = main' /\ synced'.wal = wal' /\ op' = op /\ built' = built
    BY <1>3, <1>6 DEF Alongside
  <2> QED BY <1>1, <1>3, <1>5, <1>6, <2>1 DEF LogsBelong, Replacing
<1> QED BY <1>2, <1>3, <1>4, <1>5, <1>6, <1>7

(***************************************************************************)
(* A step of one connection keeps the others' part of the invariant: it    *)
(* changes neither their lease nor, while one of them has the write lock,  *)
(* the database.                                                           *)
(***************************************************************************)
LEMMA OneConnection ==
    ASSUME StorageInv, NEW c \in Conns, OthersStay(c), Alongside,
           FilesTyped', ConnsTyped', TrailTyped', OpTyped',
           Exclusive \notin lease, lease' \ {c} = lease \ {c}, main'.id = main.id,
           damaged' = damaged, history \subseteq history',
           (writer' = writer /\ db' = db) \/ writer \in {None, c},
           LogsBelong', FilesBalance', AnchorSound', ConnSound(c)'
    PROVE  StorageInv'
<1>1. LeaseHolds'
  <2>1. Exclusive \notin lease'
    BY TrailAssumption
  <2> QED BY <2>1 DEF StorageInv, LeaseHolds, Alongside
<1>2. ASSUME NEW d \in Conns \ {c} PROVE ConnSound(d)'
  <2>1. ConnSound(d) /\ d # c /\ d # None
    BY TrailAssumption DEF StorageInv
  <2>2. LeaseSound(d)'
    BY <2>1 DEF ConnSound, LeaseSound, OthersStay
  <2>3. DueSound(d)'
    BY <2>1 DEF ConnSound, DueSound, OthersStay
  <2>4. WorkSound(d)'
    <3>1. state'[d] = state[d] /\ work'[d] = work[d] /\ scope'[d] = scope[d]
      BY DEF OthersStay
    <3>2. InTransaction(d) => writer' = d /\ db' = db
      BY <2>1 DEF ConnSound, WorkSound
    <3>3. Hashes(work[d])' = Hashes(work[d]) /\ Balanced(work[d])' = Balanced(work[d])
      BY <3>1 DEF Hashes, Balanced
    <3>4. InTransaction(d)' <=> InTransaction(d)
      BY <3>1 DEF InTransaction
    <3> QED BY <2>1, <3>1, <3>2, <3>3, <3>4 DEF ConnSound, WorkSound
  <2> QED BY <2>2, <2>3, <2>4 DEF ConnSound
<1>3. \A d \in Conns : ConnSound(d)'
  BY <1>2
<1> QED BY <1>1, <1>3 DEF StorageInv, StorageTyped

\* The same for a step that leaves the files alone.
LEMMA InPlace ==
    ASSUME StorageInv, NEW c \in Conns, OthersStay(c), Alongside, UNCHANGED fileVars,
           state[c] # "closed", ConnsTyped', TrailTyped',
           damaged' = damaged, history \subseteq history', writer' = writer \/ writer \in {None, c},
           AnchorSound', db' = db => ConnSound(c)'
    PROVE  StorageInv'
<1>1. UNCHANGED <<main, wal, lease, synced, op, built, snapshot, ops, faults>>
  BY DEF fileVars, Alongside
<1>2. LogsBelong' /\ db' = db
  BY <1>1, FilesStay DEF StorageInv
<1>3. FilesTyped' /\ OpTyped'
  BY <1>1 DEF StorageInv, StorageTyped, FilesTyped, OpTyped
<1>4. FilesBalance'
  BY <1>1 DEF StorageInv, FilesBalance, Balanced
<1>5. Exclusive \notin lease
  BY OpenKeepsFiles DEF StorageInv, ConnSound
<1> QED BY <1>1, <1>2, <1>3, <1>4, <1>5, OneConnection

\* And for a commit of content.
LEMMA Commits ==
    ASSUME StorageInv, NEW c \in Conns, OthersStay(c), Alongside,
           NEW content \in Content, wal' = [of |-> main.id, content |-> content],
           main' = main, lease' = lease, state[c] # "closed", ~damaged => Balanced(content),
           ConnsTyped', TrailTyped', damaged' = damaged, history \subseteq history',
           writer \in {None, c}, AnchorSound',
           db' = content => ConnSound(c)'
    PROVE  StorageInv'
<1>1. LeaseSound(c) /\ Exclusive \notin lease
  BY OpenKeepsFiles DEF StorageInv, ConnSound
<1>2. /\ FilesTyped' /\ LogsBelong' /\ db' = content
      /\ synced' = [main |-> main, wal |-> wal'] /\ wal' # NoLog
      /\ synced' \in [main : MainFile, wal : LogFile \cup {NoLog}]
  BY <1>1, CommitFiles DEF StorageInv
<1>3. OpTyped'
  BY <1>2 DEF StorageInv, StorageTyped, OpTyped, Alongside
<1>4. FilesBalance'
  <2>1. /\ main'.content = main.content /\ synced'.main.content = main.content
        /\ wal'.content = content /\ synced'.wal.content = content
    BY <1>2
  <2>2. snapshot' = snapshot /\ built' = built
    BY DEF Alongside
  <2> QED BY <2>1, <2>2 DEF StorageInv, FilesBalance, Balanced
<1> QED BY <1>1, <1>2, <1>3, <1>4, OneConnection

-----------------------------------------------------------------------------
(***************************************************************************)
(* Steps of a connection inside its unit of work.                          *)
(***************************************************************************)
\* What every step of a connection can count on.
LEMMA ConnFacts ==
    ASSUME StorageInv, NEW c \in Conns
    PROVE  /\ db \in Content /\ db # Corrupt
           /\ ConnsTyped /\ TrailTyped /\ ConnSound(c) /\ AnchorSound
           /\ ~damaged => Balanced(db)
           /\ c # None
<1>1. db \in Content /\ db # Corrupt /\ (wal = NoLog => db = main.content)
      /\ (wal # NoLog => db = wal.content)
  BY DatabaseTyped DEF StorageInv, StorageTyped
<1>2. ~damaged => Balanced(db)
  BY <1>1 DEF StorageInv, FilesBalance
<1> QED BY <1>1, <1>2, TrailAssumption DEF StorageInv, StorageTyped

LEMMA OpenSavepointKeeps ==
    ASSUME StorageInv, NEW c \in Conns, OpenSavepoint(c), Alongside
    PROVE  StorageInv'
<1> USE ConnFacts
<1>1. OthersStay(c)
  BY DEF OthersStay, OpenSavepoint, ConnsTyped
<1>2. ConnsTyped'
  <2>1. NewScope \in [open : BOOLEAN, held : Seq(HeadRecord)]
    BY DEF NewScope
  <2> QED BY <2>1 DEF ConnsTyped, OpenSavepoint, ConnSteps
<1>3. TrailTyped' /\ AnchorSound'
  BY DEF TrailTyped, AnchorSound, OpenSavepoint
<1>4. ConnSound(c)'
  <2>1. state'[c] = "snapshot" /\ work'[c] = db /\ due'[c] = due[c] /\ inode'[c] = inode[c]
    BY DEF OpenSavepoint, ConnsTyped
  <2>2. LeaseSound(c)' /\ DueSound(c)'
    BY <2>1 DEF ConnSound, LeaseSound, DueSound, OpenSavepoint, May, fileVars
  <2>3. WorkSound(c)'
    BY <2>1 DEF WorkSound, InTransaction
  <2> QED BY <2>2, <2>3 DEF ConnSound
<1>5. state[c] # "closed" /\ UNCHANGED <<fileVars, damaged, history, writer>>
  BY DEF OpenSavepoint, May
<1> QED BY <1>1, <1>2, <1>3, <1>4, <1>5, InPlace

(***************************************************************************)
(* A transaction takes the lock on a database in which what was revoked    *)
(* stays so.                                                               *)
(***************************************************************************)
LEMMA BeginControlKeeps ==
    ASSUME StorageInv, NEW c \in Conns, NEW u, NEW content \in Content, BeginControl(c, u, content),
           content.rows = db.rows, content.operations = db.operations,
           KeepsRevoked(db.keys, content.keys), Alongside
    PROVE  StorageInv'
<1> USE ConnFacts
<1> DEFINE begun == [content EXCEPT !.operations = @ + 1]
<1>1. /\ begun \in Content /\ begun.rows = db.rows /\ begun.keys = content.keys
      /\ begun.operations = db.operations + 1
  BY DEF Content
<1> HIDE DEF begun
<1>2. /\ state[c] = "idle" /\ writer = None /\ writer' = c
      /\ state' = [state EXCEPT ![c] = "changed"]
      /\ scope' = [scope EXCEPT ![c] = NewScope]
      /\ work' = [work EXCEPT ![c] = begun]
      /\ UNCHANGED <<fileVars, inode, due, key, seen, anchored, history, damaged>>
  BY DEF BeginControl, MayBegin, May, begun
<1>3. OthersStay(c)
  BY <1>2 DEF OthersStay, ConnsTyped
<1>4. ConnsTyped'
  <2>1. NewScope \in [open : BOOLEAN, held : Seq(HeadRecord)]
    BY DEF NewScope
  <2> QED BY <1>1, <1>2, <2>1 DEF ConnsTyped, ConnSteps
<1>5. TrailTyped' /\ AnchorSound'
  BY <1>2 DEF TrailTyped, AnchorSound
<1>6. ASSUME db' = db PROVE ConnSound(c)'
  <2>1. /\ state'[c] = "changed" /\ work'[c] = begun /\ due'[c] = due[c] /\ inode'[c] = inode[c]
        /\ scope'[c] = NewScope /\ scope'[c].open /\ Len(scope'[c].held) = 0
    BY <1>2 DEF ConnsTyped, NewScope
  <2>2. LeaseSound(c)' /\ DueSound(c)'
    BY <1>2, <2>1 DEF ConnSound, LeaseSound, DueSound, fileVars
  <2>3. KeepsRevoked(db.keys, work[c].keys)'
    BY <1>1, <1>6, <2>1 DEF KeepsRevoked
  <2>4. ~damaged' => Cardinality(ControlRows(work'[c].rows)) + 1 = work'[c].operations
    BY <1>1, <1>2, <2>1, ControlRowsAreCounted DEF Balanced, Content
  <2>5. WorkSound(c)'
    BY <1>1, <1>2, <2>1, <2>3, <2>4 DEF WorkSound, InTransaction
  <2> QED BY <2>2, <2>5 DEF ConnSound
<1> QED BY <1>2, <1>3, <1>4, <1>5, <1>6, InPlace

\* What a control operation does to the keys revokes, and never undoes a revocation.
LEMMA KeysAfterKeep ==
    ASSUME NEW u \in KeyUnits, NEW keys \in [KeyIds -> KeyStatus], NEW k \in KeyIds,
           KeyFits(u, keys, k)
    PROVE  KeysAfter(u, keys, k) \in [KeyIds -> KeyStatus]
           /\ KeepsRevoked(keys, KeysAfter(u, keys, k))
<1>1. keys[k] # "revoked"
  BY DEF KeyFits, None
<1>2. CASE u = "create"
  BY <1>1, <1>2 DEF KeysAfter, KeepsRevoked, KeyStatus
<1>3. CASE u = "revoke"
  BY <1>1, <1>3 DEF KeysAfter, KeepsRevoked, KeyStatus
<1>4. CASE u = "rotate"
  <2> DEFINE after == [j \in KeyIds |-> IF j = k THEN "active"
                                        ELSE IF j \in Prior(keys, k) THEN "revoked"
                                        ELSE keys[j]]
  <2>1. KeysAfter(u, keys, k) = after
    BY <1>4 DEF KeysAfter
  <2>2. after \in [KeyIds -> KeyStatus]
    BY DEF KeyStatus
  <2>3. KeepsRevoked(keys, after)
    BY <1>1 DEF KeepsRevoked
  <2> QED BY <2>1, <2>2, <2>3
<1> QED BY <1>2, <1>3, <1>4 DEF KeyUnits

LEMMA ChangeKeysKeeps ==
    ASSUME StorageInv, NEW c \in Conns, ChangeKeys(c), Alongside
    PROVE  StorageInv'
<1>1. PICK u \in KeyUnits, k \in KeyIds :
        /\ KeyFits(u, db.keys, k)
        /\ BeginControl(c, u, [db EXCEPT !.keys = KeysAfter(u, @, k)])
  BY DEF ChangeKeys
<1>2. db \in Content /\ db.keys \in [KeyIds -> KeyStatus]
  BY ConnFacts DEF Content
<1>3. KeysAfter(u, db.keys, k) \in [KeyIds -> KeyStatus]
      /\ KeepsRevoked(db.keys, KeysAfter(u, db.keys, k))
  BY <1>1, <1>2, KeysAfterKeep
<1> DEFINE content == [db EXCEPT !.keys = KeysAfter(u, @, k)]
<1>4. /\ content \in Content /\ content.rows = db.rows /\ content.operations = db.operations
      /\ content.keys = KeysAfter(u, db.keys, k)
  BY <1>2, <1>3 DEF Content
<1> QED BY <1>1, <1>3, <1>4, BeginControlKeeps

LEMMA ChangeInCompositeKeeps ==
    ASSUME StorageInv, NEW c \in Conns, ChangeInComposite(c), Alongside
    PROVE  StorageInv'
<1>1. db \in Content /\ KeepsRevoked(db.keys, db.keys)
  BY ConnFacts DEF KeepsRevoked
<1> QED BY <1>1, BeginControlKeeps DEF ChangeInComposite

LEMMA OneMore ==
    ASSUME NEW held \in Seq(HeadRecord), NEW news \in Seq(HeadRecord), Len(news) = 1
    PROVE  /\ held \o news \in Seq(HeadRecord)
           /\ Len(held \o news) = Len(held) + 1 /\ Len(held) \in Nat
           /\ \A i \in 1..Len(held) : (held \o news)[i] = held[i]
           /\ (held \o news)[Len(held) + 1] = news[1]
<1>1. Len(held) \in Nat /\ held \o news \in Seq(HeadRecord) /\ Len(held \o news) = Len(held) + 1
  <2>1. Len(held \o news) = Len(held) + Len(news) /\ held \o news \in Seq(HeadRecord)
    BY ConcatProperties, Zenon
  <2>2. Len(held) \in Nat
    BY LenProperties
  <2> QED BY <2>1, <2>2
<1>2. \A i \in 1..(Len(held) + 1) :
         (held \o news)[i] = IF i <= Len(held) THEN held[i] ELSE news[i - Len(held)]
  <2>1. \A i \in 1..(Len(held) + Len(news)) :
           (held \o news)[i] = IF i <= Len(held) THEN held[i] ELSE news[i - Len(held)]
    BY ConcatProperties, Zenon
  <2> QED BY <2>1
<1>3. \A i \in 1..Len(held) : (held \o news)[i] = held[i]
  BY <1>1, <1>2
<1>4. (held \o news)[Len(held) + 1] = news[1]
  <2>1. Len(held) + 1 \in 1..(Len(held) + 1) /\ ~(Len(held) + 1 <= Len(held)) /\ (Len(held) + 1) - Len(held) = 1
    BY <1>1
  <2> QED BY <1>2, <2>1
<1> QED BY <1>1, <1>3, <1>4

(***************************************************************************)
(* A row written inside a transaction: its announcement is held back.      *)
(***************************************************************************)
LEMMA HeldBack ==
    ASSUME StorageInv, NEW c \in Conns, state[c] = "changed", Alongside,
           NEW kind \in {"decision", "control"}, NEW step \in {"changed", "written"},
           step = "written" <=> kind = "control",
           work' = [work EXCEPT ![c] = WithRow(@, kind)],
           EmitOrDefer(c, Announcement(LastRow(work'[c]))),
           state' = [state EXCEPT ![c] = step],
           UNCHANGED <<fileVars, inode, key, seen, writer, anchored, history, damaged>>
    PROVE  StorageInv'
<1> USE ConnFacts
<1> DEFINE after == WithRow(work[c], kind)
           news == Announcement(LastRow(after))
<1>1. /\ work[c] \in Content /\ scope[c].open /\ writer = c
      /\ KeepsRevoked(db.keys, work[c].keys)
      /\ \A i \in 1..Len(scope[c].held) : scope[c].held[i].hash \in Hashes(work[c])
      /\ ~damaged => Cardinality(ControlRows(work[c].rows)) + 1 = work[c].operations
  BY DEF ConnSound, WorkSound, InTransaction
<1>2. /\ after \in Content /\ after.keys = work[c].keys /\ after.operations = work[c].operations
      /\ Hashes(work[c]) \subseteq Hashes(after)
      /\ news \in Seq(HeadRecord) /\ Len(news) = 1 /\ news[1].hash \in Hashes(after)
  BY <1>1, WithRowTyped
<1>3. Cardinality(ControlRows(after.rows))
        = Cardinality(ControlRows(work[c].rows)) + (IF kind = "control" THEN 1 ELSE 0)
  BY <1>1, WithRowCounted
<1>4. /\ work' = [work EXCEPT ![c] = after] /\ work'[c] = after
  BY DEF ConnsTyped
<1> HIDE DEF after
<1>5. scope' = [scope EXCEPT ![c].held = @ \o news] /\ due' = due
  BY <1>1, <1>4 DEF EmitOrDefer
<1> HIDE DEF news
<1>6. scope[c] \in [open : BOOLEAN, held : Seq(HeadRecord)]
  BY DEF ConnsTyped
<1>7. /\ scope[c].held \o news \in Seq(HeadRecord)
      /\ Len(scope[c].held \o news) = Len(scope[c].held) + 1 /\ Len(scope[c].held) \in Nat
      /\ \A i \in 1..Len(scope[c].held) : (scope[c].held \o news)[i] = scope[c].held[i]
      /\ (scope[c].held \o news)[Len(scope[c].held) + 1] = news[1]
  BY <1>2, <1>6, OneMore
<1>8. scope'[c].open /\ scope'[c].held = scope[c].held \o news
      /\ scope'[c] \in [open : BOOLEAN, held : Seq(HeadRecord)]
  BY <1>1, <1>5, <1>6, <1>7 DEF ConnsTyped
<1>9. OthersStay(c)
  BY <1>4, <1>5 DEF OthersStay, ConnsTyped
<1>10. ConnsTyped'
  BY <1>2, <1>4, <1>5, <1>8 DEF ConnsTyped, ConnSteps
<1>11. TrailTyped' /\ AnchorSound'
  BY DEF TrailTyped, AnchorSound
<1>12. ASSUME db' = db PROVE ConnSound(c)'
  <2>1. state'[c] = step /\ due'[c] = due[c] /\ inode'[c] = inode[c]
    BY <1>5 DEF ConnsTyped
  <2>2. LeaseSound(c)' /\ DueSound(c)'
    BY <2>1 DEF ConnSound, LeaseSound, DueSound, fileVars
  <2>3. KeepsRevoked(db.keys, work[c].keys)'
    BY <1>1, <1>2, <1>4, <1>12 DEF KeepsRevoked
  <2>4. \A i \in 1..Len(scope'[c].held) : scope'[c].held[i].hash \in Hashes(after)
    <3>1. ASSUME NEW i \in 1..(Len(scope[c].held) + 1)
          PROVE  (scope[c].held \o news)[i].hash \in Hashes(after)
      BY <1>1, <1>2, <1>7
    <3> QED BY <1>7, <1>8, <3>1
  <2>5. Hashes(work[c])' = Hashes(after) /\ Balanced(work[c])' = Balanced(after)
    BY <1>4 DEF Hashes, Balanced
  <2>6. ~damaged => IF kind = "control" THEN Balanced(after)
                    ELSE Cardinality(ControlRows(after.rows)) + 1 = after.operations
    BY <1>1, <1>2, <1>3, ControlRowsAreCounted DEF Balanced, Content
  <2>7. WorkSound(c)'
    BY <1>1, <1>2, <1>4, <1>8, <2>1, <2>3, <2>4, <2>5, <2>6 DEF WorkSound, InTransaction
  <2> QED BY <2>2, <2>7 DEF ConnSound
<1> QED BY <1>9, <1>10, <1>11, <1>12, InPlace

LEMMA RecordKeeps ==
    ASSUME StorageInv, NEW c \in Conns, Record(c), Alongside
    PROVE  StorageInv'
BY HeldBack DEF Record

LEMMA RecordRejectionKeeps ==
    ASSUME StorageInv, NEW c \in Conns, RecordRejection(c), Alongside
    PROVE  StorageInv'
<1>1. state' = [state EXCEPT ![c] = "changed"]
  BY ConnFacts DEF RecordRejection, ConnsTyped
<1> QED BY <1>1, HeldBack DEF RecordRejection

(***************************************************************************)
(* The end of a unit of work.                                              *)
(***************************************************************************)
LEMMA Ended ==
    ASSUME StorageInv, NEW c \in Conns, EndTransaction(c), due' \in [Conns -> Seq(HeadRecord)],
           \A d \in Conns \ {c} : due'[d] = due[d]
    PROVE  /\ ConnsTyped' /\ OthersStay(c)
           /\ state'[c] = "idle" /\ inode'[c] = inode[c]
           /\ writer' = writer \/ writer = c
           /\ ~InTransaction(c)' /\ WorkSound(c)'
<1> USE ConnFacts
<1>1. NoScope \in [open : BOOLEAN, held : Seq(HeadRecord)]
  BY DEF NoScope
<1>2. ConnsTyped'
  BY <1>1 DEF ConnsTyped, EndTransaction, ConnSteps, KeyStatus
<1>3. OthersStay(c)
  BY DEF OthersStay, EndTransaction, ConnsTyped
<1>4. state'[c] = "idle" /\ inode'[c] = inode[c]
  BY DEF EndTransaction, ConnsTyped
<1>5. ~InTransaction(c)' /\ WorkSound(c)'
  BY <1>4 DEF InTransaction, WorkSound
<1> QED BY <1>2, <1>3, <1>4, <1>5 DEF EndTransaction

LEMMA RollbackKeeps ==
    ASSUME StorageInv, NEW c \in Conns, Rollback(c), Alongside
    PROVE  StorageInv'
<1> USE ConnFacts
<1>1. /\ EndTransaction(c) /\ state[c] # "closed"
      /\ UNCHANGED <<fileVars, due, anchored, history, damaged>>
  BY DEF Rollback
<1>2. due' \in [Conns -> Seq(HeadRecord)]
  BY <1>1 DEF ConnsTyped
<1>3. /\ ConnsTyped' /\ OthersStay(c) /\ state'[c] = "idle" /\ inode'[c] = inode[c]
      /\ (writer' = writer \/ writer = c) /\ WorkSound(c)'
  BY <1>1, <1>2, Ended
<1>4. TrailTyped' /\ AnchorSound'
  BY <1>1 DEF TrailTyped, AnchorSound
<1>5. ConnSound(c)'
  BY <1>1, <1>3 DEF ConnSound, LeaseSound, DueSound, fileVars
<1> QED BY <1>1, <1>3, <1>4, <1>5, InPlace

LEMMA AnnounceKeeps ==
    ASSUME StorageInv, NEW c \in Conns, Announce(c), Alongside
    PROVE  StorageInv'
<1> USE ConnFacts
<1>1. /\ due[c] \in Seq(HeadRecord) /\ due[c] # <<>> /\ due' = [due EXCEPT ![c] = Tail(@)]
      /\ UNCHANGED <<fileVars, inode, state, work, scope, key, seen, writer, history, damaged>>
      /\ anchored' = anchored \cup {Head(due[c])} \/ anchored' = anchored
      /\ state[c] \notin {"closed", "seeding", "creating"}
  BY DEF Announce, ConnsTyped, ConnSound, DueSound
<1>2. /\ Head(due[c]) \in HeadRecord /\ Tail(due[c]) \in Seq(HeadRecord)
      /\ Len(Tail(due[c])) = Len(due[c]) - 1 /\ Len(due[c]) \in Nat \ {0}
      /\ \A i \in 1..Len(Tail(due[c])) : Tail(due[c])[i] = due[c][i + 1]
      /\ Head(due[c]) = due[c][1]
  BY <1>1
<1>3. Head(due[c]).hash \in history
  BY <1>2 DEF ConnSound, DueSound
<1>4. TrailTyped' /\ AnchorSound'
  BY <1>1, <1>2, <1>3 DEF TrailTyped, AnchorSound
<1>5. ConnsTyped' /\ OthersStay(c)
  BY <1>1, <1>2 DEF ConnsTyped, OthersStay
<1>6. ASSUME db' = db PROVE ConnSound(c)'
  <2>1. LeaseSound(c)'
    BY <1>1 DEF ConnSound, LeaseSound, fileVars
  <2>2. DueSound(c)'
    <3>1. due'[c] = Tail(due[c])
      BY <1>1 DEF ConnsTyped
    <3> QED BY <1>1, <1>2, <3>1 DEF ConnSound, DueSound
  <2>3. WorkSound(c)'
    BY <1>1, <1>6 DEF ConnSound, WorkSound, InTransaction, Hashes, Balanced
  <2> QED BY <2>1, <2>2, <2>3 DEF ConnSound
<1> QED BY <1>1, <1>4, <1>5, <1>6, InPlace

LEMMA ReadKeyKeeps ==
    ASSUME StorageInv, NEW c \in Conns, ReadKey(c), Alongside
    PROVE  StorageInv'
<1> USE ConnFacts
<1>1. PICK k \in KeyIds : /\ db.keys[k] = "active"
                          /\ key' = [key EXCEPT ![c] = k]
                          /\ seen' = [seen EXCEPT ![c] = db.keys[k]]
  BY DEF ReadKey
<1>2. /\ state[c] = "idle" /\ state' = [state EXCEPT ![c] = "touching"]
      /\ UNCHANGED <<fileVars, inode, work, scope, due, writer, anchored, history, damaged>>
  BY DEF ReadKey, May
<1>3. ConnsTyped' /\ OthersStay(c)
  BY <1>1, <1>2 DEF ConnsTyped, OthersStay, ConnSteps, KeyStatus
<1>4. TrailTyped' /\ AnchorSound'
  BY <1>2 DEF TrailTyped, AnchorSound
<1>5. ConnSound(c)'
  <2>1. state'[c] = "touching"
    BY <1>2 DEF ConnsTyped
  <2> QED BY <1>2, <2>1 DEF ConnSound, LeaseSound, WorkSound, DueSound, InTransaction, fileVars
<1> QED BY <1>2, <1>3, <1>4, <1>5, InPlace

-----------------------------------------------------------------------------
(***************************************************************************)
(* Commits.                                                                *)
(***************************************************************************)
LEMMA HistoryGrows ==
    ASSUME StorageInv, NEW content \in Content, history' = history \cup Hashes(content),
           UNCHANGED <<anchored, damaged>>
    PROVE  TrailTyped' /\ AnchorSound' /\ history \subseteq history'
<1>1. IsFiniteSet(history) /\ history \subseteq Hash /\ anchored \subseteq HeadRecord
      /\ damaged \in BOOLEAN /\ AnchorSound
  BY DEF StorageInv, StorageTyped, TrailTyped
<1>2. IsFiniteSet(history') /\ history' \subseteq Hash
  BY <1>1, HashesAreFinite, FS_Union
<1> QED BY <1>1, <1>2 DEF TrailTyped, AnchorSound

LEMMA WriteKeeps ==
    ASSUME StorageInv, NEW c \in Conns, Write(c), Alongside
    PROVE  StorageInv'
<1> USE ConnFacts
<1> DEFINE content == WithRow(db, "decision")
           news == Announcement(LastRow(content))
<1>1. /\ content \in Content /\ content.operations = db.operations
      /\ news \in Seq(HeadRecord) /\ Len(news) = 1 /\ news[1].hash \in Hashes(content)
  BY WithRowTyped
<1>2. ~damaged => Balanced(content)
  BY <1>1, WithRowCounted, ControlRowsAreCounted DEF Balanced, Content
<1>3. /\ state[c] = "idle" /\ writer = None
      /\ wal' = [of |-> main.id, content |-> content] /\ history' = history \cup Hashes(content)
      /\ due' = [due EXCEPT ![c] = news]
      /\ UNCHANGED <<main, lease, inode, state, work, scope, key, seen, writer, anchored, damaged>>
  BY DEF Write, MayBegin, May, CommitContent, Log, connVarsButDue
<1> HIDE DEF content, news
<1>4. TrailTyped' /\ AnchorSound' /\ history \subseteq history'
  BY <1>1, <1>3, HistoryGrows
<1>5. ConnsTyped' /\ OthersStay(c)
  BY <1>1, <1>3 DEF ConnsTyped, OthersStay
<1>6. ConnSound(c)'
  <2>1. due'[c] = news /\ state'[c] = "idle"
    BY <1>3 DEF ConnsTyped
  <2>2. DueSound(c)'
    <3>1. Len(due'[c]) = 1
      BY <1>1, <2>1
    <3>2. \A i \in 1..Len(due'[c]) : i = 1
      BY ONLY <3>1
    <3> QED BY <1>1, <1>3, <2>1, <3>2 DEF DueSound
  <2>3. LeaseSound(c)' /\ WorkSound(c)'
    BY <1>3, <2>1 DEF ConnSound, LeaseSound, WorkSound, InTransaction
  <2> QED BY <2>2, <2>3 DEF ConnSound
<1> QED BY <1>1, <1>2, <1>3, <1>4, <1>5, <1>6, Commits

LEMMA ReleaseSavepointKeeps ==
    ASSUME StorageInv, NEW c \in Conns, ReleaseSavepoint(c), Alongside
    PROVE  StorageInv'
<1> USE ConnFacts
<1> DEFINE content == WithRow(db, "decision")
           news == Announcement(LastRow(content))
<1>1. /\ content \in Content /\ content.operations = db.operations
      /\ news \in Seq(HeadRecord) /\ Len(news) = 1 /\ news[1].hash \in Hashes(content)
  BY WithRowTyped
<1>2. ~damaged => Balanced(content)
  BY <1>1, WithRowCounted, ControlRowsAreCounted DEF Balanced, Content
<1>3. /\ state[c] = "snapshot" /\ writer = None
      /\ wal' = [of |-> main.id, content |-> content] /\ history' = history \cup Hashes(content)
      /\ due' = [due EXCEPT ![c] = news]
      /\ EndTransaction(c)
      /\ UNCHANGED <<main, lease, anchored, damaged>>
  BY DEF ReleaseSavepoint, SnapshotIsCurrent, CommitContent, Log
<1> HIDE DEF content, news
<1>4. TrailTyped' /\ AnchorSound' /\ history \subseteq history'
  BY <1>1, <1>3, HistoryGrows
<1>5. due' \in [Conns -> Seq(HeadRecord)] /\ (\A d \in Conns \ {c} : due'[d] = due[d]) /\ due'[c] = news
  BY <1>1, <1>3 DEF ConnsTyped
<1>6. /\ ConnsTyped' /\ OthersStay(c) /\ state'[c] = "idle" /\ inode'[c] = inode[c] /\ WorkSound(c)'
  BY <1>3, <1>5, Ended
<1>7. ConnSound(c)'
  <2>1. DueSound(c)'
    <3>1. Len(due'[c]) = 1
      BY <1>1, <1>5
    <3>2. \A i \in 1..Len(due'[c]) : i = 1
      BY ONLY <3>1
    <3> QED BY <1>1, <1>3, <1>5, <1>6, <3>2 DEF DueSound
  <2>2. LeaseSound(c)'
    BY <1>3, <1>6 DEF ConnSound, LeaseSound
  <2> QED BY <1>6, <2>1, <2>2 DEF ConnSound
<1> QED BY <1>1, <1>2, <1>3, <1>4, <1>6, <1>7, Commits

LEMMA CommitControlKeeps ==
    ASSUME StorageInv, NEW c \in Conns, CommitControl(c), Alongside
    PROVE  StorageInv'
<1> USE ConnFacts
<1>1. /\ state[c] = "written"
      /\ wal' = [of |-> main.id, content |-> work[c]] /\ history' = history \cup Hashes(work[c])
      /\ due' = [due EXCEPT ![c] = scope[c].held]
      /\ EndTransaction(c)
      /\ UNCHANGED <<main, lease, anchored, damaged>>
  BY DEF CommitControl, Committable, CommitContent, Log
<1>2. /\ work[c] \in Content /\ writer = c /\ (~damaged => Balanced(work[c]))
      /\ \A i \in 1..Len(scope[c].held) : scope[c].held[i].hash \in Hashes(work[c])
  BY <1>1 DEF ConnSound, WorkSound, InTransaction
<1>3. TrailTyped' /\ AnchorSound' /\ history \subseteq history'
  BY <1>1, <1>2, HistoryGrows
<1>4. /\ due' \in [Conns -> Seq(HeadRecord)] /\ (\A d \in Conns \ {c} : due'[d] = due[d])
      /\ due'[c] = scope[c].held
  BY <1>1 DEF ConnsTyped
<1>5. /\ ConnsTyped' /\ OthersStay(c) /\ state'[c] = "idle" /\ inode'[c] = inode[c] /\ WorkSound(c)'
  BY <1>1, <1>4, Ended
<1>6. ConnSound(c)'
  BY <1>1, <1>2, <1>4, <1>5 DEF ConnSound, LeaseSound, DueSound
<1> QED BY <1>1, <1>2, <1>3, <1>5, <1>6, Commits

LEMMA TouchKeyKeeps ==
    ASSUME StorageInv, NEW c \in Conns, TouchKey(c), Alongside
    PROVE  StorageInv'
<1> USE ConnFacts
<1>1. /\ state[c] = "touching" /\ writer = None
      /\ wal' = [of |-> main.id, content |-> db]
      /\ EndTransaction(c)
      /\ UNCHANGED <<main, lease, due, anchored, history, damaged>>
  BY DEF TouchKey, Touched, Log
<1>2. TrailTyped' /\ AnchorSound'
  BY <1>1 DEF TrailTyped, AnchorSound
<1>3. due' \in [Conns -> Seq(HeadRecord)]
  BY <1>1 DEF ConnsTyped
<1>4. /\ ConnsTyped' /\ OthersStay(c) /\ state'[c] = "idle" /\ inode'[c] = inode[c] /\ WorkSound(c)'
  BY <1>1, <1>3, Ended
<1>5. ConnSound(c)'
  BY <1>1, <1>4 DEF ConnSound, LeaseSound, DueSound
<1> QED BY <1>1, <1>2, <1>4, <1>5, Commits

(***************************************************************************)
(* Opening, leaving and the start of a service.                            *)
(***************************************************************************)
LEMMA OpenKeeps ==
    ASSUME StorageInv, NEW c \in Conns, Open(c), Alongside
    PROVE  StorageInv'
<1> USE ConnFacts
<1>1. PICK step \in {"seeding", "idle"} : state' = [state EXCEPT ![c] = step]
  BY DEF Open
<1>2. /\ state[c] = "closed" /\ Exclusive \notin lease /\ lease' = lease \cup {c}
      /\ inode' = [inode EXCEPT ![c] = main.id]
      /\ UNCHANGED <<main, wal, work, scope, due, key, seen, writer, anchored, history, damaged>>
  BY DEF Open
<1>3. UNCHANGED <<synced, op, built, snapshot, ops, faults>>
  BY <1>2 DEF Alongside
<1>4. LogsBelong' /\ db' = db
  BY <1>2, <1>3, FilesStay DEF StorageInv
<1>5. main.id \in Nat
  BY DEF StorageInv, StorageTyped, FilesTyped, MainFile
<1>6. FilesTyped' /\ OpTyped' /\ FilesBalance'
  BY <1>2, <1>3 DEF StorageInv, StorageTyped, FilesTyped, OpTyped, FilesBalance, Balanced
<1>7. TrailTyped' /\ AnchorSound'
  BY <1>2 DEF TrailTyped, AnchorSound
<1>8. ConnsTyped' /\ OthersStay(c)
  BY <1>1, <1>2, <1>5 DEF ConnsTyped, OthersStay, ConnSteps
<1>9. ConnSound(c)'
  <2>1. state'[c] = step /\ inode'[c] = main.id
    BY <1>1, <1>2 DEF ConnsTyped
  <2> QED BY <1>2, <2>1 DEF ConnSound, LeaseSound, WorkSound, DueSound, InTransaction
<1> QED BY <1>2, <1>4, <1>6, <1>7, <1>8, <1>9, OneConnection

LEMMA LeaveKeeps ==
    ASSUME StorageInv, NEW c \in Conns, Leave(c), state[c] # "closed", due[c] = <<>>, Alongside,
           UNCHANGED <<work, scope, due, key, seen, writer, anchored, history, damaged>>
    PROVE  StorageInv' /\ db' = db
<1> USE ConnFacts
<1>1. /\ state' = [state EXCEPT ![c] = "closed"] /\ inode' = [inode EXCEPT ![c] = 0]
      /\ lease' = lease \ {c}
  BY DEF Leave
<1>2. LeaseSound(c) /\ c \in lease /\ Exclusive \notin lease /\ op.step \notin Replacing
  BY OpenKeepsFiles DEF StorageInv, ConnSound
<1>3. main \in MainFile /\ main.id \in Nat \ {0} /\ main = [id |-> main.id, content |-> main.content]
  BY DEF StorageInv, StorageTyped, FilesTyped, MainFile
<1>4. /\ FilesTyped' /\ OpTyped' /\ LogsBelong' /\ FilesBalance' /\ db' = db /\ main'.id = main.id
  <2>1. CASE UNCHANGED <<main, wal>>
    <3>1. UNCHANGED <<synced, op, built, snapshot, ops, faults>>
      BY <2>1 DEF Alongside
    <3>2. LogsBelong' /\ db' = db
      BY <2>1, <3>1, FilesStay DEF StorageInv
    <3>3. FilesTyped' /\ OpTyped' /\ FilesBalance'
      BY <1>1, <2>1, <3>1 DEF StorageInv, StorageTyped, FilesTyped, OpTyped, FilesBalance, Balanced
    <3> QED BY <2>1, <3>2, <3>3
  <2>2. CASE wal # NoLog /\ main' = [main EXCEPT !.content = db] /\ wal' = NoLog
    <3>1. main' \in MainFile /\ main'.id = main.id /\ main'.content = db
      BY <1>3, <2>2 DEF MainFile
    <3>2. synced' = [main |-> main', wal |-> NoLog] /\ UNCHANGED <<op, built, snapshot, ops, faults>>
      BY <2>2 DEF Alongside
    <3>3. db' = db
      BY <2>2, <3>1 DEF db
    <3>4. FilesTyped' /\ OpTyped'
      BY <1>1, <2>2, <3>1, <3>2 DEF StorageInv, StorageTyped, FilesTyped, OpTyped
    <3>5. LogsBelong'
      BY <1>2, <2>2, <3>2 DEF StorageInv, LogsBelong, Replacing
    <3>6. FilesBalance'
      BY <2>2, <3>1, <3>2 DEF StorageInv, FilesBalance, Balanced
    <3> QED BY <3>1, <3>3, <3>4, <3>5, <3>6
  <2> QED BY <2>1, <2>2 DEF Leave
<1>5. TrailTyped' /\ AnchorSound'
  BY DEF TrailTyped, AnchorSound
<1>6. ConnsTyped' /\ OthersStay(c)
  BY <1>1 DEF ConnsTyped, OthersStay, ConnSteps
<1>7. ConnSound(c)'
  <2>1. state'[c] = "closed" /\ c \notin lease'
    BY <1>1 DEF ConnsTyped
  <2> QED BY <2>1 DEF ConnSound, LeaseSound, WorkSound, DueSound, InTransaction
<1> QED BY <1>1, <1>2, <1>4, <1>5, <1>6, <1>7, OneConnection

LEMMA CloseKeeps ==
    ASSUME StorageInv, NEW c \in Conns, Close(c), Alongside
    PROVE  StorageInv'
BY LeaveKeeps DEF Close

\* A service goes on from its look at the seeded key.
LEMMA SeedingGoesOn ==
    ASSUME StorageInv, NEW c \in Conns, Alongside, state[c] # "closed", due[c] = <<>>,
           NEW step \in {"idle", "creating"}, state' = [state EXCEPT ![c] = step],
           UNCHANGED <<fileVars, inode, work, scope, due, key, seen, writer, anchored, history, damaged>>
    PROVE  StorageInv'
<1> USE ConnFacts
<1>1. ConnsTyped' /\ OthersStay(c)
  BY DEF ConnsTyped, OthersStay, ConnSteps
<1>2. TrailTyped' /\ AnchorSound'
  BY DEF TrailTyped, AnchorSound
<1>3. ConnSound(c)'
  <2>1. state'[c] = step
    BY DEF ConnsTyped
  <2> QED BY <2>1 DEF ConnSound, LeaseSound, WorkSound, DueSound, InTransaction, fileVars
<1> QED BY <1>1, <1>2, <1>3, InPlace

LEMMA ReadSeededKeyKeeps ==
    ASSUME StorageInv, NEW c \in Conns, ReadSeededKey(c), Alongside
    PROVE  StorageInv'
<1>1. /\ state[c] # "closed" /\ due[c] = <<>>
      /\ UNCHANGED <<work, scope, due, key, seen, writer, anchored, history, damaged>>
  BY ConnFacts DEF ReadSeededKey, ConnSound, DueSound
<1>2. CASE Leave(c)
  BY <1>1, <1>2, LeaveKeeps
<1>3. CASE /\ UNCHANGED <<fileVars, inode>>
           /\ \E step \in {"idle", "creating"} : state' = [state EXCEPT ![c] = step]
  BY <1>1, <1>3, SeedingGoesOn
<1> QED BY <1>2, <1>3 DEF ReadSeededKey

LEMMA CreateSeededKeyKeeps ==
    ASSUME StorageInv, NEW c \in Conns, CreateSeededKey(c), Alongside
    PROVE  StorageInv'
<1> USE ConnFacts
<1>1. /\ state[c] = "creating" /\ writer = None /\ due[c] = <<>>
      /\ UNCHANGED <<work, scope, due, key, seen, writer, anchored, history, damaged>>
  BY DEF CreateSeededKey, ConnSound, DueSound
<1>2. CASE Leave(c)
  BY <1>1, <1>2, LeaveKeeps
<1>3. CASE /\ wal' = [of |-> main.id, content |-> [db EXCEPT !.keys = Seeds(@)]]
           /\ state' = [state EXCEPT ![c] = "idle"]
           /\ UNCHANGED <<main, lease, inode>>
  <2> DEFINE content == [db EXCEPT !.keys = Seeds(@)]
  <2>1. content \in Content /\ content.rows = db.rows /\ content.operations = db.operations
    BY DEF Content, Seeds, KeyStatus
  <2> HIDE DEF content
  <2>2. ~damaged => Balanced(content)
    BY <2>1 DEF Balanced
  <2>3. ConnsTyped' /\ OthersStay(c)
    BY <1>1, <1>3 DEF ConnsTyped, OthersStay, ConnSteps
  <2>4. TrailTyped' /\ AnchorSound'
    BY <1>1 DEF TrailTyped, AnchorSound
  <2>5. ConnSound(c)'
    <3>1. state'[c] = "idle"
      BY <1>3 DEF ConnsTyped
    <3> QED BY <1>1, <1>3, <3>1 DEF ConnSound, LeaseSound, WorkSound, DueSound, InTransaction
  <2> QED BY <1>1, <1>3, <2>1, <2>2, <2>3, <2>4, <2>5, Commits DEF content
<1> QED BY <1>2, <1>3 DEF CreateSeededKey

-----------------------------------------------------------------------------
(***************************************************************************)
(* Steps of a storage operation, of the command that runs it, and the end  *)
(* of processes.                                                           *)
(***************************************************************************)
\* The connections are not touched, and the database only while none is open.
LEMMA Apart ==
    ASSUME StorageInv, Elsewhere, lease' \ {Exclusive} = lease \ {Exclusive},
           (db' = db /\ main'.id = main.id) \/ lease \subseteq {Exclusive}
    PROVE  /\ ConnsTyped' /\ TrailTyped' /\ AnchorSound'
           /\ \A c \in Conns : ConnSound(c)'
<1>1. ConnsTyped' /\ TrailTyped' /\ AnchorSound'
  BY DEF StorageInv, StorageTyped, ConnsTyped, TrailTyped, AnchorSound, Elsewhere, connVars
<1>2. ASSUME NEW c \in Conns PROVE ConnSound(c)'
  <2>1. /\ ConnSound(c) /\ c # Exclusive
        /\ UNCHANGED <<inode, state, work, scope, due, key, seen, writer, history, damaged>>
    BY TrailAssumption DEF StorageInv, Elsewhere, connVars
  <2>2. LeaseSound(c)'
    BY <2>1 DEF ConnSound, LeaseSound
  <2>3. DueSound(c)'
    BY <2>1 DEF ConnSound, DueSound
  <2>4. WorkSound(c)'
    <3>1. state[c] # "closed" => db' = db
      BY <2>1 DEF ConnSound, LeaseSound
    <3>2. Hashes(work[c])' = Hashes(work[c]) /\ Balanced(work[c])' = Balanced(work[c])
      BY <2>1 DEF Hashes, Balanced
    <3>3. InTransaction(c)' <=> InTransaction(c)
      BY <2>1 DEF InTransaction
    <3>4. InTransaction(c) => state[c] # "closed"
      BY DEF InTransaction
    <3> QED BY <2>1, <3>1, <3>2, <3>3, <3>4 DEF ConnSound, WorkSound
  <2> QED BY <2>2, <2>3, <2>4 DEF ConnSound
<1> QED BY <1>1, <1>2

\* A step of an operation that leaves the files and their lease alone.
LEMMA OpApart ==
    ASSUME StorageInv, Elsewhere, UNCHANGED <<main, wal, synced>>,
           OpTyped', LeaseHolds', lease' \ {Exclusive} = lease \ {Exclusive},
           lease' \subseteq Conns \cup {Exclusive},
           op'.step \in {"lease", "neutralize", "sync", "swap"} => built' \in Content,
           op'.step \notin {"sync", "swap", "syncswap"},
           ~damaged => (snapshot' \in Content => Balanced(snapshot')) /\ (built' \in Content => Balanced(built'))
    PROVE  StorageInv'
<1>1. db' = db
  BY DEF db
<1>2. /\ ConnsTyped' /\ TrailTyped' /\ AnchorSound' /\ \A c \in Conns : ConnSound(c)'
  BY <1>1, Apart
<1>3. FilesTyped'
  BY DEF StorageInv, StorageTyped, FilesTyped
<1>4. LogsBelong'
  BY <1>1 DEF StorageInv, LogsBelong
<1>5. FilesBalance'
  BY DEF StorageInv, FilesBalance, Elsewhere, Balanced
<1> QED BY <1>2, <1>3, <1>4, <1>5 DEF StorageInv, StorageTyped

LEMMA OpFacts ==
    ASSUME StorageInv
    PROVE  /\ OpTyped /\ LeaseHolds /\ FilesTyped /\ LogsBelong /\ FilesBalance
           /\ op = [kind |-> op.kind, step |-> op.step] /\ op.step \in OpSteps
           /\ db \in Content /\ db # Corrupt
           /\ ~damaged => Balanced(db)
           /\ Idling \in [kind : Kinds \cup {None}, step : OpSteps] /\ Idling.step = None
           /\ lease \subseteq Conns \cup {Exclusive} /\ Exclusive \notin Conns
<1>1. db \in Content /\ db # Corrupt /\ (wal = NoLog => db = main.content)
      /\ (wal # NoLog => db = wal.content)
  BY DatabaseTyped DEF StorageInv, StorageTyped
<1>2. ~damaged => Balanced(db)
  BY <1>1 DEF StorageInv, FilesBalance
<1>3. Idling \in [kind : Kinds \cup {None}, step : OpSteps] /\ Idling.step = None
  BY DEF Idling, OpSteps
<1>4. OpTyped /\ op = [kind |-> op.kind, step |-> op.step] /\ op.step \in OpSteps
  BY DEF StorageInv, StorageTyped, OpTyped
<1> QED BY <1>1, <1>2, <1>3, <1>4, TrailAssumption DEF StorageInv, StorageTyped, FilesTyped

LEMMA GotoTyped ==
    ASSUME StorageInv, NEW step \in OpSteps, Goto(step)
    PROVE  op' \in [kind : Kinds \cup {None}, step : OpSteps] /\ op'.step = step
BY OpFacts DEF Goto, OpTyped

\* A connection without a lease closes, while nothing is being replaced.
LEMMA UnleasedCloseKeeps ==
    ASSUME StorageInv, Elsewhere, UnleasedConnectionCloses, UNCHANGED <<lease, faults>>,
           Exclusive \notin lease, op' \in [kind : Kinds \cup {None}, step : OpSteps],
           op'.step \in {"start", None}, ops' \in Nat,
           built' \in Content \cup {NoContent}, snapshot' \in Content \cup {NoContent, Partial},
           ~damaged => (snapshot' \in Content => Balanced(snapshot')) /\ (built' \in Content => Balanced(built'))
    PROVE  StorageInv'
<1> USE OpFacts
<1>1. LeaseHolds'
  BY DEF LeaseHolds, Replacing, None
<1>2. CASE UNCHANGED <<main, wal, synced>>
  <2>1. OpTyped'
    BY <1>2 DEF OpTyped
  <2> QED BY <1>1, <1>2, <2>1, OpApart DEF None
<1>3. CASE /\ lease = {} /\ wal # NoLog /\ main' = Checkpointed /\ wal' = NoLog
           /\ synced' = [synced EXCEPT !.main = Checkpointed]
  <2>1. main \in MainFile /\ main.id \in Nat \ {0}
    BY DEF FilesTyped, MainFile
  <2>2. main' \in MainFile /\ main'.id = main.id /\ main'.content = db
    BY <1>3, <2>1 DEF Checkpointed, MainFile
  <2>3. /\ synced' \in [main : MainFile, wal : LogFile \cup {NoLog}]
        /\ synced'.main = main' /\ synced'.wal = synced.wal
    BY <1>3, <2>2 DEF OpTyped
  <2>4. db' = db
    BY <1>3, <2>2 DEF db
  <2>5. FilesTyped' /\ OpTyped'
    BY <1>3, <2>2, <2>3 DEF FilesTyped, OpTyped
  <2>6. LogsBelong'
    <3>1. synced.wal # NoLog => synced.wal.of = main.id /\ synced.wal.content.keys = db.keys
      BY DEF LogsBelong
    <3> QED BY <1>3, <2>2, <2>3, <2>4, <3>1 DEF LogsBelong, None
  <2>7. FilesBalance'
    BY <1>3, <2>2, <2>3 DEF FilesBalance, Balanced, Elsewhere
  <2>8. /\ ConnsTyped' /\ TrailTyped' /\ AnchorSound' /\ \A c \in Conns : ConnSound(c)'
    BY <1>3, <2>4, Apart
  <2> QED BY <1>1, <2>5, <2>6, <2>7, <2>8 DEF StorageInv, StorageTyped
<1> QED BY <1>2, <1>3 DEF UnleasedConnectionCloses, Files

LEMMA TraceKeeps ==
    ASSUME StorageInv, Trace, UNCHANGED faults
    PROVE  StorageInv'
<1> USE OpFacts
<1>1. PICK k \in Kinds : op' = [kind |-> k, step |-> "start"]
  BY DEF Trace
<1>2. /\ op = Idling /\ ops' = ops + 1 /\ Elsewhere /\ UnleasedConnectionCloses
      /\ UNCHANGED <<lease, built, snapshot>>
  BY DEF Trace
<1>3. Exclusive \notin lease
  BY <1>2 DEF LeaseHolds, Replacing, None
<1>4. /\ op' \in [kind : Kinds \cup {None}, step : OpSteps] /\ op'.step = "start" /\ ops' \in Nat
      /\ built' \in Content \cup {NoContent} /\ snapshot' \in Content \cup {NoContent, Partial}
  BY <1>1, <1>2 DEF OpTyped, OpSteps
<1>5. ~damaged => (snapshot' \in Content => Balanced(snapshot')) /\ (built' \in Content => Balanced(built'))
  BY <1>2 DEF FilesBalance, Balanced
<1> QED BY <1>2, <1>3, <1>4, <1>5, UnleasedCloseKeeps

LEMMA RemoveOldBackupKeeps ==
    ASSUME StorageInv, RemoveOldBackup, UNCHANGED faults
    PROVE  StorageInv'
<1> USE OpFacts
<1>1. /\ op.step = "start" /\ snapshot' = Partial /\ Goto("copy") /\ Elsewhere
      /\ UNCHANGED <<main, wal, lease, built, synced, ops>>
  BY DEF RemoveOldBackup, At, fileVars
<1>2. op' \in [kind : Kinds \cup {None}, step : OpSteps] /\ op'.step = "copy"
  BY <1>1, GotoTyped DEF OpSteps
<1>3. OpTyped'
  BY <1>1, <1>2 DEF OpTyped
<1>4. LeaseHolds'
  BY <1>1, <1>2 DEF LeaseHolds, Replacing
<1>5. ~damaged => (snapshot' \in Content => Balanced(snapshot')) /\ (built' \in Content => Balanced(built'))
  BY <1>1, MarksAreNoContent DEF FilesBalance, Balanced
<1> QED BY <1>1, <1>2, <1>3, <1>4, <1>5, OpApart

\* An operation ends, or its command does: its lease goes with it.
LEMMA QuitKeeps ==
    ASSUME StorageInv, Quit, Elsewhere, UNCHANGED <<main, wal, synced, ops, faults>>,
           snapshot' \in Content \cup {NoContent, Partial},
           ~damaged => (snapshot' \in Content => Balanced(snapshot'))
    PROVE  StorageInv'
<1> USE OpFacts
<1>1. op' = Idling /\ op'.step = None /\ built' = NoContent /\ lease' = lease \ {Exclusive}
  BY DEF Quit
<1>2. OpTyped'
  BY <1>1 DEF OpTyped
<1>3. LeaseHolds'
  BY <1>1 DEF LeaseHolds, Replacing, None
<1> QED BY <1>1, <1>2, <1>3, MarksAreNoContent, OpApart DEF None

LEMMA CopyToBackupKeeps ==
    ASSUME StorageInv, CopyToBackup, UNCHANGED faults
    PROVE  StorageInv'
<1> USE OpFacts
<1>1. /\ snapshot' = db /\ Quit /\ Elsewhere /\ UnleasedConnectionCloses /\ UNCHANGED ops
      /\ op.step = "copy"
  BY DEF CopyToBackup, At
<1>2. Exclusive \notin lease
  BY <1>1 DEF LeaseHolds, Replacing
<1>3. /\ op' = Idling /\ built' = NoContent /\ lease' = lease /\ ops' \in Nat
  BY <1>1, <1>2 DEF Quit, OpTyped
<1>4. ~damaged => (snapshot' \in Content => Balanced(snapshot')) /\ (built' \in Content => Balanced(built'))
  BY <1>1, <1>3, MarksAreNoContent DEF Balanced
<1> QED BY <1>1, <1>2, <1>3, <1>4, UnleasedCloseKeeps

LEMMA FailKeeps ==
    ASSUME StorageInv, Fail, UNCHANGED faults
    PROVE  StorageInv'
<1> USE OpFacts
<1>1. /\ snapshot' = snapshot /\ Quit /\ Elsewhere /\ UNCHANGED <<main, wal, synced, ops>>
  BY DEF Fail
<1>2. /\ snapshot' \in Content \cup {NoContent, Partial}
      /\ ~damaged => (snapshot' \in Content => Balanced(snapshot'))
  BY <1>1 DEF FilesBalance, Balanced, OpTyped
<1> QED BY <1>1, <1>2, QuitKeeps

LEMMA CommandDiesKeeps ==
    ASSUME StorageInv, CommandDies, UNCHANGED faults
    PROVE  StorageInv'
<1> USE OpFacts
<1>1. /\ snapshot' = snapshot /\ Quit /\ Elsewhere /\ UNCHANGED <<main, wal, synced, ops>>
  BY DEF CommandDies
<1>2. /\ snapshot' \in Content \cup {NoContent, Partial}
      /\ ~damaged => (snapshot' \in Content => Balanced(snapshot'))
  BY <1>1 DEF FilesBalance, Balanced, OpTyped
<1> QED BY <1>1, <1>2, QuitKeeps

LEMMA BuildKeeps ==
    ASSUME StorageInv, Build, UNCHANGED faults
    PROVE  StorageInv'
<1> USE OpFacts
<1>1. /\ op.step = "start" /\ Goto("lease") /\ Elsewhere
      /\ UNCHANGED <<main, wal, lease, snapshot, synced, ops>>
  BY DEF Build, At, fileVars
<1>2. op' \in [kind : Kinds \cup {None}, step : OpSteps] /\ op'.step = "lease"
  BY <1>1, GotoTyped DEF OpSteps
<1>3. built' \in Content /\ (~damaged => Balanced(built'))
  <2>1. CASE built' = Empty
    <3>1. Empty \in Content /\ ControlRows(Empty.rows) = {} /\ Empty.operations = 0
      BY MarksAreNoContent DEF ControlRows
    <3> QED BY <2>1, <3>1, FS_EmptySet DEF Balanced
  <2>2. CASE Restorable /\ built' = snapshot
    BY <2>2 DEF Restorable, OpTyped, FilesBalance, Balanced
  <2> QED BY <2>1, <2>2 DEF Build
<1>4. OpTyped'
  BY <1>1, <1>2, <1>3 DEF OpTyped
<1>5. LeaseHolds'
  BY <1>1, <1>2 DEF LeaseHolds, Replacing
<1>6. ~damaged => (snapshot' \in Content => Balanced(snapshot')) /\ (built' \in Content => Balanced(built'))
  BY <1>1, <1>3 DEF FilesBalance, Balanced
<1> QED BY <1>1, <1>2, <1>3, <1>4, <1>5, <1>6, OpApart

LEMMA TakeLeaseKeeps ==
    ASSUME StorageInv, TakeLease, UNCHANGED faults
    PROVE  StorageInv'
<1> USE OpFacts
<1>1. /\ op.step = "lease" /\ lease = {} /\ lease' = {Exclusive} /\ Goto("neutralize") /\ Elsewhere
      /\ UNCHANGED <<main, wal, built, snapshot, synced, ops>>
  BY DEF TakeLease, LeaseIsFree, At
<1>2. op' \in [kind : Kinds \cup {None}, step : OpSteps] /\ op'.step = "neutralize"
  BY <1>1, GotoTyped DEF OpSteps
<1>3. built' \in Content
  BY <1>1 DEF LogsBelong
<1>4. OpTyped'
  BY <1>1, <1>2 DEF OpTyped
<1>5. LeaseHolds'
  BY <1>1, <1>2 DEF LeaseHolds, Replacing
<1>6. ~damaged => (snapshot' \in Content => Balanced(snapshot')) /\ (built' \in Content => Balanced(built'))
  BY <1>1 DEF FilesBalance, Balanced
<1> QED BY <1>1, <1>2, <1>3, <1>4, <1>5, <1>6, OpApart

(***************************************************************************)
(* The replacement of the file.  Nobody has it open.                       *)
(***************************************************************************)
LEMMA NeutralizeKeeps ==
    ASSUME StorageInv, Neutralize, UNCHANGED faults
    PROVE  StorageInv'
<1> USE OpFacts
<1>1. /\ op.step = "neutralize" /\ main' = Checkpointed /\ wal' = NoLog
      /\ synced' = [synced EXCEPT !.main = Checkpointed] /\ Goto("sync") /\ Elsewhere
      /\ UNCHANGED <<lease, built, snapshot, ops>>
  BY DEF Neutralize, Files, At
<1>2. lease = {Exclusive} /\ built \in Content
  BY <1>1 DEF LeaseHolds, LogsBelong, Replacing
<1>3. op' \in [kind : Kinds \cup {None}, step : OpSteps] /\ op'.step = "sync"
  BY <1>1, GotoTyped DEF OpSteps
<1>4. main \in MainFile /\ main.id \in Nat \ {0}
  BY DEF FilesTyped, MainFile
<1>5. main' \in MainFile /\ main'.id = main.id /\ main'.content = db
  BY <1>1, <1>4 DEF Checkpointed, MainFile
<1>6. /\ synced' \in [main : MainFile, wal : LogFile \cup {NoLog}]
      /\ synced'.main = main' /\ synced'.wal = synced.wal
  BY <1>1, <1>5 DEF OpTyped
<1>7. db' = db
  BY <1>1, <1>5 DEF db
<1>8. FilesTyped' /\ OpTyped' /\ LeaseHolds'
  BY <1>1, <1>2, <1>3, <1>5, <1>6 DEF FilesTyped, OpTyped, LeaseHolds, Replacing
<1>9. LogsBelong'
  <2>1. synced.wal # NoLog => synced.wal.of = main.id /\ synced.wal.content.keys = db.keys
    BY DEF LogsBelong
  <2> QED BY <1>1, <1>2, <1>3, <1>5, <1>6, <1>7, <2>1 DEF LogsBelong
<1>10. FilesBalance'
  BY <1>1, <1>5, <1>6 DEF FilesBalance, Balanced, Elsewhere
<1>11. /\ ConnsTyped' /\ TrailTyped' /\ AnchorSound' /\ \A c \in Conns : ConnSound(c)'
  BY <1>1, <1>2, Apart
<1> QED BY <1>8, <1>9, <1>10, <1>11 DEF StorageInv, StorageTyped

LEMMA SyncRemovalKeeps ==
    ASSUME StorageInv, SyncRemoval, UNCHANGED faults
    PROVE  StorageInv'
<1> USE OpFacts
<1>1. /\ op.step = "sync" /\ synced' = [main |-> main, wal |-> wal] /\ Goto("swap") /\ Elsewhere
      /\ UNCHANGED <<main, wal, lease, built, snapshot, ops>>
  BY DEF SyncRemoval, At, fileVars
<1>2. lease = {Exclusive} /\ built \in Content /\ wal = NoLog
  BY <1>1 DEF LeaseHolds, LogsBelong, Replacing
<1>3. op' \in [kind : Kinds \cup {None}, step : OpSteps] /\ op'.step = "swap"
  BY <1>1, GotoTyped DEF OpSteps
<1>4. synced'.main = main' /\ synced'.wal = NoLog
      /\ synced' \in [main : MainFile, wal : LogFile \cup {NoLog}]
  BY <1>1, <1>2 DEF FilesTyped
<1>5. FilesTyped' /\ OpTyped' /\ LeaseHolds'
  BY <1>1, <1>2, <1>3, <1>4 DEF FilesTyped, OpTyped, LeaseHolds, Replacing
<1>6. LogsBelong'
  BY <1>1, <1>2, <1>3, <1>4 DEF LogsBelong
<1>7. FilesBalance'
  BY <1>1, <1>4 DEF FilesBalance, Balanced, Elsewhere
<1>8. /\ ConnsTyped' /\ TrailTyped' /\ AnchorSound' /\ \A c \in Conns : ConnSound(c)'
  BY <1>1, <1>2, Apart
<1> QED BY <1>5, <1>6, <1>7, <1>8 DEF StorageInv, StorageTyped

LEMMA SwapKeeps ==
    ASSUME StorageInv, Swap, UNCHANGED faults
    PROVE  StorageInv'
<1> USE OpFacts
<1>1. /\ op.step = "swap" /\ main' = [id |-> main.id + 1, content |-> built] /\ wal' = wal
      /\ Goto("syncswap") /\ Elsewhere
      /\ UNCHANGED <<lease, built, snapshot, synced, ops>>
  BY DEF Swap, Files, At
<1>2. lease = {Exclusive} /\ built \in Content /\ wal = NoLog /\ synced.wal = NoLog /\ synced.main = main
  BY <1>1 DEF LeaseHolds, LogsBelong, Replacing
<1>3. op' \in [kind : Kinds \cup {None}, step : OpSteps] /\ op'.step = "syncswap"
  BY <1>1, GotoTyped DEF OpSteps
<1>4. main.id \in Nat \ {0}
  BY DEF FilesTyped, MainFile
<1>5. main' \in MainFile /\ main'.content = built /\ synced'.main.id # main'.id
  BY <1>1, <1>2, <1>4 DEF MainFile
<1>6. FilesTyped' /\ OpTyped' /\ LeaseHolds'
  BY <1>1, <1>2, <1>3, <1>5 DEF FilesTyped, OpTyped, LeaseHolds, Replacing
<1>7. LogsBelong'
  BY <1>1, <1>2, <1>3, <1>5 DEF LogsBelong
<1>8. FilesBalance'
  BY <1>1, <1>2, <1>5 DEF FilesBalance, Balanced, Elsewhere
<1>9. /\ ConnsTyped' /\ TrailTyped' /\ AnchorSound' /\ \A c \in Conns : ConnSound(c)'
  BY <1>1, <1>2, Apart
<1> QED BY <1>6, <1>7, <1>8, <1>9 DEF StorageInv, StorageTyped

LEMMA FinishSwapKeeps ==
    ASSUME StorageInv, FinishSwap, UNCHANGED faults
    PROVE  StorageInv'
<1> USE OpFacts
<1>1. /\ op.step = "syncswap" /\ synced' = [main |-> main, wal |-> wal] /\ Elsewhere
      /\ op' = Idling /\ built' = NoContent /\ lease' = lease \ {Exclusive}
      /\ UNCHANGED <<main, wal, snapshot, ops>>
  BY DEF FinishSwap, Quit, At
<1>2. lease = {Exclusive} /\ lease' = {} /\ wal = NoLog
  BY <1>1 DEF LeaseHolds, LogsBelong, Replacing
<1>3. synced'.main = main' /\ synced'.wal = NoLog
      /\ synced' \in [main : MainFile, wal : LogFile \cup {NoLog}]
  BY <1>1, <1>2 DEF FilesTyped
<1>4. FilesTyped' /\ OpTyped' /\ LeaseHolds'
  BY <1>1, <1>2, <1>3 DEF FilesTyped, OpTyped, LeaseHolds, Replacing, None
<1>5. LogsBelong'
  BY <1>1, <1>2, <1>3 DEF LogsBelong, None
<1>6. FilesBalance'
  BY <1>1, <1>3, MarksAreNoContent DEF FilesBalance, Balanced, Elsewhere
<1>7. /\ ConnsTyped' /\ TrailTyped' /\ AnchorSound' /\ \A c \in Conns : ConnSound(c)'
  BY <1>1, <1>2, Apart
<1> QED BY <1>4, <1>5, <1>6, <1>7 DEF StorageInv, StorageTyped

(***************************************************************************)
(* Processes die.                                                          *)
(***************************************************************************)
LEMMA DeadConnections ==
    ASSUME StorageInv, NEW procs, Dies(procs), procs \subseteq Conns \cup {Exclusive},
           (db' = db /\ main'.id = main.id) \/ Conns \subseteq procs
    PROVE  /\ ConnsTyped' /\ TrailTyped' /\ AnchorSound'
           /\ \A c \in Conns : ConnSound(c)'
<1>1. ConnsTyped /\ TrailTyped /\ AnchorSound /\ None \notin Conns
  BY TrailAssumption DEF StorageInv, StorageTyped
<1>2. NoScope \in [open : BOOLEAN, held : Seq(HeadRecord)]
  BY DEF NoScope
<1>3. ConnsTyped'
  <2>1. inode' \in [Conns -> Nat] /\ state' \in [Conns -> ConnSteps]
    BY <1>1 DEF Dies, ConnsTyped, ConnSteps
  <2>2. work' \in [Conns -> Content \cup {NoContent}] /\ due' \in [Conns -> Seq(HeadRecord)]
    BY <1>1 DEF Dies, ConnsTyped
  <2>3. scope' \in [Conns -> [open : BOOLEAN, held : Seq(HeadRecord)]]
    BY <1>1, <1>2 DEF Dies, ConnsTyped
  <2>4. key' \in [Conns -> KeyIds \cup {None}] /\ seen' \in [Conns -> KeyStatus]
    BY <1>1 DEF Dies, ConnsTyped, KeyStatus
  <2>5. writer' \in Conns \cup {None}
    BY <1>1 DEF Dies, ConnsTyped
  <2> QED BY <2>1, <2>2, <2>3, <2>4, <2>5 DEF ConnsTyped
<1>4. TrailTyped' /\ AnchorSound'
  BY <1>1 DEF Dies, TrailTyped, AnchorSound
<1>5. ASSUME NEW c \in Conns, c \in procs PROVE ConnSound(c)'
  <2>1. state'[c] = "closed" /\ due'[c] = <<>> /\ c \notin lease'
    BY <1>5 DEF Dies
  <2>2. LeaseSound(c)' /\ WorkSound(c)'
    BY <2>1 DEF LeaseSound, WorkSound, InTransaction
  <2>3. DueSound(c)'
    BY <2>1 DEF DueSound
  <2> QED BY <2>2, <2>3 DEF ConnSound
<1>6. ASSUME NEW c \in Conns, c \notin procs PROVE ConnSound(c)'
  <2>1. /\ ConnSound(c) /\ db' = db /\ main'.id = main.id /\ (c \in lease' <=> c \in lease)
        /\ inode'[c] = inode[c] /\ state'[c] = state[c] /\ work'[c] = work[c]
        /\ scope'[c] = scope[c] /\ due'[c] = due[c] /\ history' = history /\ damaged' = damaged
        /\ writer = c => writer' = c
    BY <1>1, <1>6 DEF StorageInv, Dies
  <2>2. LeaseSound(c)' /\ DueSound(c)'
    BY <2>1 DEF ConnSound, LeaseSound, DueSound
  <2>3. Hashes(work[c])' = Hashes(work[c]) /\ Balanced(work[c])' = Balanced(work[c])
    BY <2>1 DEF Hashes, Balanced
  <2>4. InTransaction(c)' <=> InTransaction(c)
    BY <2>1 DEF InTransaction
  <2>5. WorkSound(c)'
    BY <2>1, <2>3, <2>4 DEF ConnSound, WorkSound
  <2> QED BY <2>2, <2>5 DEF ConnSound
<1> QED BY <1>3, <1>4, <1>5, <1>6

LEMMA ProcessDiesKeeps ==
    ASSUME StorageInv, ProcessDies, UNCHANGED faults
    PROVE  StorageInv'
<1> USE OpFacts
<1>1. PICK procs : Dies(procs) /\ procs \subseteq Conns /\ UNCHANGED <<main, wal>>
  BY TrailAssumption DEF ProcessDies, Crash
<1>2. UNCHANGED <<op, built, snapshot, synced, ops>>
  BY DEF ProcessDies, opVars
<1>3. LogsBelong' /\ db' = db
  BY <1>1, <1>2, FilesStay
<1>4. /\ ConnsTyped' /\ TrailTyped' /\ AnchorSound' /\ \A c \in Conns : ConnSound(c)'
  BY <1>1, <1>3, DeadConnections
<1>5. lease' = lease \ procs /\ damaged' = damaged
  BY <1>1 DEF Dies
<1>6. FilesTyped' /\ OpTyped' /\ FilesBalance'
  BY <1>1, <1>2, <1>5 DEF FilesTyped, OpTyped, FilesBalance, Balanced
<1>7. LeaseHolds'
  BY <1>1, <1>2, <1>5 DEF LeaseHolds
<1> QED BY <1>3, <1>4, <1>6, <1>7 DEF StorageInv, StorageTyped

(***************************************************************************)
(* A power loss leaves one of the main files with one of the logs: a log   *)
(* that does not belong to it has been removed for good before the file is *)
(* replaced.                                                               *)
(***************************************************************************)
LEMMA PowerLossFinds ==
    ASSUME StorageInv, PowerLoss
    PROVE  /\ FilesTyped' /\ LogsBelong' /\ FilesBalance'
           /\ synced' \in [main : MainFile, wal : LogFile \cup {NoLog}]
           /\ main'.id = main.id => db'.keys = db.keys
<1> USE OpFacts
<1>1. PICK m \in {main, synced.main}, w \in {wal, synced.wal} :
        main' = m /\ wal' = w /\ synced' = [main |-> m, wal |-> w]
  BY DEF PowerLoss, Files
<1>2. /\ op' = Idling /\ built' = NoContent /\ snapshot' = snapshot
      /\ lease' = lease \ (Conns \cup {Exclusive}) /\ damaged' = damaged
  BY DEF PowerLoss, Dies
<1>3. m \in MainFile /\ w \in LogFile \cup {NoLog}
  BY DEF FilesTyped, OpTyped
<1>4. w # NoLog => w.of = m.id
  BY DEF LogsBelong
<1>5. main'.id = main.id => db'.keys = db.keys
  <2> SUFFICES ASSUME m.id = main.id PROVE db'.keys = db.keys
    BY <1>1
  <2>1. m = main
    BY DEF LogsBelong
  <2>2. CASE w = wal
    BY <1>1, <2>1, <2>2 DEF db
  <2>3. CASE w # wal
    <3>1. wal = NoLog /\ w = synced.wal /\ w # NoLog /\ synced.main = main
      BY <2>3 DEF LogsBelong
    <3>2. db' = w.content
      BY <1>1, <1>4, <2>1, <3>1 DEF db
    <3> QED BY <3>1, <3>2 DEF LogsBelong
  <2> QED BY <2>2, <2>3
<1>6. FilesTyped'
  BY <1>1, <1>2, <1>3 DEF FilesTyped
<1>7. LogsBelong'
  <2>1. op'.step = None
    BY <1>2
  <2>2. w # NoLog => db' = w.content
    BY <1>1, <1>4 DEF db
  <2> QED BY <1>1, <1>4, <2>1, <2>2 DEF LogsBelong, None
<1>8. FilesBalance'
  <2>1. ~damaged => Balanced(m.content) /\ (w # NoLog => Balanced(w.content))
    BY DEF FilesBalance
  <2> QED BY <1>1, <1>2, <2>1, MarksAreNoContent DEF FilesBalance, Balanced
<1> QED BY <1>1, <1>3, <1>5, <1>6, <1>7, <1>8

LEMMA PowerLossKeeps ==
    ASSUME StorageInv, PowerLoss, faults' = faults + 1
    PROVE  StorageInv'
<1> USE OpFacts
<1>1. /\ op' = Idling /\ built' = NoContent /\ snapshot' = snapshot /\ ops' = ops
      /\ Dies(Conns \cup {Exclusive})
  BY DEF PowerLoss
<1>2. lease' = {}
  BY <1>1 DEF Dies
<1>3. /\ FilesTyped' /\ LogsBelong' /\ FilesBalance'
      /\ synced' \in [main : MainFile, wal : LogFile \cup {NoLog}]
  BY PowerLossFinds
<1>4. OpTyped'
  BY <1>1, <1>3 DEF OpTyped
<1>5. LeaseHolds'
  BY <1>1, <1>2 DEF LeaseHolds, Replacing, None
<1>6. /\ ConnsTyped' /\ TrailTyped' /\ AnchorSound' /\ \A c \in Conns : ConnSound(c)'
  BY <1>1, DeadConnections
<1> QED BY <1>3, <1>4, <1>5, <1>6 DEF StorageInv, StorageTyped

(***************************************************************************)
(* Rows changed behind the writers' back are still rows: the books are off *)
(* from then on, nothing else is.                                          *)
(***************************************************************************)
LEMMA AlteredTyped ==
    ASSUME NEW rows \in Seq(Row), NEW i \in 1..Len(rows)
    PROVE  Altered(rows, i) \subseteq Seq(Row)
<1> DEFINE other == <<"altered", i>>
           row == rows[i]
<1>1. row \in Row /\ i \in DOMAIN rows /\ i \in Nat
  BY ElementOfSeq, LenProperties
<1>2. other \in Event
  BY <1>1 DEF Event
<1>3. row.seq \in Nat /\ row.prev \in Hash
  BY <1>1 DEF Row
<1>4. row_hash(row.seq, other, row.prev) \in Hash
  <2>1. <<row.seq, other>> \in Nat \X Event
    BY <1>2, <1>3
  <2> QED BY <1>3, <2>1, AppendProperties DEF row_hash, Hash
<1>5. \A new \in Row : [rows EXCEPT ![i] = new] \in Seq(Row)
  BY ExceptSeq
<1>6. [rows EXCEPT ![i].event = other] \in Seq(Row)
  <2>1. [row EXCEPT !.event = other] \in Row
    BY <1>1, <1>2 DEF Row
  <2>2. [rows EXCEPT ![i].event = other] = [rows EXCEPT ![i] = [row EXCEPT !.event = other]]
    BY <1>1
  <2> QED BY <1>5, <2>1, <2>2
<1>7. [rows EXCEPT ![i].column = other] \in Seq(Row)
  <2>1. [row EXCEPT !.column = other] \in Row
    BY <1>1, <1>2 DEF Row
  <2>2. [rows EXCEPT ![i].column = other] = [rows EXCEPT ![i] = [row EXCEPT !.column = other]]
    BY <1>1
  <2> QED BY <1>5, <2>1, <2>2
<1>8. [rows EXCEPT ![i].event = other, ![i].column = other,
                   ![i].hash = row_hash(row.seq, other, row.prev)] \in Seq(Row)
  <2> DEFINE h == row_hash(row.seq, other, row.prev)
             new == [row EXCEPT !.event = other, !.column = other, !.hash = h]
  <2>1. h \in Hash
    BY <1>4
  <2> HIDE DEF h
  <2>2. new \in Row
    BY <1>1, <1>2, <2>1 DEF Row
  <2>3. [rows EXCEPT ![i].event = other, ![i].column = other, ![i].hash = h] = [rows EXCEPT ![i] = new]
    <3>1. rows = [j \in 1..Len(rows) |-> rows[j]]
      BY LenProperties
    <3> QED BY <1>1, <3>1
  <2> QED BY <1>5, <2>2, <2>3 DEF h
<1> QED BY <1>6, <1>7, <1>8 DEF Altered

LEMMA TamperedTyped ==
    ASSUME NEW rows \in Seq(Row), NEW tampered \in Tampered(rows)
    PROVE  tampered \in Seq(Row)
<1>1. PICK i \in DOMAIN rows : tampered \in Altered(rows, i) \cup {RemoveAt(rows, i)}
  BY DEF Tampered
<1>2. i \in 1..Len(rows)
  BY LenProperties
<1>3. CASE tampered \in Altered(rows, i)
  BY <1>2, <1>3, AlteredTyped
<1>4. CASE tampered = RemoveAt(rows, i)
  <2>1. Len(rows) \in Nat /\ i \in Nat
    BY <1>2, LenProperties
  <2>2. SubSeq(rows, 1, i - 1) \in Seq(Row) /\ SubSeq(rows, i + 1, Len(rows)) \in Seq(Row)
    BY <1>2, <2>1
  <2> QED BY <1>4, <2>2, ConcatProperties DEF RemoveAt
<1> QED BY <1>1, <1>3, <1>4

LEMMA TamperKeeps ==
    ASSUME StorageInv, Tamper
    PROVE  StorageInv' /\ main'.id = main.id /\ db'.keys = db.keys
<1> USE OpFacts
<1>1. /\ damaged' = TRUE /\ lease = {} /\ op = Idling /\ wal = NoLog /\ ops' = ops + 1
      /\ synced' = [synced EXCEPT !.main = main']
      /\ UNCHANGED <<wal, lease, inode, state, work, scope, due, key, seen, writer, anchored, history,
                     op, built, snapshot, faults>>
  BY DEF Tamper, connVars
<1>2. PICK rows \in Tampered(db.rows) : main' = [main EXCEPT !.content.rows = rows]
  BY DEF Tamper
<1>3. db = main.content /\ main \in MainFile
  BY <1>1 DEF db, FilesTyped
<1>4. rows \in Seq(Row)
  <2>1. db.rows \in Seq(Row)
    BY DEF Content
  <2> QED BY <2>1, TamperedTyped
<1>5. /\ main' \in MainFile /\ main'.id = main.id /\ main'.content \in Content
      /\ main'.content.keys = main.content.keys
  <2>1. [main.content EXCEPT !.rows = rows] \in Content
    BY <1>3, <1>4 DEF Content
  <2>2. main' = [main EXCEPT !.content = [main.content EXCEPT !.rows = rows]]
    BY <1>2
  <2>3. [main.content EXCEPT !.rows = rows].keys = main.content.keys
    BY <1>3 DEF Content
  <2>4. \A new \in Content : [main EXCEPT !.content = new] \in MainFile
         /\ [main EXCEPT !.content = new].id = main.id /\ [main EXCEPT !.content = new].content = new
    BY <1>3 DEF MainFile
  <2> QED BY <2>1, <2>2, <2>3, <2>4
<1>6. db' = main'.content /\ db'.keys = db.keys
  BY <1>1, <1>3, <1>5 DEF db
<1>7. /\ synced' \in [main : MainFile, wal : LogFile \cup {NoLog}]
      /\ synced'.main = main' /\ synced'.wal = synced.wal
  BY <1>1, <1>5 DEF OpTyped
<1>8. FilesTyped' /\ OpTyped' /\ LeaseHolds' /\ FilesBalance'
  BY <1>1, <1>5, <1>7 DEF FilesTyped, OpTyped, LeaseHolds, FilesBalance
<1>9. LogsBelong'
  <2>1. synced.wal # NoLog => synced.wal.of = main.id /\ synced.wal.content.keys = db.keys
    BY DEF LogsBelong
  <2> QED BY <1>1, <1>5, <1>6, <1>7, <2>1 DEF LogsBelong, None
<1>10. ConnsTyped' /\ TrailTyped' /\ AnchorSound'
  BY <1>1 DEF StorageInv, StorageTyped, ConnsTyped, TrailTyped, AnchorSound
<1>11. ASSUME NEW c \in Conns PROVE ConnSound(c)'
  <2>1. ConnSound(c) /\ c \notin lease /\ state[c] = "closed" /\ state'[c] = "closed"
    BY <1>1 DEF StorageInv, ConnSound, LeaseSound
  <2>2. LeaseSound(c)' /\ WorkSound(c)'
    BY <1>1, <2>1 DEF LeaseSound, WorkSound, InTransaction
  <2>3. DueSound(c)'
    BY <1>1, <2>1 DEF ConnSound, DueSound
  <2> QED BY <2>2, <2>3 DEF ConnSound
<1> QED BY <1>5, <1>6, <1>8, <1>9, <1>10, <1>11 DEF StorageInv, StorageTyped

(***************************************************************************)
(* The invariant is inductive.                                             *)
(***************************************************************************)
LEMMA InitKeeps ==
    ASSUME Init
    PROVE  StorageInv
<1> USE DEF None
<1>1. /\ main = [id |-> 1, content |-> Empty] /\ wal = NoLog /\ lease = {}
      /\ inode = [c \in Conns |-> 0] /\ writer = None
      /\ state = [c \in Conns |-> "closed"] /\ work = [c \in Conns |-> NoContent]
      /\ scope = [c \in Conns |-> NoScope] /\ due = [c \in Conns |-> <<>>]
      /\ key = [c \in Conns |-> None] /\ seen = [c \in Conns |-> None]
      /\ anchored = {} /\ history = {} /\ damaged = FALSE
      /\ op = Idling /\ built = NoContent /\ snapshot = NoContent
      /\ synced = [main |-> main, wal |-> wal] /\ ops = 0 /\ faults = 0
  BY DEF Init, TrailInit
<1>2. Empty \in Content /\ Empty.rows = <<>> /\ Empty.operations = 0 /\ NoContent \notin Content
  BY MarksAreNoContent
<1>3. main \in MainFile /\ main.content = Empty
  BY <1>1, <1>2 DEF MainFile
<1>4. FilesTyped
  BY <1>1, <1>3 DEF FilesTyped
<1>5. ConnsTyped
  <2>1. NoScope \in [open : BOOLEAN, held : Seq(HeadRecord)]
    BY DEF NoScope
  <2> QED BY <1>1, <2>1 DEF ConnsTyped, ConnSteps, KeyStatus
<1>6. TrailTyped
  BY <1>1, FS_EmptySet DEF TrailTyped
<1>7. OpTyped
  BY <1>1, <1>3 DEF OpTyped, OpSteps, Idling
<1>8. LeaseHolds /\ LogsBelong /\ AnchorSound
  BY <1>1 DEF LeaseHolds, LogsBelong, AnchorSound, Replacing, Idling
<1>9. FilesBalance
  <2>1. ControlRows(<<>>) = {}
    BY DEF ControlRows
  <2>2. Balanced(Empty)
    BY <1>2, <2>1, FS_EmptySet DEF Balanced
  <2>3. synced.main = main /\ synced.wal = NoLog
    BY <1>1
  <2> QED BY <1>1, <1>2, <1>3, <2>2, <2>3 DEF FilesBalance
<1>10. ASSUME NEW c \in Conns PROVE ConnSound(c)
  <2>1. state[c] = "closed" /\ due[c] = <<>> /\ c \notin lease
    BY <1>1
  <2> QED BY <2>1 DEF ConnSound, LeaseSound, WorkSound, DueSound, InTransaction
<1> QED BY <1>4, <1>5, <1>6, <1>7, <1>8, <1>9, <1>10 DEF StorageInv, StorageTyped

LEMMA ConnStepKeeps ==
    ASSUME StorageInv, NEW c \in Conns, ConnStep(c), Alongside
    PROVE  StorageInv'
<1>1. CASE Open(c) \/ ReadSeededKey(c) \/ CreateSeededKey(c) \/ Close(c)
  BY <1>1, OpenKeeps, ReadSeededKeyKeeps, CreateSeededKeyKeeps, CloseKeeps
<1>2. CASE Write(c) \/ OpenSavepoint(c) \/ ReleaseSavepoint(c)
  BY <1>2, WriteKeeps, OpenSavepointKeeps, ReleaseSavepointKeeps
<1>3. CASE ChangeKeys(c) \/ ChangeInComposite(c) \/ Record(c) \/ RecordRejection(c)
  BY <1>3, ChangeKeysKeeps, ChangeInCompositeKeeps, RecordKeeps, RecordRejectionKeeps
<1>4. CASE CommitControl(c) \/ Rollback(c) \/ Announce(c) \/ ReadKey(c) \/ TouchKey(c)
  BY <1>4, CommitControlKeeps, RollbackKeeps, AnnounceKeeps, ReadKeyKeeps, TouchKeyKeeps
<1> QED BY <1>1, <1>2, <1>3, <1>4 DEF ConnStep

LEMMA OpNextKeeps ==
    ASSUME StorageInv, OpNext, UNCHANGED faults
    PROVE  StorageInv'
<1>1. CASE Trace \/ RemoveOldBackup \/ CopyToBackup \/ Build \/ Fail
  BY <1>1, TraceKeeps, RemoveOldBackupKeeps, CopyToBackupKeeps, BuildKeeps, FailKeeps
<1>2. CASE TakeLease \/ Neutralize \/ SyncRemoval \/ Swap \/ FinishSwap
  BY <1>2, TakeLeaseKeeps, NeutralizeKeeps, SyncRemovalKeeps, SwapKeeps, FinishSwapKeeps
<1> QED BY <1>1, <1>2 DEF OpNext

LEMMA StutterKeeps ==
    ASSUME StorageInv, UNCHANGED vars
    PROVE  StorageInv' /\ db' = db
<1>1. UNCHANGED <<main, wal, lease, inode, state, work, scope, due, key, seen, writer,
                  anchored, history, damaged, op, built, snapshot, synced, ops, faults>>
  BY DEF vars, trailVars, fileVars, connVars, opVars
<1>2. LogsBelong' /\ db' = db
  BY <1>1, FilesStay DEF StorageInv
<1>3. Elsewhere
  BY <1>1 DEF Elsewhere, connVars
<1>4. ConnsTyped' /\ TrailTyped' /\ AnchorSound' /\ \A c \in Conns : ConnSound(c)'
  BY <1>1, <1>2, <1>3, Apart
<1>5. FilesTyped' /\ OpTyped' /\ LeaseHolds' /\ FilesBalance'
  BY <1>1 DEF StorageInv, StorageTyped, FilesTyped, OpTyped, LeaseHolds, FilesBalance, Balanced
<1> QED BY <1>2, <1>4, <1>5 DEF StorageInv, StorageTyped

LEMMA NextKeeps ==
    ASSUME StorageInv, [Next]_vars
    PROVE  StorageInv'
<1>1. CASE TrailStep
  <2>1. PICK c \in Conns : ConnStep(c)
    BY <1>1 DEF TrailStep
  <2>2. Alongside
    BY <1>1 DEF TrailStep, Alongside
  <2> QED BY <2>1, <2>2, ConnStepKeeps
<1>2. CASE OpNext /\ UNCHANGED faults
  BY <1>2, OpNextKeeps
<1>3. CASE Fault
  BY <1>3, ProcessDiesKeeps, CommandDiesKeeps, PowerLossKeeps DEF Fault
<1>4. CASE Tamper
  BY <1>4, TamperKeeps
<1>5. CASE UNCHANGED vars
  BY <1>5, StutterKeeps
<1> QED BY <1>1, <1>2, <1>3, <1>4, <1>5 DEF Next

(***************************************************************************)
(* The keys a step commits.                                                *)
(***************************************************************************)
LEMMA LogGives ==
    ASSUME StorageInv, NEW content, wal' = [of |-> main.id, content |-> content], main' = main
    PROVE  db' = content
<1>1. main.id \in Nat \ {0}
  BY DatabaseTyped DEF StorageInv, StorageTyped
<1>2. wal' # NoLog /\ wal'.of = main'.id /\ wal'.content = content
  BY <1>1 DEF NoLog
<1> QED BY <1>2 DEF db

LEMMA ConnKeepsRevoked ==
    ASSUME StorageInv, NEW c \in Conns, ConnStep(c), Alongside
    PROVE  KeepsRevoked(db.keys, db'.keys)
<1> USE ConnFacts
<1>1. ASSUME db' = db \/ db'.keys = db.keys PROVE KeepsRevoked(db.keys, db'.keys)
  BY <1>1 DEF KeepsRevoked
<1>2. CASE \/ Open(c) \/ OpenSavepoint(c) \/ ChangeKeys(c) \/ ChangeInComposite(c) \/ Record(c)
           \/ RecordRejection(c) \/ Rollback(c) \/ Announce(c) \/ ReadKey(c)
  <2>1. UNCHANGED <<main, wal>>
    BY <1>2 DEF Open, OpenSavepoint, ChangeKeys, ChangeInComposite, BeginControl, Record,
                RecordRejection, Rollback, Announce, ReadKey, fileVars
  <2>2. db' = db
    BY <2>1 DEF db
  <2> QED BY <1>1, <2>2
<1>3. CASE Close(c)
  <2>1. db' = db
    BY <1>3, LeaveKeeps DEF Close
  <2> QED BY <1>1, <2>1
<1>4. CASE ReadSeededKey(c)
  <2>1. due[c] = <<>> /\ state[c] # "closed"
    BY <1>4 DEF ReadSeededKey, ConnSound, DueSound
  <2>2. ASSUME UNCHANGED fileVars PROVE db' = db
    BY <2>2 DEF fileVars, db
  <2>3. CASE Leave(c)
    <3>1. db' = db
      BY <1>4, <2>1, <2>3, LeaveKeeps DEF ReadSeededKey
    <3> QED BY <1>1, <3>1
  <2>4. CASE UNCHANGED fileVars
    BY <1>1, <2>2, <2>4
  <2> QED BY <1>4, <2>3, <2>4 DEF ReadSeededKey
<1>5. CASE CreateSeededKey(c)
  <2>1. due[c] = <<>> /\ state[c] # "closed"
    BY <1>5 DEF CreateSeededKey, ConnSound, DueSound
  <2>2. CASE Leave(c)
    <3>1. db' = db
      BY <1>5, <2>1, <2>2, LeaveKeeps DEF CreateSeededKey
    <3> QED BY <1>1, <3>1
  <2>3. CASE /\ db.keys[SeededKey] = None /\ main' = main
             /\ wal' = [of |-> main.id, content |-> [db EXCEPT !.keys = Seeds(@)]]
    <3>1. db' = [db EXCEPT !.keys = Seeds(@)]
      BY <2>3, LogGives
    <3>2. db.keys \in [KeyIds -> KeyStatus] /\ db'.keys = Seeds(db.keys)
      BY <3>1 DEF Content
    <3> QED BY <2>3, <3>2 DEF Seeds, KeepsRevoked, None
  <2> QED BY <1>5, <2>2, <2>3 DEF CreateSeededKey
<1>6. CASE Write(c)
  <2>1. db' = WithRow(db, "decision")
    BY <1>6, LogGives DEF Write, CommitContent, Log
  <2> QED BY <1>1, <2>1, WithRowTyped
<1>7. CASE ReleaseSavepoint(c)
  <2>1. db' = WithRow(db, "decision")
    BY <1>7, LogGives DEF ReleaseSavepoint, SnapshotIsCurrent, CommitContent, Log
  <2> QED BY <1>1, <2>1, WithRowTyped
<1>8. CASE CommitControl(c)
  <2>1. db' = work[c] /\ state[c] = "written"
    BY <1>8, LogGives DEF CommitControl, CommitContent, Log, Committable
  <2> QED BY <2>1 DEF ConnSound, WorkSound, InTransaction
<1>9. CASE TouchKey(c)
  <2>1. db' = db
    BY <1>9, LogGives DEF TouchKey, Log, Touched
  <2> QED BY <1>1, <2>1
<1> QED BY <1>2, <1>3, <1>4, <1>5, <1>6, <1>7, <1>8, <1>9 DEF ConnStep

LEMMA StepKeepsRevoked ==
    ASSUME StorageInv, [Next]_vars, ~Swapped
    PROVE  KeepsRevoked(db.keys, db'.keys)
<1> USE OpFacts
<1>1. ASSUME db'.keys = db.keys PROVE KeepsRevoked(db.keys, db'.keys)
  BY <1>1 DEF KeepsRevoked
<1>2. ASSUME UNCHANGED <<main, wal>> PROVE db' = db
  BY <1>2 DEF db
<1>3. CASE TrailStep
  <2>1. PICK c \in Conns : ConnStep(c)
    BY <1>3 DEF TrailStep
  <2>2. Alongside
    BY <1>3 DEF TrailStep, Alongside
  <2> QED BY <2>1, <2>2, ConnKeepsRevoked
<1>4. CASE Neutralize
  <2>1. main \in MainFile
    BY DEF FilesTyped
  <2>2. main' = [main EXCEPT !.content = db] /\ wal' = NoLog
    BY <1>4 DEF Neutralize, Files, Checkpointed
  <2>3. db' = db
    BY <2>1, <2>2 DEF db, MainFile
  <2> QED BY <1>1, <2>3
<1>5. CASE Swap
  <2>1. main.id \in Nat
    BY DEF FilesTyped, MainFile
  <2> QED BY <1>5, <2>1 DEF Swap, Files, Swapped
<1>a. CASE UnleasedConnectionCloses
  <2>1. CASE main' = Checkpointed /\ wal' = NoLog
    <3>1. main \in MainFile
      BY DEF FilesTyped
    <3>2. main' = [main EXCEPT !.content = db] /\ wal' = NoLog
      BY <2>1 DEF Checkpointed
    <3>3. db' = db
      BY <3>1, <3>2 DEF db, MainFile
    <3> QED BY <1>1, <3>3
  <2> QED BY <1>1, <1>2, <1>a, <2>1 DEF UnleasedConnectionCloses, Files
<1>6. CASE \/ RemoveOldBackup \/ Build \/ Fail \/ TakeLease
           \/ SyncRemoval \/ FinishSwap \/ CommandDies \/ ProcessDies \/ UNCHANGED vars
  <2>1. UNCHANGED <<main, wal>>
    BY <1>6 DEF RemoveOldBackup, Build, Fail, TakeLease, SyncRemoval, FinishSwap,
                CommandDies, ProcessDies, Crash, vars, trailVars, fileVars
  <2> QED BY <1>1, <1>2, <2>1
<1>7. CASE PowerLoss
  BY <1>1, <1>7, PowerLossFinds DEF Swapped
<1>8. CASE Tamper
  BY <1>1, <1>8, TamperKeeps
<1>b. CASE Trace \/ CopyToBackup
  BY <1>a, <1>b DEF Trace, CopyToBackup
<1> QED BY <1>3, <1>4, <1>5, <1>6, <1>7, <1>8, <1>b DEF Next, OpNext, Fault

(***************************************************************************)
(* The theorems.                                                           *)
(***************************************************************************)
LEMMA StorageInvariant == Spec => []StorageInv
<1>1. Init => StorageInv
  BY InitKeeps
<1>2. StorageInv /\ [Next]_vars => StorageInv'
  BY NextKeeps
<1> QED BY <1>1, <1>2, PTL DEF Spec

(* Type correctness of the audit trail, the connections and the storage     *)
(* operations: the files, the logs and the backup always hold a database of  *)
(* the schema or one of the marks that stand for none, through crashes,      *)
(* power losses, replacements and rows changed at rest (sqlite.py            *)
(* connect_sqlite, storage_ops.py).                                          *)
THEOREM StorageIsTyped == Spec => []StorageTyped
<1>1. StorageInv => StorageTyped
  BY DEF StorageInv
<1> QED BY <1>1, StorageInvariant, PTL

(* What the anchor and the exporter are told names a row that was committed, *)
(* for any number of connections, nested rejections and rollbacks            *)
(* (sqlite_txn.py atomic_write_deferral / emit_or_defer).                    *)
THEOREM OnlyCommittedRowsAreAnnounced == Spec => []OnlyCommittedRowsLeave
<1>1. StorageInv => OnlyCommittedRowsLeave
  <2> SUFFICES ASSUME StorageInv,
                      NEW record \in anchored \cup UNION {Range(due[c]) : c \in Conns}
               PROVE  record.hash \in history
    BY DEF OnlyCommittedRowsLeave
  <2>1. CASE record \in anchored
    BY <2>1 DEF StorageInv, AnchorSound
  <2>2. CASE record \notin anchored
    <3>1. PICK c \in Conns : record \in Range(due[c])
      BY <2>2
    <3>2. due[c] \in Seq(HeadRecord) /\ DueSound(c)
      BY DEF StorageInv, StorageTyped, ConnsTyped, ConnSound
    <3>3. PICK i \in DOMAIN due[c] : record = due[c][i]
      BY <3>1 DEF Range
    <3>4. i \in 1..Len(due[c])
      BY <3>2, <3>3, LenProperties
    <3> QED BY <3>2, <3>3, <3>4 DEF DueSound
  <2> QED BY <2>1, <2>2
<1> QED BY <1>1, StorageInvariant, PTL

(* Every committed control operation has exactly one control row, committed  *)
(* with it, in whichever database an opener finds after crashes, power       *)
(* losses, resets and restores (control_audit.py record / composite).        *)
THEOREM ControlIsAudited == Spec => []ControlChangesAreAudited
<1>1. StorageInv => ControlChangesAreAudited
  BY OpFacts DEF ControlChangesAreAudited, Balanced
<1> QED BY <1>1, StorageInvariant, PTL

(* Rows that pass the verification against the anchor are the whole history  *)
(* its last record was made from and continue every earlier record, however  *)
(* many rows there are and whatever was done to them at rest                 *)
(* (audit_chain.py verify_chain, verify_against_anchor).                     *)
THEOREM VerifiedRowsAreTheHistory == Spec => []VerifiedHistoryIsAnchored
<1>1. StorageInv => VerifiedHistoryIsAnchored
  <2> SUFFICES ASSUME StorageInv, VerifyChain(db.rows), VerifyAgainstAnchor(db.rows, anchored)
               PROVE  /\ \A record \in anchored : IsPrefix(record.hash, Story(db.rows))
                      /\ db.rows # <<>> => \E record \in anchored : record.hash = Story(db.rows)
                      /\ \A i \in DOMAIN db.rows : db.rows[i].column = db.rows[i].event
    BY DEF VerifiedHistoryIsAnchored
  <2>1. db \in Content
    BY OpFacts
  <2>2. db.rows \in Seq(Row)
    BY <2>1 DEF Content
  <2>3. anchored \in SUBSET HeadRecord
    BY DEF StorageInv, StorageTyped, TrailTyped
  <2> QED BY <2>2, <2>3, VerifiedRowsAreAnchored
<1> QED BY <1>1, StorageInvariant, PTL

(* Whatever is interrupted, an opener finds one database with the log that   *)
(* belongs to it, and no open connection is on a file that was replaced      *)
(* (storage_ops.py _atomic_replace_sqlite, the lease of connect_sqlite).     *)
THEOREM TheDatabaseIsWhole == Spec => []DatabaseIsWhole
<1>1. StorageInv => DatabaseIsWhole
  BY OpFacts DEF DatabaseIsWhole, StorageInv, ConnSound, LeaseSound
<1> QED BY <1>1, StorageInvariant, PTL

(* A revoked key stays revoked in every step that leaves the main file in    *)
(* place: commits, touches, seeding, checkpoints, and power losses           *)
(* (keys.py get_by_raw_key / revoke_key, key_ops.py).                        *)
THEOREM RevokedKeysStayRevoked == Spec => RevocationSticks
<1>1. StorageInv /\ [Next]_vars =>
        [db # Corrupt /\ db' # Corrupt /\ ~Swapped
         => \A k \in KeyIds : db.keys[k] = "revoked" => db'.keys[k] = "revoked"]_vars
  BY StepKeepsRevoked DEF KeepsRevoked
<1> QED BY <1>1, StorageInvariant, PTL DEF Spec, RevocationSticks

-----------------------------------------------------------------------------
(***************************************************************************)
(* The exporter.                                                           *)
(***************************************************************************)
Elements(s) == {s[i] : i \in 1..Len(s)}

ExportTyped ==
    /\ queue \in Seq(Nat) /\ batch \in Seq(Nat) /\ emitted \in Nat
    /\ closed \in BOOLEAN /\ lastBatch \in BOOLEAN
    /\ closing \in {"no", "putting", "joining", "done"}
    /\ sender \in {"waiting", "collecting", "sending", "ended"}

\* close() comes before Stop, Stop is the last there is, and the thread ends
\* only behind it.
StopIsLast ==
    /\ closing = "no" <=> ~closed
    /\ \A i \in 1..Len(queue) :
         queue[i] = Stop => i = Len(queue) /\ closing \in {"joining", "done"}
    /\ lastBatch \/ sender = "ended" => queue = <<>> /\ closing \in {"joining", "done"}

\* An accepted event is in the queue, in the batch, or was tried.
NoneIsLost ==
    /\ sender \in {"waiting", "ended"} => batch = <<>>
    /\ sender \in {"waiting", "collecting"} => ~lastBatch
    /\ accepted = tried \cup Elements(batch) \cup (Elements(queue) \ {Stop})

ExportInv == ExportTyped /\ StopIsLast /\ NoneIsLost

LEMMA ElementsOfAppend ==
    ASSUME NEW s \in Seq(Nat), NEW e \in Nat
    PROVE  /\ Append(s, e) \in Seq(Nat) /\ Len(Append(s, e)) = Len(s) + 1
           /\ \A i \in 1..Len(s) : Append(s, e)[i] = s[i]
           /\ Append(s, e)[Len(s) + 1] = e
           /\ Elements(Append(s, e)) = Elements(s) \cup {e}
  <1>1. /\ Append(s, e) \in Seq(Nat) /\ Len(Append(s, e)) = Len(s) + 1
        /\ \A i \in 1..Len(s) : Append(s, e)[i] = s[i]
        /\ Append(s, e)[Len(s) + 1] = e /\ Len(s) \in Nat
    BY AppendProperties
  <1>2. \A x : x \in Elements(Append(s, e)) => x \in Elements(s) \cup {e}
    BY <1>1 DEF Elements
  <1>3. \A x : x \in Elements(s) \cup {e} => x \in Elements(Append(s, e))
    BY <1>1 DEF Elements
  <1> QED  BY <1>1, <1>2, <1>3

LEMMA ElementsOfTail ==
    ASSUME NEW s \in Seq(Nat), s # <<>>
    PROVE  /\ Tail(s) \in Seq(Nat) /\ Len(Tail(s)) = Len(s) - 1 /\ Len(s) \in Nat \ {0}
           /\ Head(s) \in Nat /\ Head(s) = s[1]
           /\ \A i \in 1..Len(Tail(s)) : Tail(s)[i] = s[i + 1]
           /\ Elements(s) = {Head(s)} \cup Elements(Tail(s))
  <1>1. /\ Tail(s) \in Seq(Nat) /\ Len(Tail(s)) = Len(s) - 1 /\ Len(s) \in Nat \ {0}
        /\ Head(s) \in Nat /\ Head(s) = s[1]
        /\ \A i \in 1..Len(Tail(s)) : Tail(s)[i] = s[i + 1]
    BY HeadTailProperties, EmptySeq
  <1>2. \A x : x \in Elements(s) => x \in {Head(s)} \cup Elements(Tail(s))
    <2>1. ASSUME NEW i \in 1..Len(s), i # 1  PROVE s[i] \in Elements(Tail(s))
      <3>1. i - 1 \in 1..Len(Tail(s)) /\ Tail(s)[i - 1] = s[i]
        BY <1>1, <2>1
      <3> QED  BY <3>1 DEF Elements
    <2> QED  BY <1>1, <2>1 DEF Elements
  <1>3. \A x : x \in {Head(s)} \cup Elements(Tail(s)) => x \in Elements(s)
    <2>1. ASSUME NEW i \in 1..Len(Tail(s))  PROVE Tail(s)[i] \in Elements(s)
      <3>1. i + 1 \in 1..Len(s) /\ Tail(s)[i] = s[i + 1]
        BY <1>1
      <3> QED  BY <3>1 DEF Elements
    <2>2. Head(s) \in Elements(s)
      BY <1>1 DEF Elements
    <2> QED  BY <2>1, <2>2 DEF Elements
  <1> QED  BY <1>1, <1>2, <1>3

LEMMA ElementsOfNone == Elements(<<>>) = {} /\ <<>> \in Seq(Nat) /\ Len(<<>>) = 0
  <1>1. <<>> \in Seq(Nat) /\ Len(<<>>) = 0
    BY EmptySeq
  <1> QED  BY <1>1 DEF Elements

LEMMA ElementsOfOne ==
    ASSUME NEW e \in Nat
    PROVE  <<e>> \in Seq(Nat) /\ Elements(<<e>>) = {e}
  <1>1. <<e>> \in Seq(Nat) /\ Len(<<e>>) = 1 /\ <<e>>[1] = e
    OBVIOUS
  <1> QED  BY <1>1 DEF Elements

LEMMA ExportStarts == ExportInit => ExportInv
  <1> SUFFICES ASSUME ExportInit  PROVE ExportInv
    OBVIOUS
  <1>1. ExportTyped
    BY ElementsOfNone DEF ExportInit, ExportTyped
  <1>2. StopIsLast
    <2>1. queue = <<>> /\ closed = FALSE /\ closing = "no" /\ sender = "waiting" /\ lastBatch = FALSE
      BY DEF ExportInit
    <2>2. 1..Len(queue) = {}
      BY <2>1, ElementsOfNone
    <2> QED  BY <2>1, <2>2 DEF StopIsLast
  <1>3. NoneIsLost
    <2>1. /\ queue = <<>> /\ batch = <<>> /\ accepted = {} /\ tried = {}
          /\ sender = "waiting" /\ lastBatch = FALSE
      BY DEF ExportInit
    <2> QED  BY <2>1, ElementsOfNone DEF NoneIsLost
  <1> QED  BY <1>1, <1>2, <1>3 DEF ExportInv

\* What joins the queue: an event while the exporter is open, Stop once it is
\* closed.
LEMMA JoinQueue ==
    ASSUME ExportInv, NEW e \in Nat, queue' = Append(queue, e),
           ~lastBatch /\ sender # "ended", \A i \in 1..Len(queue) : queue[i] # Stop,
           UNCHANGED <<sender, batch, lastBatch, tried>>,
           closing' \in {"no", "putting", "joining", "done"}, closed' \in BOOLEAN,
           closing' = "no" <=> ~closed', emitted' \in Nat,
           e = Stop => closing' = "joining" /\ accepted' = accepted,
           e # Stop => accepted' = accepted \cup {e}
    PROVE  ExportInv'
  <1>1. ExportTyped /\ Len(queue) \in Nat
    BY LenProperties DEF ExportInv, ExportTyped
  <1>2. /\ queue' \in Seq(Nat) /\ Len(queue') = Len(queue) + 1
        /\ \A i \in 1..Len(queue) : queue'[i] = queue[i]
        /\ queue'[Len(queue) + 1] = e
        /\ Elements(queue') = Elements(queue) \cup {e}
    BY <1>1, ElementsOfAppend DEF ExportTyped
  <1>3. ExportTyped'
    BY <1>1, <1>2 DEF ExportTyped
  <1>4. \A i \in 1..Len(queue') : queue'[i] = Stop => i = Len(queue') /\ e = Stop
    <2>1. ASSUME NEW i \in 1..Len(queue'), queue'[i] = Stop  PROVE i = Len(queue') /\ e = Stop
      <3>1. i \in 1..Len(queue) \/ i = Len(queue) + 1
        BY <1>1, <1>2
      <3> QED  BY <1>2, <2>1, <3>1
    <2> QED  BY <2>1
  <1>5. StopIsLast'
    BY <1>1, <1>4 DEF StopIsLast, ExportTyped
  <1>6. NoneIsLost'
    BY <1>2 DEF ExportInv, NoneIsLost
  <1> QED  BY <1>3, <1>5, <1>6 DEF ExportInv

\* What leaves the queue at its head.
LEMMA LeaveQueue ==
    ASSUME ExportInv, queue # <<>>, queue' = Tail(queue), UNCHANGED <<closing, closed>>
    PROVE  /\ queue' \in Seq(Nat) /\ Head(queue) \in Nat
           /\ Elements(queue) = {Head(queue)} \cup Elements(queue')
           /\ \A i \in 1..Len(queue') :
                queue'[i] = Stop => i = Len(queue') /\ closing \in {"joining", "done"}
           /\ Head(queue) = Stop => queue' = <<>> /\ closing \in {"joining", "done"}
  <1>1. queue \in Seq(Nat)
    BY DEF ExportInv, ExportTyped
  <1>2. /\ queue' \in Seq(Nat) /\ Len(queue') = Len(queue) - 1 /\ Len(queue) \in Nat \ {0}
        /\ Head(queue) \in Nat /\ Head(queue) = queue[1]
        /\ \A i \in 1..Len(queue') : queue'[i] = queue[i + 1]
        /\ Elements(queue) = {Head(queue)} \cup Elements(queue')
    BY <1>1, ElementsOfTail
  <1>3. \A i \in 1..Len(queue) :
           queue[i] = Stop => i = Len(queue) /\ closing \in {"joining", "done"}
    BY DEF ExportInv, StopIsLast
  <1>4. ASSUME NEW i \in 1..Len(queue'), queue'[i] = Stop
        PROVE  i = Len(queue') /\ closing \in {"joining", "done"}
    <2>1. i + 1 \in 1..Len(queue) /\ queue[i + 1] = Stop
      BY <1>2, <1>4
    <2>2. i + 1 = Len(queue) /\ closing \in {"joining", "done"}
      BY <1>3, <2>1
    <2>3. i \in Nat /\ Len(queue) \in Nat /\ Len(queue') = Len(queue) - 1
      BY <1>2
    <2>4. i = Len(queue) - 1
      BY <2>2, <2>3
    <2> QED  BY <2>2, <2>3, <2>4
  <1>5. ASSUME Head(queue) = Stop  PROVE queue' = <<>> /\ closing \in {"joining", "done"}
    <2>1. 1 \in 1..Len(queue) /\ queue[1] = Stop
      BY <1>2, <1>5
    <2>2. Len(queue) = 1 /\ closing \in {"joining", "done"}
      BY <1>3, <2>1
    <2>3. Len(queue') = 0
      BY <1>2, <2>2
    <2> QED  BY <1>2, <2>2, <2>3, EmptySeq
  <1> QED  BY <1>2, <1>4, <1>5

LEMMA TakeStep ==
    ASSUME ExportInv, Take
    PROVE  ExportInv'
  <1>1. /\ queue' \in Seq(Nat) /\ Head(queue) \in Nat
        /\ Elements(queue) = {Head(queue)} \cup Elements(queue')
        /\ \A i \in 1..Len(queue') :
             queue'[i] = Stop => i = Len(queue') /\ closing \in {"joining", "done"}
        /\ Head(queue) = Stop => queue' = <<>> /\ closing \in {"joining", "done"}
    BY LeaveQueue DEF Take
  <1>2. /\ sender = "waiting" /\ batch = <<>> /\ lastBatch = FALSE
        /\ UNCHANGED <<closed, closing, lastBatch, emitted, accepted, tried>>
    BY DEF Take, ExportInv, ExportTyped, NoneIsLost
  <1>3. CASE Head(queue) = Stop
    <2>1. sender' = "ended" /\ batch' = <<>>
      BY <1>2, <1>3 DEF Take
    <2>2. ExportTyped'
      BY <1>1, <1>2, <2>1 DEF ExportInv, ExportTyped
    <2>3. StopIsLast' /\ NoneIsLost'
      BY <1>1, <1>2, <1>3, <2>1 DEF ExportInv, StopIsLast, NoneIsLost
    <2> QED  BY <2>2, <2>3 DEF ExportInv
  <1>4. CASE Head(queue) # Stop
    <2>1. sender' = "collecting" /\ batch' = <<Head(queue)>>
      BY <1>4 DEF Take
    <2>2. batch' \in Seq(Nat) /\ Elements(batch') = {Head(queue)}
      BY <1>1, <2>1, ElementsOfOne
    <2>3. ExportTyped'
      BY <1>1, <1>2, <2>1, <2>2 DEF ExportInv, ExportTyped
    <2>4. StopIsLast'
      BY <1>1, <1>2, <2>1 DEF ExportInv, StopIsLast
    <2>5. NoneIsLost'
      BY <1>1, <1>2, <1>4, <2>1, <2>2, ElementsOfNone DEF ExportInv, NoneIsLost
    <2> QED  BY <2>3, <2>4, <2>5 DEF ExportInv
  <1> QED  BY <1>3, <1>4

LEMMA CollectStep ==
    ASSUME ExportInv, Collect
    PROVE  ExportInv'
  <1>1. /\ queue' \in Seq(Nat) /\ Head(queue) \in Nat
        /\ Elements(queue) = {Head(queue)} \cup Elements(queue')
        /\ \A i \in 1..Len(queue') :
             queue'[i] = Stop => i = Len(queue') /\ closing \in {"joining", "done"}
        /\ Head(queue) = Stop => queue' = <<>> /\ closing \in {"joining", "done"}
    BY LeaveQueue DEF Collect
  <1>2. /\ sender = "collecting" /\ lastBatch = FALSE /\ batch \in Seq(Nat)
        /\ UNCHANGED <<closed, closing, emitted, accepted, tried>>
    BY DEF Collect, ExportInv, ExportTyped, NoneIsLost
  <1>3. CASE Head(queue) = Stop
    <2>1. sender' = "sending" /\ lastBatch' = TRUE /\ batch' = batch
      BY <1>3 DEF Collect
    <2>2. ExportTyped'
      BY <1>1, <1>2, <2>1 DEF ExportInv, ExportTyped
    <2>3. StopIsLast' /\ NoneIsLost'
      BY <1>1, <1>2, <1>3, <2>1 DEF ExportInv, StopIsLast, NoneIsLost
    <2> QED  BY <2>2, <2>3 DEF ExportInv
  <1>4. CASE Head(queue) # Stop
    <2>1. sender' = sender /\ lastBatch' = lastBatch /\ batch' = Append(batch, Head(queue))
      BY <1>4 DEF Collect
    <2>2. batch' \in Seq(Nat) /\ Elements(batch') = Elements(batch) \cup {Head(queue)}
      BY <1>1, <1>2, <2>1, ElementsOfAppend
    <2>3. ExportTyped'
      BY <1>1, <1>2, <2>1, <2>2 DEF ExportInv, ExportTyped
    <2>4. StopIsLast'
      BY <1>1, <1>2, <2>1 DEF ExportInv, StopIsLast
    <2>5. NoneIsLost'
      BY <1>1, <1>2, <1>4, <2>1, <2>2 DEF ExportInv, NoneIsLost
    <2> QED  BY <2>3, <2>4, <2>5 DEF ExportInv
  <1> QED  BY <1>3, <1>4

LEMMA SendStep ==
    ASSUME ExportInv, SendBatch
    PROVE  ExportInv'
  <1>1. /\ sender = "sending" /\ batch \in Seq(Nat)
        /\ UNCHANGED <<queue, closed, closing, lastBatch, emitted, accepted>>
    BY DEF SendBatch, ExportInv, ExportTyped
  <1>2. tried' = tried \cup Elements(batch)
    BY <1>1, LenProperties DEF SendBatch, Elements
  <1>3. ExportTyped'
    BY <1>1, ElementsOfNone DEF SendBatch, ExportInv, ExportTyped
  <1>4. StopIsLast'
    BY <1>1 DEF SendBatch, ExportInv, StopIsLast
  <1>5. NoneIsLost'
    BY <1>1, <1>2, ElementsOfNone DEF SendBatch, ExportInv, NoneIsLost, ExportTyped
  <1> QED  BY <1>3, <1>4, <1>5 DEF ExportInv

LEMMA ExportNextHolds ==
    ASSUME ExportInv, [ExportNext]_exportVars
    PROVE  ExportInv'
  <1>1. CASE UNCHANGED exportVars
    BY <1>1 DEF exportVars, ExportInv, ExportTyped, StopIsLast, NoneIsLost
  <1>2. CASE Emit
    <2>1. emitted' = emitted + 1 /\ emitted \in Nat /\ emitted' \in Nat /\ emitted' # Stop
      <3>1. emitted' = emitted + 1 /\ emitted \in Nat
        BY <1>2 DEF Emit, ExportInv, ExportTyped
      <3> QED  BY <3>1 DEF Stop
    <2>2. CASE Accepts
      <3>1. closed = FALSE /\ closing = "no"
        BY <2>2 DEF Accepts, ExportInv, ExportTyped, StopIsLast
      <3>2. ~lastBatch /\ sender # "ended" /\ \A i \in 1..Len(queue) : queue[i] # Stop
        BY <3>1 DEF ExportInv, StopIsLast
      <3>3. /\ queue' = Append(queue, emitted') /\ accepted' = accepted \cup {emitted'}
            /\ UNCHANGED <<closed, closing, sender, batch, lastBatch, tried>>
        BY <1>2, <2>2 DEF Emit
      <3> QED  BY <2>1, <3>1, <3>2, <3>3, JoinQueue
    <2>3. CASE ~Accepts
      BY <1>2, <2>1, <2>3 DEF Emit, ExportInv, ExportTyped, StopIsLast, NoneIsLost
    <2> QED  BY <2>2, <2>3
  <1>3. CASE CloseExport
    <2>1. closing = "no" /\ ~lastBatch /\ sender # "ended" /\ \A i \in 1..Len(queue) : queue[i] # Stop
      BY <1>3 DEF CloseExport, ExportInv, StopIsLast
    <2> QED  BY <1>3, <2>1 DEF CloseExport, ExportInv, ExportTyped, StopIsLast, NoneIsLost
  <1>4. CASE PutStop
    <2>1. closing = "putting" /\ closed
      BY <1>4 DEF PutStop, ExportInv, StopIsLast
    <2>2. ~lastBatch /\ sender # "ended" /\ \A i \in 1..Len(queue) : queue[i] # Stop
      BY <2>1 DEF ExportInv, StopIsLast
    <2>3. /\ queue' = Append(queue, Stop) /\ closing' = "joining" /\ Stop \in Nat
          /\ UNCHANGED <<closed, sender, batch, lastBatch, attempt, emitted, accepted, tried>>
          /\ closed \in BOOLEAN /\ emitted \in Nat
      BY <1>4 DEF PutStop, Stop, ExportInv, ExportTyped
    <2>4. PICK e \in Nat : e = Stop
      BY <2>3
    <2> QED  BY <2>1, <2>2, <2>3, <2>4, JoinQueue
  <1>5. CASE CloseReturns
    <2>1. closing # "no"
      BY <1>5 DEF CloseReturns
    <2> QED  BY <1>5, <2>1 DEF CloseReturns, ExportInv, ExportTyped, StopIsLast, NoneIsLost
  <1>6. CASE Take
    BY <1>6, TakeStep
  <1>7. CASE Collect
    BY <1>7, CollectStep
  <1>8. CASE StopCollecting
    BY <1>8 DEF StopCollecting, ExportInv, ExportTyped, StopIsLast, NoneIsLost
  <1>9. CASE SendBatch
    BY <1>9, SendStep
  <1> QED  BY <1>1, <1>2, <1>3, <1>4, <1>5, <1>6, <1>7, <1>8, <1>9 DEF ExportNext

(***************************************************************************)
(* Whatever the emitting threads do while close() runs, and for queues and *)
(* batches of any size: an exporter whose thread has ended tried to send   *)
(* every event it had accepted, and none that it had refused.              *)
(***************************************************************************)
THEOREM AcceptedEventsAreTried == ExportSpec => []AcceptedIsTried
  <1>1. ExportInv => AcceptedIsTried
    BY ElementsOfNone DEF ExportInv, StopIsLast, NoneIsLost, AcceptedIsTried
  <1> QED  BY <1>1, ExportStarts, ExportNextHolds, PTL DEF ExportSpec

-----------------------------------------------------------------------------
(***************************************************************************)
(* Reports: what holds of the log, its backup and a walk over it.          *)
(***************************************************************************)
EventTypes == {"requested", "approved", "rejected", "issued", "used", "revoked", "set"}
LogEvent == [id : Nat \ {0}, type : EventTypes]
Item == [seq : Nat, id : Nat]

\* The positions of a log that a filter selects, and the events that show some of them.
Chosen(L, filter) == {i \in DOMAIN L : L[i].type \in Matches[filter]}

Shows(items, S, L) ==
    /\ items \in Seq(Item)
    /\ \A i \in DOMAIN items : items[i].seq \in S /\ items[i].id = L[items[i].seq].id
    /\ \A p \in S : \E i \in DOMAIN items : items[i].seq = p
    /\ \A i, j \in DOMAIN items : i < j => items[i].seq < items[j].seq


\* Two logs with a common event have it at one place, and the same history before it.
Agree(L, M) ==
    \A i \in DOMAIN L, j \in DOMAIN M : L[i].id = M[j].id => i = j /\ \A k \in 1..i : L[k] = M[k]

Known(L, given) == L \in Seq(LogEvent) /\ \A i \in DOMAIN L : L[i].id <= given

\* A log that still starts with an earlier one.
Continues(L, past) == DOMAIN past \in SUBSET DOMAIN L /\ \A i \in DOMAIN past : L[i] = past[i]

ObjectStates ==
    {o \in [request : {"pending", "approved", "rejected"}, grant : {"none", "active", "revoked"},
            boundary : {"enabled", "disabled"}] :
        o.request = "approved" => o.grant # "none"}

\* The log and the backup are two histories with one past; an approved request has its grant.
LogsInv ==
    /\ written \in Nat /\ restores \in Nat
    /\ objects \in ObjectStates /\ backup \in [log : Seq(LogEvent), objects : ObjectStates]
    /\ Known(log, written) /\ Known(backup.log, written)
    /\ Agree(log, log) /\ Agree(log, backup.log) /\ Agree(backup.log, backup.log)

CallRecords ==
    [pc : {"idle", "walk", "grant", "done", "alarm", "refused", "failed"}, kind : Filters \cup {"none"},
     issued : BOOLEAN, filter : Filters, snapshot : Nat, before : Nat, walked : Seq(Item), first : Seq(Item),
     timeline : Seq(Item), seen : SUBSET Nat, expected : Seq(Item), since : Nat]

\* What the first of two walks showed.
Earlier(c) == IF c.issued /\ c.filter = "grant" THEN Ids(c.first) ELSE {}

\* No page has been read: the log holds what the objects showed.
Unread(c, L, r) ==
    /\ c.snapshot = NoCursor /\ c.before = NoCursor /\ c.walked = <<>>
    /\ c.since = r => c.seen \subseteq Earlier(c) \cup {L[i].id : i \in Chosen(L, c.filter)}

\* The walk has come down from top to low in the log its first page was read from.
WalkedTo(c, L, B, given, r, past, top, low) ==
    /\ Known(past, given) /\ Agree(past, L) /\ Agree(past, B)
    /\ top \in Chosen(past, c.filter) /\ \A i \in Chosen(past, c.filter) : i <= top
    /\ low \in Chosen(past, c.filter) /\ \E i \in Chosen(past, c.filter) : i < low
    /\ c.snapshot = past[top].id /\ c.before = past[low].id
    /\ Shows(c.expected, Chosen(past, c.filter), past)
    /\ Shows(c.walked, {i \in Chosen(past, c.filter) : i >= low}, past)
    /\ c.since = r => Continues(L, past) /\ c.seen \subseteq Earlier(c) \cup Ids(c.expected)

\* The first of two walks, kept while the grant is read: still part of an unreplaced log.
Kept(c, L, r) ==
    /\ \A i, j \in DOMAIN c.first : c.first[i].seq = c.first[j].seq => c.first[i] = c.first[j]
    /\ c.since = r => \A i \in DOMAIN c.first :
                          c.first[i].seq \in DOMAIN L /\ L[c.first[i].seq].id = c.first[i].id

CallHolds(c, L, B, given, r, o) ==
    /\ c \in CallRecords /\ c.since <= r /\ (c.issued => c.filter # "boundary")
    /\ c.pc = "walk" => \/ Unread(c, L, r)
                        \/ \E past, top, low : WalkedTo(c, L, B, given, r, past, top, low)
    /\ c.pc = "walk" /\ c.issued /\ c.filter = "grant" => Kept(c, L, r)
    /\ c.pc = "grant" => /\ c.issued /\ c.filter = "request"
                         /\ c.first = c.walked /\ c.walked = c.expected /\ Kept(c, L, r)
                         /\ c.since = r => c.seen \subseteq Ids(c.first)
    /\ c.pc = "done" => /\ c.walked = c.expected
                        /\ c.since = r => c.seen \subseteq Ids(c.timeline)
    /\ c.pc \in {"walk", "grant"} /\ c.issued /\ c.since = r => o.request = "approved"
    /\ c.since = r => c.pc \notin {"alarm", "refused"}

CallInv == CallHolds(call, log, backup.log, written, restores, objects)
-----------------------------------------------------------------------------
(***************************************************************************)
(* Ordering: how many of a finite set are smaller gives each its place.    *)
(***************************************************************************)
Rank(S, order, e) == Cardinality({d \in S : order[d] < order[e]})

LEMMA RankGrows ==
    ASSUME NEW S, IsFiniteSet(S), NEW order \in [S -> Int], NEW d \in S, NEW e \in S, order[d] < order[e]
    PROVE  Rank(S, order, d) < Rank(S, order, e)
  <1> DEFINE below(x) == {y \in S : order[y] < order[x]}
  <1>1. IsFiniteSet(below(d)) /\ IsFiniteSet(below(e))
    BY FS_Subset
  <1>2. d \notin below(d)
    OBVIOUS
  <1>3. Cardinality(below(d) \cup {d}) = Cardinality(below(d)) + 1
    <2> HIDE DEF below
    <2> QED  BY <1>1, <1>2, FS_AddElement
  <1>4. below(d) \cup {d} \in SUBSET below(e)
    OBVIOUS
  <1>5. Cardinality(below(d) \cup {d}) <= Cardinality(below(e))
    BY <1>1, <1>4, FS_Subset
  <1>6. Cardinality(below(d)) \in Nat /\ Cardinality(below(e)) \in Nat
    BY <1>1, FS_CardinalityType
  <1> QED  BY <1>3, <1>5, <1>6 DEF Rank

LEMMA RankFits ==
    ASSUME NEW S, IsFiniteSet(S), NEW order \in [S -> Int], NEW e \in S
    PROVE  Rank(S, order, e) \in 0..(Cardinality(S) - 1)
  <1> DEFINE below == {y \in S : order[y] < order[e]}
  <1>1. below \in SUBSET (S \ {e})
    OBVIOUS
  <1>2. IsFiniteSet(S \ {e}) /\ Cardinality(S \ {e}) = Cardinality(S) - 1
    BY FS_RemoveElement
  <1>3. Cardinality(below) <= Cardinality(S \ {e}) /\ IsFiniteSet(below)
    BY <1>1, <1>2, FS_Subset
  <1>4. Cardinality(below) \in Nat /\ Cardinality(S) \in Nat
    BY <1>3, FS_CardinalityType
  <1> QED  BY <1>2, <1>3, <1>4 DEF Rank

LEMMA RanksDiffer ==
    ASSUME NEW S, IsFiniteSet(S), NEW order \in [S -> Int], \A d, e \in S : order[d] = order[e] => d = e,
           NEW d \in S, NEW e \in S, Rank(S, order, d) = Rank(S, order, e)
    PROVE  d = e
  <1>1. Rank(S, order, d) \in Int /\ Rank(S, order, e) \in Int
    BY RankFits
  <1>2. ~(order[d] < order[e]) /\ ~(order[e] < order[d])
    BY <1>1, RankGrows
  <1>3. order[d] \in Int /\ order[e] \in Int
    OBVIOUS
  <1> QED  BY <1>2, <1>3

LEMMA RanksAreTaken ==
    ASSUME NEW S, IsFiniteSet(S), NEW order \in [S -> Int], \A d, e \in S : order[d] = order[e] => d = e,
           NEW n \in 0..(Cardinality(S) - 1)
    PROVE  \E e \in S : Rank(S, order, e) = n
  <1>1. PICK f : f = [e \in S |-> Rank(S, order, e)]
    OBVIOUS
  <1>2. Cardinality(S) \in Nat
    BY FS_CardinalityType
  <1>3. PICK R : R = 0..(Cardinality(S) - 1)
    OBVIOUS
  <1>4. IsFiniteSet(R) /\ Cardinality(R) = Cardinality(S)
    BY <1>2, <1>3, FS_Interval
  <1>5. f \in [S -> R]
    BY <1>1, <1>3, RankFits
  <1>6. \A d, e \in S : f[d] = f[e] => d = e
    BY <1>1, RanksDiffer
  <1>7. f \in Injection(S, R)
    BY <1>5, <1>6 DEF Injection, IsInjective
  <1>8. f \in Surjection(S, R)
    BY <1>4, <1>7, FS_Injection
  <1>9. \E e \in S : f[e] = n
    BY <1>3, <1>8 DEF Surjection
  <1> QED  BY <1>1, <1>9

\* As many elements have a small rank as there are small ranks.
Small(S, order, n) == {e \in S : Rank(S, order, e) < n}

Orders(order, S) == order \in [S -> Int] /\ \A d, e \in S : order[d] = order[e] => d = e

LEMMA SmallRanks ==
    ASSUME NEW S, IsFiniteSet(S), NEW order, Orders(order, S), NEW n \in Nat
    PROVE  /\ Cardinality(S) < n => Cardinality(Small(S, order, n)) = Cardinality(S)
           /\ ~(Cardinality(S) < n) => Cardinality(Small(S, order, n)) = n
  <1> USE DEF Orders
  <1>1. PICK small : small = Small(S, order, n)
    OBVIOUS
  <1>2. \A e : e \in small <=> e \in S /\ Rank(S, order, e) < n
    BY <1>1 DEF Small
  <1>3. Cardinality(S) \in Nat
    BY FS_CardinalityType
  <1>4. PICK m \in Nat : m = IF Cardinality(S) < n THEN Cardinality(S) ELSE n
    BY <1>3
  <1>5. PICK R : R = 0..(m - 1)
    OBVIOUS
  <1>6. IsFiniteSet(R) /\ Cardinality(R) = m
    BY <1>5, FS_Interval
  <1>7. PICK f : f = [e \in small |-> Rank(S, order, e)]
    OBVIOUS
  <1>8. \A e \in S : Rank(S, order, e) \in 0..(Cardinality(S) - 1)
    BY RankFits
  <1>9. f \in [small -> R]
    BY <1>3, <1>4, <1>5, <1>7, <1>8, <1>2
  <1>10. f \in Injection(small, R)
    BY <1>7, <1>9, <1>2, RanksDiffer DEF Injection, IsInjective
  <1>11. ASSUME NEW k \in R  PROVE \E e \in small : f[e] = k
    <2>1. k \in 0..(Cardinality(S) - 1) /\ k < n
      BY <1>3, <1>4, <1>5
    <2>2. PICK e \in S : Rank(S, order, e) = k
      BY <2>1, RanksAreTaken
    <2> QED  BY <1>7, <1>2, <2>1, <2>2
  <1>12. f \in Surjection(small, R)
    BY <1>9, <1>11 DEF Surjection
  <1>13. Cardinality(small) = Cardinality(R)
    BY <1>6, <1>10, <1>12, FS_Injection
  <1> QED  BY <1>4, <1>6, <1>13, <1>1

LEMMA InOrderFacts ==
    ASSUME NEW E \in SUBSET Item, IsFiniteSet(E), \A d, e \in E : d.seq = e.seq => d = e
    PROVE  /\ InOrder(E) \in Seq(Item)
           /\ \A k \in DOMAIN InOrder(E) : InOrder(E)[k] \in E
           /\ \A e \in E : \E k \in DOMAIN InOrder(E) : InOrder(E)[k] = e
           /\ \A i, j \in DOMAIN InOrder(E) : i < j => InOrder(E)[i].seq < InOrder(E)[j].seq
  <1>1. PICK order : order = [e \in E |-> e.seq]
    OBVIOUS
  <1>2. order \in [E -> Int] /\ \A d, e \in E : order[d] = order[e] => d = e
    BY <1>1 DEF Item
  <1>3. ASSUME NEW e \in E  PROVE Cardinality({d \in E : d.seq < e.seq}) = Rank(E, order, e)
    <2>1. {d \in E : d.seq < e.seq} = {d \in E : order[d] < order[e]}
      BY <1>1
    <2> QED  BY <2>1 DEF Rank
  <1>4. PICK n \in Nat : n = Cardinality(E)
    BY FS_CardinalityType
  <1>5. PICK s : s = InOrder(E)
    OBVIOUS
  <1>6. DOMAIN s = 1..n
    BY <1>4, <1>5 DEF InOrder
  <1>7. ASSUME NEW k \in 1..n  PROVE s[k] \in E /\ Rank(E, order, s[k]) = k - 1
    <2>1. s[k] = CHOOSE e \in E : Cardinality({d \in E : d.seq < e.seq}) = k - 1
      BY <1>4, <1>5 DEF InOrder
    <2>2. k - 1 \in 0..(Cardinality(E) - 1)
      BY <1>4
    <2>3. \E e \in E : Rank(E, order, e) = k - 1
      BY <1>2, <2>2, RanksAreTaken
    <2>4. \E e \in E : Cardinality({d \in E : d.seq < e.seq}) = k - 1
      BY <1>3, <2>3
    <2>5. s[k] \in E /\ Cardinality({d \in E : d.seq < s[k].seq}) = k - 1
      BY <2>1, <2>4
    <2> QED  BY <1>3, <2>5
  <1>8. s \in Seq(Item)
    <2> DEFINE place(k) == CHOOSE e \in E : Cardinality({d \in E : d.seq < e.seq}) = k - 1
    <2>1. s = [k \in 1..n |-> place(k)]
      BY <1>4, <1>5 DEF InOrder
    <2> HIDE DEF place
    <2>2. \A k \in 1..n : place(k) \in Item
      BY <1>7, <2>1
    <2>3. s \in [1..n -> Item]
      BY <2>1, <2>2
    <2> QED  BY <1>4, <2>3
  <1>9. ASSUME NEW e \in E  PROVE \E k \in 1..n : s[k] = e
    <2>1. Rank(E, order, e) \in 0..(Cardinality(E) - 1)
      BY <1>2, RankFits
    <2>2. PICK k \in 1..n : k = Rank(E, order, e) + 1
      BY <1>4, <2>1
    <2>3. s[k] \in E /\ Rank(E, order, s[k]) = Rank(E, order, e)
      BY <1>7, <2>1, <2>2
    <2> QED  BY <1>2, <2>2, <2>3, RanksDiffer
  <1>10. ASSUME NEW i \in 1..n, NEW j \in 1..n, i < j  PROVE s[i].seq < s[j].seq
    <2>1. /\ s[i] \in E /\ s[j] \in E
          /\ Rank(E, order, s[i]) = i - 1 /\ Rank(E, order, s[j]) = j - 1
      BY <1>7
    <2>2. ~(order[s[j]] < order[s[i]])
      BY <1>2, <1>10, <2>1, RankGrows
    <2>3. order[s[i]] # order[s[j]]
      BY <1>2, <1>10, <2>1
    <2>4. order[s[i]] \in Int /\ order[s[j]] \in Int
      BY <1>2, <2>1
    <2> QED  BY <1>1, <2>1, <2>2, <2>3, <2>4
  <1> QED  BY <1>5, <1>6, <1>7, <1>8, <1>9, <1>10

\* The k-th event of a showing has k - 1 positions before it.
LEMMA ShownRank ==
    ASSUME NEW items, NEW S \in SUBSET Nat, NEW L, Shows(items, S, L), NEW k \in DOMAIN items
    PROVE  Cardinality({p \in S : p < items[k].seq}) = k - 1
  <1>1. items \in Seq(Item) /\ DOMAIN items = 1..Len(items) /\ Len(items) \in Nat
    BY LenProperties DEF Shows
  <1>2. PICK f : f = [j \in 1..(k - 1) |-> items[j].seq]
    OBVIOUS
  <1>3. PICK below : below = {p \in S : p < items[k].seq}
    OBVIOUS
  <1>4. \A j \in 1..(k - 1) : j \in DOMAIN items /\ j < k
    BY <1>1
  <1>5. f \in [1..(k - 1) -> below]
    BY <1>2, <1>3, <1>4 DEF Shows
  <1>6. ASSUME NEW i \in 1..(k - 1), NEW j \in 1..(k - 1), f[i] = f[j]  PROVE i = j
    <2>1. f[i] = items[i].seq /\ f[j] = items[j].seq /\ i \in DOMAIN items /\ j \in DOMAIN items
      BY <1>2, <1>4
    <2>2. items[i].seq \in Nat /\ items[j].seq \in Nat
      BY <2>1 DEF Shows
    <2>3. (i < j => items[i].seq < items[j].seq) /\ (j < i => items[j].seq < items[i].seq)
      BY <2>1 DEF Shows
    <2>4. i = j \/ i < j \/ j < i
      BY <1>1
    <2>5. items[i].seq = items[j].seq
      BY <1>6, <2>1
    <2> QED  BY <2>2, <2>3, <2>4, <2>5
  <1>7. ASSUME NEW p \in below  PROVE \E j \in 1..(k - 1) : f[j] = p
    <2>1. PICK j \in DOMAIN items : items[j].seq = p
      BY <1>3, <1>7 DEF Shows
    <2>2. p \in Nat /\ items[k].seq \in Nat /\ p < items[k].seq
      BY <1>3, <1>7 DEF Shows
    <2>3. j # k /\ ~(k < j)
      BY <2>1, <2>2 DEF Shows
    <2>4. j \in 1..(k - 1)
      BY <1>1, <2>3
    <2> QED  BY <1>2, <2>1, <2>4
  <1>8. f \in Bijection(1..(k - 1), below)
    BY <1>5, <1>6, <1>7 DEF Bijection, Injection, Surjection, IsInjective
  <1>9. k - 1 \in Nat
    BY <1>1
  <1>10. IsFiniteSet(1..(k - 1)) /\ Cardinality(1..(k - 1)) = k - 1
    BY <1>9, FS_Interval
  <1>11. Cardinality(below) = Cardinality(1..(k - 1))
    BY <1>8, <1>10, FS_Bijection DEF ExistsBijection
  <1> QED  BY <1>3, <1>10, <1>11

LEMMA ShowsOnce ==
    ASSUME NEW one, NEW two, NEW S \in SUBSET Nat, IsFiniteSet(S), NEW L, Shows(one, S, L), Shows(two, S, L)
    PROVE  one = two
  <1>1. PICK order : order = [p \in S |-> p]
    OBVIOUS
  <1>2. order \in [S -> Int] /\ \A d, e \in S : order[d] = order[e] => d = e
    BY <1>1
  <1>3. ASSUME NEW p \in S  PROVE Rank(S, order, p) = Cardinality({q \in S : q < p})
    <2>1. {q \in S : order[q] < order[p]} = {q \in S : q < p}
      BY <1>1
    <2> QED  BY <2>1 DEF Rank
  <1>4. /\ one \in Seq(Item) /\ DOMAIN one = 1..Len(one) /\ Len(one) \in Nat
        /\ two \in Seq(Item) /\ DOMAIN two = 1..Len(two) /\ Len(two) \in Nat
    BY LenProperties DEF Shows
  <1>5. ASSUME NEW i \in DOMAIN one, NEW j \in DOMAIN two  PROVE one[i].seq = two[j].seq <=> i = j
    <2>1. one[i].seq \in S /\ two[j].seq \in S
      BY DEF Shows
    <2>2. Rank(S, order, one[i].seq) = i - 1 /\ Rank(S, order, two[j].seq) = j - 1
      BY <1>3, <2>1, ShownRank
    <2>3. i = j => one[i].seq = two[j].seq
      BY <1>2, <2>1, <2>2, RanksDiffer
    <2> QED  BY <1>4, <2>2, <2>3
  <1>6. DOMAIN one = DOMAIN two
    <2>1. ASSUME NEW i \in DOMAIN one  PROVE i \in DOMAIN two
      <3>1. \E j \in DOMAIN two : two[j].seq = one[i].seq
        BY DEF Shows
      <3> QED  BY <1>5, <3>1
    <2>2. ASSUME NEW j \in DOMAIN two  PROVE j \in DOMAIN one
      <3>1. \E i \in DOMAIN one : one[i].seq = two[j].seq
        BY DEF Shows
      <3> QED  BY <1>5, <3>1
    <2> QED  BY <2>1, <2>2
  <1>7. ASSUME NEW i \in DOMAIN one  PROVE one[i] = two[i]
    <2>1. one[i] \in Item /\ two[i] \in Item
      BY <1>4, <1>6, ElementOfSeq
    <2>2. one[i].seq = two[i].seq
      BY <1>5, <1>6
    <2>3. one[i].id = L[one[i].seq].id /\ two[i].id = L[two[i].seq].id
      BY <1>6 DEF Shows
    <2> QED  BY <2>1, <2>2, <2>3 DEF Item
  <1>8. Len(one) = Len(two)
    <2>1. Len(one) > 0 => Len(one) \in DOMAIN two
      BY <1>4, <1>6
    <2>2. Len(two) > 0 => Len(two) \in DOMAIN one
      BY <1>4, <1>6
    <2>3. Len(one) > 0 => Len(one) <= Len(two)
      BY <1>4, <2>1
    <2>4. Len(two) > 0 => Len(two) <= Len(one)
      BY <1>4, <2>2
    <2>5. Len(one) \in Nat /\ Len(two) \in Nat
      BY <1>4
    <2> QED  BY <2>3, <2>4, <2>5
  <1>9. \A i \in 1..Len(one) : one[i] = two[i]
    BY <1>4, <1>7
  <1> QED  BY <1>4, <1>8, <1>9, SeqEqual

LEMMA ShowsBoth ==
    ASSUME NEW one, NEW two, NEW A \in SUBSET Nat, NEW B \in SUBSET Nat, NEW L,
           Shows(one, A, L), Shows(two, B, L), \A p \in A, q \in B : p < q
    PROVE  Shows(one \o two, A \cup B, L)
  <1>1. /\ one \in Seq(Item) /\ DOMAIN one = 1..Len(one) /\ Len(one) \in Nat
        /\ two \in Seq(Item) /\ DOMAIN two = 1..Len(two) /\ Len(two) \in Nat
    BY LenProperties DEF Shows
  <1>2. PICK both : both = one \o two
    OBVIOUS
  <1>3. /\ both \in Seq(Item) /\ DOMAIN both = 1..(Len(one) + Len(two))
        /\ \A i \in 1..Len(one) : both[i] = one[i]
        /\ \A i \in 1..Len(two) : both[Len(one) + i] = two[i]
    BY <1>1, <1>2
  <1>4. ASSUME NEW i \in DOMAIN both
        PROVE  \/ i \in DOMAIN one /\ both[i] = one[i]
               \/ i - Len(one) \in DOMAIN two /\ both[i] = two[i - Len(one)] /\ i > Len(one)
    <2>1. CASE i <= Len(one)
      BY <1>1, <1>3, <2>1
    <2>2. CASE i > Len(one)
      <3>1. PICK j \in 1..Len(two) : i = Len(one) + j
        <4>1. i - Len(one) \in 1..Len(two) /\ i = Len(one) + (i - Len(one))
          BY <1>1, <1>3, <2>2
        <4> QED  BY <4>1
      <3> QED  BY <1>1, <1>3, <2>2, <3>1
    <2> QED  BY <1>1, <1>3, <2>1, <2>2
  <1>5. ASSUME NEW i \in DOMAIN both  PROVE both[i].seq \in A \cup B /\ both[i].id = L[both[i].seq].id
    BY <1>4 DEF Shows
  <1>6. ASSUME NEW p \in A \cup B  PROVE \E i \in DOMAIN both : both[i].seq = p
    <2>1. CASE p \in A
      <3>1. PICK i \in DOMAIN one : one[i].seq = p
        BY <2>1 DEF Shows
      <3> QED  BY <1>1, <1>3, <3>1
    <2>2. CASE p \in B
      <3>1. PICK i \in DOMAIN two : two[i].seq = p
        BY <2>2 DEF Shows
      <3>2. Len(one) + i \in DOMAIN both /\ both[Len(one) + i] = two[i]
        BY <1>1, <1>3
      <3> QED  BY <3>1, <3>2
    <2> QED  BY <2>1, <2>2
  <1>7. ASSUME NEW i \in DOMAIN both, NEW j \in DOMAIN both, i < j  PROVE both[i].seq < both[j].seq
    <2>1. CASE i \in DOMAIN one /\ both[i] = one[i] /\ j \in DOMAIN one /\ both[j] = one[j]
      BY <1>7, <2>1 DEF Shows
    <2>2. CASE /\ i \in DOMAIN one /\ both[i] = one[i]
               /\ j - Len(one) \in DOMAIN two /\ both[j] = two[j - Len(one)]
      BY <2>2 DEF Shows
    <2>3. CASE /\ i - Len(one) \in DOMAIN two /\ both[i] = two[i - Len(one)]
               /\ j - Len(one) \in DOMAIN two /\ both[j] = two[j - Len(one)]
      <3>1. i - Len(one) < j - Len(one)
        BY <1>1, <1>3, <1>7
      <3> QED  BY <2>3, <3>1 DEF Shows
    <2>4. ~(j \in DOMAIN one /\ i > Len(one))
      BY <1>1, <1>3, <1>7
    <2> QED  BY <1>4, <2>1, <2>2, <2>3, <2>4
  <1> QED  BY <1>2, <1>3, <1>5, <1>6, <1>7 DEF Shows

LEMMA ShowsElsewhere ==
    ASSUME NEW items, NEW S, NEW L, NEW M, Shows(items, S, L), \A p \in S : M[p].id = L[p].id
    PROVE  Shows(items, S, M)
  BY DEF Shows

LEMMA ShownIds ==
    ASSUME NEW items, NEW S, NEW L, Shows(items, S, L)
    PROVE  Ids(items) = {L[p].id : p \in S}
  <1>1. \A i \in DOMAIN items : items[i].seq \in S /\ items[i].id = L[items[i].seq].id
    BY DEF Shows
  <1>2. \A p \in S : \E i \in DOMAIN items : items[i].seq = p
    BY DEF Shows
  <1> QED  BY <1>1, <1>2 DEF Ids

LEMMA ShownInSequence ==
    ASSUME NEW items, NEW S, NEW L, Shows(items, S, L)
    PROVE  InSequence(items)
  <1>1. items \in Seq(Item) /\ DOMAIN items = 1..Len(items) /\ Len(items) \in Nat
    BY LenProperties DEF Shows
  <1>2. \A i, j \in DOMAIN items : i < j => items[i].seq < items[j].seq
    BY DEF Shows
  <1>3. \A i \in 1..(Len(items) - 1) : i \in DOMAIN items /\ i + 1 \in DOMAIN items /\ i < i + 1
    BY <1>1
  <1> QED  BY <1>2, <1>3 DEF InSequence

LEMMA ShownEnds ==
    ASSUME NEW items, NEW S \in SUBSET Nat, NEW L, Shows(items, S, L), S # {}
    PROVE  /\ items # <<>>
           /\ Head(items).seq \in S /\ \A p \in S : Head(items).seq <= p
           /\ Last(items).seq \in S /\ \A p \in S : p <= Last(items).seq
           /\ Head(items).id = L[Head(items).seq].id /\ Last(items).id = L[Last(items).seq].id
  <1>1. items \in Seq(Item) /\ DOMAIN items = 1..Len(items) /\ Len(items) \in Nat
    BY LenProperties DEF Shows
  <1>2. DOMAIN items # {}
    BY DEF Shows
  <1>3. 1 \in DOMAIN items /\ Len(items) \in DOMAIN items
    BY <1>1, <1>2
  <1>4. items # <<>> /\ Head(items) = items[1] /\ Last(items) = items[Len(items)]
    BY <1>1, <1>2, <1>3 DEF Last
  <1>5. ASSUME NEW p \in S  PROVE items[1].seq <= p /\ p <= items[Len(items)].seq
    <2>1. PICK i \in DOMAIN items : items[i].seq = p
      BY DEF Shows
    <2>2. 1 = i \/ 1 < i
      BY <1>1
    <2>3. i = Len(items) \/ i < Len(items)
      BY <1>1
    <2>4. items[1].seq = p \/ items[1].seq < p
      BY <1>3, <2>1, <2>2 DEF Shows
    <2>5. items[Len(items)].seq = p \/ p < items[Len(items)].seq
      BY <1>3, <2>1, <2>3 DEF Shows
    <2>6. items[1].seq \in Nat /\ items[Len(items)].seq \in Nat
      BY <1>3 DEF Shows
    <2> QED  BY <2>4, <2>5, <2>6
  <1> QED  BY <1>3, <1>4, <1>5 DEF Shows

LEMMA ShowsNothing ==
    ASSUME NEW items, NEW L, Shows(items, {}, L)
    PROVE  items = <<>>
  <1>1. items \in Seq(Item) /\ DOMAIN items = 1..Len(items) /\ Len(items) \in Nat
    BY LenProperties DEF Shows
  <1>2. DOMAIN items = {}
    BY DEF Shows
  <1>3. Len(items) = 0
    BY <1>1, <1>2
  <1> QED  BY <1>1, <1>3, EmptySeq

-----------------------------------------------------------------------------
\* The newest n of a set are the n with the fewest newer ones.
LEMMA NewestRanks ==
    ASSUME NEW S \in SUBSET Nat, IsFiniteSet(S), NEW n \in Nat
    PROVE  /\ Newest(S, n) \in SUBSET S /\ IsFiniteSet(Newest(S, n))
           /\ Cardinality(S) < n => Cardinality(Newest(S, n)) = Cardinality(S)
           /\ ~(Cardinality(S) < n) => Cardinality(Newest(S, n)) = n
           /\ Cardinality(S) <= n => Newest(S, n) = S
           /\ \A i \in Newest(S, n), j \in S : i < j => j \in Newest(S, n)
  <1>1. PICK order : order = [i \in S |-> 0 - i]
    OBVIOUS
  <1>2. order \in [S -> Int] /\ \A d, e \in S : order[d] = order[e] => d = e
    BY <1>1
  <1>3. ASSUME NEW i \in S  PROVE Rank(S, order, i) = Cardinality({j \in S : j > i})
    <2>1. \A j \in S : order[j] < order[i] <=> j > i
      <3>1. ASSUME NEW j \in S  PROVE order[j] < order[i] <=> j > i
        <4>1. order[j] = 0 - j /\ order[i] = 0 - i /\ i \in Nat /\ j \in Nat
          BY <1>1
        <4> QED  BY <4>1
      <3> QED  BY <3>1
    <2>2. {j \in S : order[j] < order[i]} = {j \in S : j > i}
      BY <2>1
    <2> QED  BY <2>2 DEF Rank
  <1>4. Newest(S, n) = {i \in S : Rank(S, order, i) < n}
    BY <1>3 DEF Newest
  <1>5. Newest(S, n) \in SUBSET S /\ IsFiniteSet(Newest(S, n))
    <2>1. Newest(S, n) \in SUBSET S
      BY <1>4
    <2> QED  BY <2>1, FS_Subset
  <1>6. /\ Cardinality(S) < n => Cardinality(Newest(S, n)) = Cardinality(S)
        /\ ~(Cardinality(S) < n) => Cardinality(Newest(S, n)) = n
    <2>1. Newest(S, n) = Small(S, order, n)
      BY <1>4 DEF Small
    <2>2. Orders(order, S)
      BY <1>2 DEF Orders
    <2> QED  BY <2>1, <2>2, SmallRanks
  <1>7. Cardinality(S) <= n => Newest(S, n) = S
    <2>1. \A i \in S : Rank(S, order, i) \in 0..(Cardinality(S) - 1)
      BY <1>2, RankFits
    <2>2. Cardinality(S) \in Nat
      BY FS_CardinalityType
    <2>3. Cardinality(S) <= n => \A i \in S : Rank(S, order, i) < n
      BY <2>1, <2>2
    <2> QED  BY <1>4, <2>3
  <1>8. ASSUME NEW i \in Newest(S, n), NEW j \in S, i < j  PROVE j \in Newest(S, n)
    <2>1. i \in S /\ Rank(S, order, i) < n
      BY <1>4
    <2>2. order[j] < order[i]
      BY <1>1, <1>8, <2>1
    <2>3. Rank(S, order, j) < Rank(S, order, i)
      BY <1>2, <2>1, <2>2, RankGrows
    <2>4. Rank(S, order, j) \in 0..(Cardinality(S) - 1) /\ Rank(S, order, i) \in 0..(Cardinality(S) - 1)
      BY <1>2, <2>1, RankFits
    <2>5. Rank(S, order, j) < n
      BY <2>1, <2>3, <2>4
    <2> QED  BY <1>4, <2>5
  <1> QED  BY <1>5, <1>6, <1>7, <1>8

\* A page is all there is, or the newest part of it and not everything.
LEMMA PageOfRows ==
    ASSUME NEW S \in SUBSET Nat, IsFiniteSet(S), NEW n \in Nat \ {0}, NEW rows, rows = Newest(S, n + 1),
           NEW page, page = Newest(rows, n)
    PROVE  /\ page \in SUBSET S
           /\ ~(Cardinality(rows) > n) => page = S
           /\ Cardinality(rows) > n =>
                page # {} /\ (\E j \in S : j \notin page) /\ \A i \in page, j \in S \ page : j < i
  <1>1. Cardinality(S) \in Nat /\ n \in Nat /\ n + 1 \in Nat
    BY FS_CardinalityType
  <1>2. /\ rows \in SUBSET S /\ IsFiniteSet(rows)
        /\ Cardinality(S) < n + 1 => Cardinality(rows) = Cardinality(S)
        /\ ~(Cardinality(S) < n + 1) => Cardinality(rows) = n + 1
        /\ Cardinality(S) <= n + 1 => rows = S
        /\ \A i \in rows, j \in S : i < j => j \in rows
    BY <1>1, NewestRanks
  <1>3. rows \in SUBSET Nat
    BY <1>2
  <1>4. /\ page \in SUBSET rows /\ IsFiniteSet(page)
        /\ Cardinality(rows) < n => Cardinality(page) = Cardinality(rows)
        /\ ~(Cardinality(rows) < n) => Cardinality(page) = n
        /\ Cardinality(rows) <= n => page = rows
        /\ \A i \in page, j \in rows : i < j => j \in page
    BY <1>1, <1>2, <1>3, NewestRanks
  <1>5. CASE ~(Cardinality(rows) > n)
    <2>1. Cardinality(S) <= n /\ Cardinality(rows) <= n
      BY <1>1, <1>2, <1>5
    <2> QED  BY <1>1, <1>2, <1>4, <1>5, <2>1
  <1>6. CASE Cardinality(rows) > n
    <2>1. Cardinality(rows) = n + 1 /\ Cardinality(page) = n
      BY <1>1, <1>2, <1>4, <1>6
    <2>2. page # {}
      BY <1>1, <2>1, FS_EmptySet
    <2>3. page # rows
      BY <1>1, <2>1
    <2>4. \E j \in S : j \notin page
      BY <1>2, <1>4, <2>3
    <2>5. ASSUME NEW i \in page, NEW j \in S \ page  PROVE j < i
      <3>1. i \in Nat /\ j \in Nat /\ i # j /\ i \in rows
        BY <1>3, <1>4
      <3>2. ~(i < j)
        BY <1>2, <1>4, <3>1
      <3> QED  BY <3>1, <3>2
    <2> QED  BY <1>2, <1>4, <1>6, <2>2, <2>4, <2>5
  <1> QED  BY <1>5, <1>6

LEMMA EventsAtShows ==
    ASSUME log \in Seq(LogEvent), NEW S \in SUBSET DOMAIN log
    PROVE  Shows(EventsAt(S), S, log) /\ IsFiniteSet(S) /\ S \in SUBSET Nat
  <1>1. DOMAIN log = 1..Len(log) /\ Len(log) \in Nat
    BY LenProperties
  <1>2. IsFiniteSet(1..Len(log))
    BY <1>1, FS_Interval
  <1>3. IsFiniteSet(S) /\ S \in SUBSET Nat
    BY <1>1, <1>2, FS_Subset
  <1>4. PICK E : E = {[seq |-> i, id |-> log[i].id] : i \in S}
    OBVIOUS
  <1>5. PICK f : f = [i \in S |-> [seq |-> i, id |-> log[i].id]]
    OBVIOUS
  <1>6. f \in Surjection(S, E)
    BY <1>4, <1>5 DEF Surjection
  <1>7. IsFiniteSet(E)
    BY <1>3, <1>6, FS_Surjection
  <1>8. \A i \in S : log[i] \in LogEvent
    BY <1>1, ElementOfSeq
  <1>9. E \in SUBSET Item /\ \A d, e \in E : d.seq = e.seq => d = e
    BY <1>3, <1>4, <1>8 DEF LogEvent, Item
  <1>10. PICK s : s = InOrder(E)
    OBVIOUS
  <1>11. /\ s \in Seq(Item) /\ \A k \in DOMAIN s : s[k] \in E
         /\ \A e \in E : \E k \in DOMAIN s : s[k] = e
         /\ \A i, j \in DOMAIN s : i < j => s[i].seq < s[j].seq
    BY <1>7, <1>9, <1>10, InOrderFacts
  <1>12. \A k \in DOMAIN s : s[k].seq \in S /\ s[k].id = log[s[k].seq].id
    BY <1>4, <1>11
  <1>13. \A p \in S : \E k \in DOMAIN s : s[k].seq = p
    <2>1. ASSUME NEW p \in S  PROVE \E k \in DOMAIN s : s[k].seq = p
      <3>1. [seq |-> p, id |-> log[p].id] \in E
        BY <1>4
      <3>2. PICK k \in DOMAIN s : s[k] = [seq |-> p, id |-> log[p].id]
        BY <1>11, <3>1
      <3> QED  BY <3>2
    <2> QED  BY <2>1
  <1>14. s = EventsAt(S)
    BY <1>4, <1>10 DEF EventsAt
  <1>15. Shows(s, S, log)
    BY <1>11, <1>12, <1>13 DEF Shows
  <1> QED  BY <1>3, <1>14, <1>15

-----------------------------------------------------------------------------
\* An event of the log is found at its place.
LEMMA PositionOfEvent ==
    ASSUME log \in Seq(LogEvent), Agree(log, log), NEW i \in DOMAIN log
    PROVE  Position(log[i].id) = i /\ i \in Nat \ {0}
  <1>1. DOMAIN log = 1..Len(log) /\ Len(log) \in Nat
    BY LenProperties
  <1>2. \E j \in DOMAIN log : log[j].id = log[i].id
    OBVIOUS
  <1>3. \A j \in DOMAIN log : log[j].id = log[i].id => j = i
    BY DEF Agree
  <1>4. Position(log[i].id) = CHOOSE j \in DOMAIN log : log[j].id = log[i].id
    BY <1>2 DEF Position
  <1> QED  BY <1>1, <1>2, <1>3, <1>4

\* A cursor with a position is an event of the log.
LEMMA EventOfPosition ==
    ASSUME log \in Seq(LogEvent), Agree(log, log), NEW id, Position(id) # NoCursor
    PROVE  Position(id) \in DOMAIN log /\ log[Position(id)].id = id
  <1>1. PICK i \in DOMAIN log : log[i].id = id
    BY DEF Position
  <1> QED  BY <1>1, PositionOfEvent

\* A page shows all that was selected, or its newest part and the cursor to go on from.
LEMMA PageFacts ==
    ASSUME log \in Seq(LogEvent), NEW filter, NEW cursor, NEW before,
           NEW S, S = Selected(filter, cursor, before), NEW reply, reply = PageReply(filter, cursor, before)
    PROVE  \E page \in SUBSET S :
              /\ Shows(reply.events, page, log)
              /\ reply.snapshot = IF cursor = NoCursor /\ reply.events # <<>>
                                  THEN Last(reply.events).id ELSE cursor
              /\ \/ reply.next = NoCursor /\ page = S
                 \/ /\ page # {} /\ reply.next = Head(reply.events).id
                    /\ \E j \in S : j \notin page
                    /\ \A i \in page, j \in S \ page : j < i
  <1>1. S \in SUBSET DOMAIN log
    BY DEF Selected
  <1>2. IsFiniteSet(S) /\ S \in SUBSET Nat
    BY <1>1, EventsAtShows
  <1>3. PICK rows : rows = Newest(S, PageSize + 1)
    OBVIOUS
  <1>4. PICK page : page = Newest(rows, PageSize)
    OBVIOUS
  <1>5. /\ page \in SUBSET S
        /\ ~(Cardinality(rows) > PageSize) => page = S
        /\ Cardinality(rows) > PageSize =>
             page # {} /\ (\E j \in S : j \notin page) /\ \A i \in page, j \in S \ page : j < i
    <2>1. PICK n \in Nat \ {0} : n = PageSize
      BY ReportsAssumption
    <2>2. rows = Newest(S, n + 1) /\ page = Newest(rows, n)
      BY <1>3, <1>4, <2>1
    <2>3. /\ page \in SUBSET S
          /\ ~(Cardinality(rows) > n) => page = S
          /\ Cardinality(rows) > n =>
               page # {} /\ (\E j \in S : j \notin page) /\ \A i \in page, j \in S \ page : j < i
      BY <1>2, <2>2, PageOfRows
    <2> QED  BY <2>1, <2>3
  <1>6. /\ reply.events = EventsAt(page)
        /\ reply.snapshot = IF cursor = NoCursor /\ reply.events # <<>> THEN Last(reply.events).id ELSE cursor
        /\ reply.next = IF Cardinality(rows) > PageSize THEN Head(reply.events).id ELSE NoCursor
    BY <1>3, <1>4 DEF PageReply
  <1>7. Shows(reply.events, page, log)
    BY <1>1, <1>5, <1>6, EventsAtShows
  <1>8. CASE Cardinality(rows) > PageSize
    BY <1>5, <1>6, <1>7, <1>8
  <1>9. CASE ~(Cardinality(rows) > PageSize)
    BY <1>5, <1>6, <1>7, <1>9
  <1> QED  BY <1>8, <1>9

LEMMA SelectedFirst ==
    ASSUME NEW filter
    PROVE  Selected(filter, NoCursor, NoCursor) = Chosen(log, filter)
  BY DEF Selected, Chosen

\* The next page continues below the last, in the history of the first.
LEMMA SelectedNext ==
    ASSUME log \in Seq(LogEvent), Agree(log, log), NEW filter, NEW past \in Seq(LogEvent), Agree(past, log),
           NEW top \in Chosen(past, filter), NEW low \in Chosen(past, filter),
           \A i \in Chosen(past, filter) : i <= top,
           Position(past[top].id) # NoCursor
    PROVE  /\ top \in DOMAIN log /\ \A i \in 1..top : log[i] = past[i]
           /\ Position(past[top].id) = top /\ Position(past[low].id) = low
           /\ Selected(filter, past[top].id, past[low].id) = {i \in Chosen(past, filter) : i < low}
  <1>1. /\ DOMAIN log = 1..Len(log) /\ Len(log) \in Nat
        /\ DOMAIN past = 1..Len(past) /\ Len(past) \in Nat
    BY LenProperties
  <1>2. top \in DOMAIN past /\ low \in DOMAIN past /\ low <= top
    BY DEF Chosen
  <1>3. Position(past[top].id) \in DOMAIN log /\ log[Position(past[top].id)].id = past[top].id
    BY EventOfPosition
  <1>4. top = Position(past[top].id) /\ \A k \in 1..top : past[k] = log[k]
    BY <1>2, <1>3 DEF Agree
  <1>5. top \in DOMAIN log /\ \A i \in 1..top : log[i] = past[i]
    BY <1>3, <1>4
  <1>6. low \in 1..top /\ low \in DOMAIN log
    BY <1>1, <1>2, <1>5
  <1>7. Position(past[low].id) = low
    <2>1. Position(log[low].id) = low /\ log[low] = past[low]
      BY <1>5, <1>6, PositionOfEvent
    <2> QED  BY <2>1
  <1>8. past[top].id # NoCursor /\ past[low].id # NoCursor
    <2>1. past[top] \in LogEvent /\ past[low] \in LogEvent
      BY <1>1, <1>2, ElementOfSeq
    <2> QED  BY <2>1 DEF LogEvent, NoCursor
  <1>9. ASSUME NEW i  PROVE i \in Selected(filter, past[top].id, past[low].id) <=> i \in Chosen(past, filter) /\ i < low
    <2>1. i \in Selected(filter, past[top].id, past[low].id)
            <=> i \in DOMAIN log /\ log[i].type \in Matches[filter] /\ i <= top /\ i < low
      BY <1>4, <1>7, <1>8 DEF Selected
    <2>2. i \in Chosen(past, filter) <=> i \in DOMAIN past /\ past[i].type \in Matches[filter]
      BY DEF Chosen
    <2>3. (i \in DOMAIN log /\ i <= top) \/ (i \in DOMAIN past /\ i < low) => i \in 1..top
      BY <1>1, <1>2
    <2>4. i \in 1..top => i \in DOMAIN log /\ i \in DOMAIN past /\ log[i] = past[i] /\ i <= top
      BY <1>1, <1>2, <1>5
    <2> QED  BY <2>1, <2>2, <2>3, <2>4
  <1> QED  BY <1>4, <1>5, <1>7, <1>9

-----------------------------------------------------------------------------
LEMMA SameItem ==
    ASSUME NEW one \in Item, NEW two \in Item, one.seq = two.seq, one.id = two.id
    PROVE  one = two
  BY DEF Item

\* Two showings of an unreplaced log never disagree.
LEMMA NoDisagreement ==
    ASSUME log \in Seq(LogEvent), Agree(log, log), NEW one \in Seq(Item), NEW two \in Seq(Item),
           \A i \in DOMAIN one : one[i].seq \in DOMAIN log /\ log[one[i].seq].id = one[i].id,
           \A i \in DOMAIN two : two[i].seq \in DOMAIN log /\ log[two[i].seq].id = two[i].id
    PROVE  ~Disagree(one, two)
  <1>1. ASSUME NEW i \in DOMAIN one, NEW j \in DOMAIN two, one[i].id = two[j].id \/ one[i].seq = two[j].seq
        PROVE  one[i] = two[j]
    <2>1. one[i] \in Item /\ two[j] \in Item
      BY ElementOfSeq, LenProperties
    <2>2. one[i].seq = two[j].seq
      BY <1>1 DEF Agree
    <2>3. one[i].id = two[j].id
      BY <2>2
    <2> QED  BY <2>1, <2>2, <2>3, SameItem
  <1>2. ASSUME Disagree(one, two)  PROVE FALSE
    <2>1. PICK i \in DOMAIN one, j \in DOMAIN two :
             one[i] # two[j] /\ (one[i].id = two[j].id \/ one[i].seq = two[j].seq)
      BY <1>2 DEF Disagree
    <2> QED  BY <1>1, <2>1
  <1> QED  BY <1>2

\* What a sequence holds is finite.
LEMMA HeldIsFinite ==
    ASSUME NEW items \in Seq(Item)
    PROVE  IsFiniteSet(ToSet(items)) /\ ToSet(items) \in SUBSET Item
  <1>1. DOMAIN items = 1..Len(items) /\ Len(items) \in Nat /\ \A i \in DOMAIN items : items[i] \in Item
    BY LenProperties, ElementOfSeq
  <1>2. PICK D : D = DOMAIN items
    OBVIOUS
  <1>3. IsFiniteSet(D)
    BY <1>1, <1>2, FS_Interval
  <1>4. PICK f : f = [i \in D |-> items[i]]
    OBVIOUS
  <1>5. f \in Surjection(D, ToSet(items))
    BY <1>2, <1>4 DEF Surjection, ToSet
  <1>6. IsFiniteSet(ToSet(items))
    BY <1>3, <1>5, FS_Surjection
  <1> QED  BY <1>1, <1>6 DEF ToSet

\* Streams that do not disagree merge to all their events.
LEMMA MergeFacts ==
    ASSUME NEW one \in Seq(Item), NEW two \in Seq(Item), ~Disagree(one, two),
           \A i, j \in DOMAIN one : one[i].seq = one[j].seq => one[i] = one[j],
           \A i, j \in DOMAIN two : two[i].seq = two[j].seq => two[i] = two[j]
    PROVE  Merged(one, two) \in Seq(Item) /\ Ids(one) \cup Ids(two) \subseteq Ids(Merged(one, two))
  <1>1. PICK E : E = ToSet(one) \cup ToSet(two)
    OBVIOUS
  <1>2. IsFiniteSet(E) /\ E \in SUBSET Item
    BY <1>1, HeldIsFinite, FS_Union
  <1>3. ASSUME NEW d \in E, NEW e \in E, d.seq = e.seq  PROVE d = e
    <2>1. (\E i \in DOMAIN one : d = one[i]) \/ (\E i \in DOMAIN two : d = two[i])
      BY <1>1 DEF ToSet
    <2>2. (\E i \in DOMAIN one : e = one[i]) \/ (\E i \in DOMAIN two : e = two[i])
      BY <1>1 DEF ToSet
    <2>3. \A i \in DOMAIN one, j \in DOMAIN two : one[i].seq = two[j].seq => one[i] = two[j]
      BY DEF Disagree
    <2> QED  BY <1>3, <2>1, <2>2, <2>3
  <1>4. PICK s : s = InOrder(E)
    OBVIOUS
  <1>5. s \in Seq(Item) /\ \A e \in E : \E k \in DOMAIN s : s[k] = e
    BY <1>2, <1>3, <1>4, InOrderFacts
  <1>6. ASSUME NEW id \in Ids(one) \cup Ids(two)  PROVE id \in Ids(s)
    <2>1. PICK e \in E : e.id = id
      BY <1>1 DEF Ids, ToSet
    <2> QED  BY <1>5, <2>1 DEF Ids
  <1> QED  BY <1>1, <1>4, <1>5, <1>6 DEF Merged

LEMMA ShownApart ==
    ASSUME NEW items, NEW S \in SUBSET Nat, NEW L, Shows(items, S, L)
    PROVE  \A i, j \in DOMAIN items : items[i].seq = items[j].seq => items[i] = items[j]
  <1>1. items \in Seq(Item) /\ DOMAIN items = 1..Len(items) /\ Len(items) \in Nat
    BY LenProperties DEF Shows
  <1>2. ASSUME NEW i \in DOMAIN items, NEW j \in DOMAIN items, items[i].seq = items[j].seq
        PROVE  i = j
    <2>1. items[i].seq \in Nat /\ items[j].seq \in Nat
      BY DEF Shows
    <2>2. (i < j => items[i].seq < items[j].seq) /\ (j < i => items[j].seq < items[i].seq)
      BY DEF Shows
    <2>3. i = j \/ i < j \/ j < i
      BY <1>1
    <2> QED  BY <1>2, <2>1, <2>2, <2>3
  <1> QED  BY <1>2

\* The end of a walk that showed all it should.
LEMMA EndWalkHolds ==
    ASSUME LogsInv, NEW c \in CallRecords, c.pc = "walk", c.since <= restores,
           c.issued => c.filter # "boundary",
           c.issued /\ c.filter = "grant" => Kept(c, log, restores),
           c.issued /\ c.since = restores => objects.request = "approved",
           NEW past \in Seq(LogEvent), c.walked = c.expected, Shows(c.walked, Chosen(past, c.filter), past),
           c.since = restores => Continues(log, past) /\ c.seen \subseteq Earlier(c) \cup Ids(c.expected)
    PROVE  CallHolds(EndWalk(c), log, backup.log, written, restores, objects)
  <1>1. InSequence(c.walked)
    BY ShownInSequence
  <1>2. log \in Seq(LogEvent) /\ Agree(log, log)
    BY DEF LogsInv, Known
  <1>3. Chosen(past, c.filter) \in SUBSET Nat
    <2>1. DOMAIN past \in SUBSET Nat
      BY LenProperties
    <2> QED  BY <2>1 DEF Chosen
  <1>4. \A i, j \in DOMAIN c.walked : c.walked[i].seq = c.walked[j].seq => c.walked[i] = c.walked[j]
    BY <1>3, ShownApart
  <1>5. c.since = restores =>
          \A i \in DOMAIN c.walked :
              c.walked[i].seq \in DOMAIN log /\ log[c.walked[i].seq].id = c.walked[i].id
    <2>1. \A i \in DOMAIN c.walked :
            c.walked[i].seq \in Chosen(past, c.filter) /\ c.walked[i].id = past[c.walked[i].seq].id
      BY DEF Shows
    <2>2. \A p \in Chosen(past, c.filter) : p \in DOMAIN past
      BY DEF Chosen
    <2>3. c.since = restores => \A p \in DOMAIN past : p \in DOMAIN log /\ log[p] = past[p]
      BY DEF Continues
    <2> QED  BY <2>1, <2>2, <2>3
  <1>6. c.walked \in Seq(Item) /\ c.first \in Seq(Item)
    BY DEF CallRecords
  <1>7. CASE c.issued /\ c.filter = "request"
    <2>1. PICK d : d = [c EXCEPT !.pc = "grant", !.first = c.walked]
      OBVIOUS
    <2>2. EndWalk(c) = d
      BY <1>1, <1>7, <2>1 DEF EndWalk
    <2>3. d \in CallRecords
      BY <1>6, <2>1 DEF CallRecords
    <2>4. /\ d.pc = "grant" /\ d.first = c.walked /\ d.walked = c.walked /\ d.issued = c.issued
          /\ d.filter = c.filter /\ d.expected = c.expected /\ d.since = c.since /\ d.seen = c.seen
      BY <2>1 DEF CallRecords
    <2>5. Kept(d, log, restores)
      BY <1>4, <1>5, <2>4 DEF Kept
    <2>6. d.since = restores => d.seen \subseteq Ids(d.first)
      BY <1>7, <2>4 DEF Earlier
    <2> QED  BY <1>7, <2>2, <2>3, <2>4, <2>5, <2>6 DEF CallHolds
  <1>8. CASE ~c.issued
    <2>1. PICK d : d = [c EXCEPT !.pc = "done", !.timeline = c.walked]
      OBVIOUS
    <2>2. EndWalk(c) = d
      BY <1>1, <1>8, <2>1 DEF EndWalk, Finished
    <2>3. d \in CallRecords
      BY <1>6, <2>1 DEF CallRecords
    <2>4. /\ d.pc = "done" /\ d.timeline = c.walked /\ d.walked = c.walked /\ d.issued = c.issued
          /\ d.filter = c.filter /\ d.expected = c.expected /\ d.since = c.since /\ d.seen = c.seen
      BY <2>1 DEF CallRecords
    <2>5. d.since = restores => d.seen \subseteq Ids(d.timeline)
      BY <1>8, <2>4 DEF Earlier
    <2> QED  BY <1>8, <2>2, <2>3, <2>4, <2>5 DEF CallHolds
  <1>9. CASE c.issued /\ c.filter = "grant" /\ ~Disagree(c.first, c.walked)
    <2>1. PICK d : d = [c EXCEPT !.pc = "done", !.timeline = Merged(c.first, c.walked)]
      OBVIOUS
    <2>2. EndWalk(c) = d
      BY <1>1, <1>9, <2>1 DEF EndWalk, Finished
    <2>3. /\ Merged(c.first, c.walked) \in Seq(Item)
          /\ Ids(c.first) \cup Ids(c.walked) \subseteq Ids(Merged(c.first, c.walked))
      <3>1. \A i, j \in DOMAIN c.first : c.first[i].seq = c.first[j].seq => c.first[i] = c.first[j]
        BY <1>9 DEF Kept
      <3> QED  BY <1>4, <1>6, <1>9, <3>1, MergeFacts
    <2>4. d \in CallRecords
      BY <2>1, <2>3 DEF CallRecords
    <2>5. /\ d.pc = "done" /\ d.timeline = Merged(c.first, c.walked) /\ d.walked = c.walked
          /\ d.issued = c.issued /\ d.filter = c.filter /\ d.expected = c.expected
          /\ d.since = c.since /\ d.seen = c.seen
      BY <2>1 DEF CallRecords
    <2>6. d.since = restores => d.seen \subseteq Ids(d.timeline)
      BY <1>9, <2>3, <2>5 DEF Earlier
    <2> QED  BY <1>9, <2>2, <2>4, <2>5, <2>6 DEF CallHolds
  <1>10. CASE c.issued /\ c.filter = "grant" /\ Disagree(c.first, c.walked)
    <2>1. PICK d : d = [c EXCEPT !.pc = "alarm"]
      OBVIOUS
    <2>2. EndWalk(c) = d
      BY <1>1, <1>10, <2>1 DEF EndWalk
    <2>3. d \in CallRecords
      BY <2>1 DEF CallRecords
    <2>4. d.pc = "alarm" /\ d.issued = c.issued /\ d.filter = c.filter /\ d.since = c.since
      BY <2>1 DEF CallRecords
    <2>5. c.since # restores
      BY <1>2, <1>5, <1>6, <1>10, NoDisagreement DEF Kept
    <2> QED  BY <1>10, <2>2, <2>3, <2>4, <2>5 DEF CallHolds
  <1>11. c.issued => c.filter \in {"request", "grant"}
    BY DEF CallRecords, Filters, Matches
  <1> QED  BY <1>7, <1>8, <1>9, <1>10, <1>11

LEMMA ChosenPlaces ==
    ASSUME NEW L \in Seq(LogEvent), NEW filter
    PROVE  /\ Chosen(L, filter) \in SUBSET DOMAIN L /\ Chosen(L, filter) \in SUBSET (Nat \ {0})
           /\ IsFiniteSet(Chosen(L, filter)) /\ \A p \in DOMAIN L : L[p].id \in Nat \ {0}
  <1>1. DOMAIN L = 1..Len(L) /\ Len(L) \in Nat
    BY LenProperties
  <1>2. IsFiniteSet(1..Len(L))
    BY <1>1, FS_Interval
  <1>3. Chosen(L, filter) \in SUBSET (1..Len(L))
    BY <1>1 DEF Chosen
  <1>4. IsFiniteSet(Chosen(L, filter))
    BY <1>2, <1>3, FS_Subset
  <1>5. ASSUME NEW p \in DOMAIN L  PROVE L[p].id \in Nat \ {0}
    <2>1. L[p] \in LogEvent
      BY <1>1, ElementOfSeq
    <2> QED  BY <2>1 DEF LogEvent
  <1> QED  BY <1>1, <1>3, <1>4, <1>5

\* The first page: nothing to show, all there is, or the newest part.
LEMMA FirstPage ==
    ASSUME LogsInv, CallInv, call.pc = "walk", Unread(call, log, restores),
           NEW reply, reply = PageReply(call.filter, NoCursor, NoCursor)
    PROVE  CallHolds(Walk(reply), log, backup.log, written, restores, objects)
  <1>1. /\ log \in Seq(LogEvent) /\ Agree(log, log) /\ Known(log, written) /\ Agree(log, backup.log)
        /\ restores \in Nat
    BY DEF LogsInv, Known
  <1>2. call \in CallRecords /\ call.snapshot = NoCursor /\ call.before = NoCursor /\ call.walked = <<>>
    BY DEF CallInv, CallHolds, Unread
  <1>3. PICK S : S = Chosen(log, call.filter)
    OBVIOUS
  <1>4. /\ S \in SUBSET DOMAIN log /\ S \in SUBSET Nat /\ IsFiniteSet(S)
        /\ \A p \in DOMAIN log : log[p].id \in Nat \ {0}
    BY <1>1, <1>3, ChosenPlaces
  <1>5. S = Selected(call.filter, NoCursor, NoCursor)
    BY <1>3, SelectedFirst
  <1>6. PICK page \in SUBSET S :
          /\ Shows(reply.events, page, log)
          /\ reply.snapshot = IF NoCursor = NoCursor /\ reply.events # <<>> THEN Last(reply.events).id ELSE NoCursor
          /\ \/ reply.next = NoCursor /\ page = S
             \/ /\ page # {} /\ reply.next = Head(reply.events).id
                /\ \E j \in S : j \notin page
                /\ \A i \in page, j \in S \ page : j < i
    BY <1>1, <1>5, PageFacts
  <1>7. page \in SUBSET Nat
    BY <1>4
  <1>8. /\ reply.events \in Seq(Item)
        /\ reply.events # <<>> => page # {}
    BY <1>6, ShowsNothing DEF Shows
  <1>9. page # {} =>
          /\ reply.events # <<>>
          /\ Head(reply.events).seq \in page /\ \A p \in page : Head(reply.events).seq <= p
          /\ Last(reply.events).seq \in page /\ \A p \in page : p <= Last(reply.events).seq
          /\ Head(reply.events).id = log[Head(reply.events).seq].id
          /\ Last(reply.events).id = log[Last(reply.events).seq].id
    BY <1>6, <1>7, ShownEnds
  <1>10. page # {} => Head(reply.events).id \in Nat \ {0} /\ Last(reply.events).id \in Nat \ {0}
    BY <1>4, <1>9
  <1>11. reply.snapshot \in Nat /\ reply.next \in Nat
    BY <1>6, <1>8, <1>10 DEF NoCursor
  <1>12. ~Malformed(reply)
    <2>1. Ids(call.walked) = {}
      BY <1>2 DEF Ids
    <2>2. reply.next # NoCursor => page # {}
      BY <1>6
    <2>3. reply.snapshot = IF reply.events = <<>> THEN NoCursor ELSE Last(reply.events).id
      BY <1>6
    <2>4. reply.next # NoCursor =>
            reply.snapshot # NoCursor /\ reply.events # <<>> /\ Head(reply.events).id = reply.next
      BY <1>6, <1>9, <1>10, <2>2, <2>3 DEF NoCursor
    <2> QED  BY <1>2, <2>1, <2>3, <2>4 DEF Malformed
  <1>13. PICK e : e = EventsAt(S)
    OBVIOUS
  <1>14. Shows(e, S, log) /\ e \in Seq(Item)
    BY <1>1, <1>4, <1>13, EventsAtShows DEF Shows
  <1>15. PICK read : read = [call EXCEPT !.walked = reply.events, !.snapshot = reply.snapshot,
                                         !.before = reply.next, !.expected = e]
    OBVIOUS
  <1>16. Walk(reply) = IF reply.next = NoCursor THEN EndWalk(read) ELSE read
    <2>1. reply.events \o call.walked = reply.events
      BY <1>2, <1>8
    <2> QED  BY <1>2, <1>5, <1>12, <1>13, <1>15, <2>1 DEF Walk
  <1>17. read \in CallRecords
    BY <1>2, <1>8, <1>11, <1>14, <1>15 DEF CallRecords
  <1>18. /\ read.pc = "walk" /\ read.walked = reply.events /\ read.snapshot = reply.snapshot
         /\ read.before = reply.next /\ read.expected = e /\ read.filter = call.filter
         /\ read.issued = call.issued /\ read.first = call.first /\ read.since = call.since
         /\ read.seen = call.seen
    BY <1>2, <1>15 DEF CallRecords
  <1>19. /\ read.since <= restores /\ (read.issued => read.filter # "boundary")
         /\ read.issued /\ read.filter = "grant" => Kept(read, log, restores)
         /\ read.issued /\ read.since = restores => objects.request = "approved"
    BY <1>18 DEF CallInv, CallHolds, Kept
  <1>20. Continues(log, log)
    BY DEF Continues
  <1>21. read.since = restores => read.seen \subseteq Earlier(read) \cup Ids(read.expected)
    <2>1. Ids(e) = {log[p].id : p \in S}
      BY <1>14, ShownIds
    <2>2. call.since = restores => call.seen \subseteq Earlier(call) \cup {log[p].id : p \in S}
      BY <1>3 DEF Unread
    <2>3. Earlier(read) = Earlier(call)
      BY <1>18 DEF Earlier
    <2> QED  BY <1>18, <2>1, <2>2, <2>3
  <1>22. CASE reply.next = NoCursor
    <2>1. page = S
      BY <1>6, <1>10, <1>22 DEF NoCursor
    <2>2. reply.events = e
      BY <1>4, <1>6, <1>14, <2>1, ShowsOnce
    <2>3. read.walked = read.expected /\ Shows(read.walked, Chosen(log, read.filter), log)
      BY <1>3, <1>14, <1>18, <2>2
    <2> QED  BY <1>1, <1>16, <1>17, <1>18, <1>19, <1>20, <1>21, <1>22, <2>3, EndWalkHolds
  <1>23. CASE reply.next # NoCursor
    <2>1. /\ page # {} /\ reply.next = Head(reply.events).id
          /\ \E j \in S : j \notin page
          /\ \A i \in page, j \in S \ page : j < i
      BY <1>6, <1>23
    <2>2. PICK top \in page : top = Last(reply.events).seq
      BY <1>9, <2>1
    <2>3. PICK low \in page : low = Head(reply.events).seq
      BY <1>9, <2>1
    <2>4. page = {i \in S : i >= low}
      <3>1. \A i \in page : i \in Nat /\ i >= low
        BY <1>7, <1>9, <2>1, <2>3
      <3>2. \A j \in S \ page : j \in Nat /\ low \in Nat /\ j < low
        BY <1>4, <1>7, <2>1, <2>3
      <3> QED  BY <3>1, <3>2
    <2>5. \A i \in S : i <= top
      <3>1. \A i \in page : i <= top
        BY <1>9, <2>1, <2>2
      <3>2. \A j \in S \ page : j < top /\ j \in Nat /\ top \in Nat
        BY <1>4, <1>7, <2>1, <2>2
      <3> QED  BY <3>1, <3>2
    <2>6. \E i \in S : i < low
      BY <2>1, <2>3
    <2>7. read.snapshot = log[top].id /\ read.before = log[low].id
      BY <1>6, <1>9, <1>18, <2>1, <2>2, <2>3
    <2>8. top \in S /\ low \in S
      BY <1>6
    <2>9. WalkedTo(read, log, backup.log, written, restores, log, top, low)
      BY <1>1, <1>3, <1>6, <1>14, <1>18, <1>20, <1>21, <2>4, <2>5, <2>6, <2>7, <2>8 DEF WalkedTo
    <2>10. Walk(reply) = read
      BY <1>16, <1>23
    <2> QED  BY <1>17, <1>18, <1>19, <2>9, <2>10 DEF CallHolds
  <1> QED  BY <1>22, <1>23

\* A later page: what is below the last one, in the history the first page was read from.
LEMMA NextPage ==
    ASSUME LogsInv, CallInv, call.pc = "walk", NEW past, NEW top, NEW low,
           WalkedTo(call, log, backup.log, written, restores, past, top, low),
           CursorsHold(call.snapshot, call.before),
           NEW reply, reply = PageReply(call.filter, call.snapshot, call.before)
    PROVE  CallHolds(Walk(reply), log, backup.log, written, restores, objects)
  <1>1. log \in Seq(LogEvent) /\ Agree(log, log) /\ restores \in Nat
    BY DEF LogsInv, Known
  <1>2. call \in CallRecords
    BY DEF CallInv, CallHolds
  <1>3. PICK C : C = Chosen(past, call.filter)
    OBVIOUS
  <1>4. /\ past \in Seq(LogEvent) /\ Known(past, written) /\ Agree(past, log) /\ Agree(past, backup.log)
        /\ top \in C /\ (\A i \in C : i <= top) /\ low \in C /\ \E i \in C : i < low
        /\ call.snapshot = past[top].id /\ call.before = past[low].id
        /\ Shows(call.expected, C, past) /\ Shows(call.walked, {i \in C : i >= low}, past)
        /\ call.since = restores => Continues(log, past) /\ call.seen \subseteq Earlier(call) \cup Ids(call.expected)
    BY <1>3 DEF WalkedTo, Known
  <1>5. /\ C \in SUBSET DOMAIN past /\ C \in SUBSET (Nat \ {0}) /\ IsFiniteSet(C)
        /\ \A p \in DOMAIN past : past[p].id \in Nat \ {0}
    BY <1>3, <1>4, ChosenPlaces
  <1>6. call.snapshot \in Nat \ {0} /\ call.before \in Nat \ {0}
    BY <1>4, <1>5
  <1>7. Position(past[top].id) # NoCursor
    BY <1>4, <1>6 DEF CursorsHold, NoCursor
  <1>8. PICK S : S = {i \in C : i < low}
    OBVIOUS
  <1>9. /\ top \in DOMAIN log /\ \A i \in 1..top : log[i] = past[i]
        /\ S = Selected(call.filter, call.snapshot, call.before)
    BY <1>1, <1>3, <1>4, <1>7, <1>8, SelectedNext
  <1>10. PICK page \in SUBSET S :
          /\ Shows(reply.events, page, log)
          /\ reply.snapshot = IF call.snapshot = NoCursor /\ reply.events # <<>>
                              THEN Last(reply.events).id ELSE call.snapshot
          /\ \/ reply.next = NoCursor /\ page = S
             \/ /\ page # {} /\ reply.next = Head(reply.events).id
                /\ \E j \in S : j \notin page
                /\ \A i \in page, j \in S \ page : j < i
    BY <1>1, <1>9, PageFacts
  <1>11. S # {} /\ page # {} /\ page \in SUBSET Nat
    BY <1>4, <1>5, <1>8, <1>10
  <1>12. \A p \in C : p \in 1..top /\ log[p] = past[p]
    <2>1. \A p \in C : p \in 1..top
      BY <1>4, <1>5
    <2> QED  BY <1>9, <2>1
  <1>13. page \in SUBSET C
    BY <1>8
  <1>14. Shows(reply.events, page, past)
    <2>1. \A p \in page : past[p].id = log[p].id
      BY <1>12, <1>13
    <2> QED  BY <1>10, <2>1, ShowsElsewhere
  <1>15. /\ reply.events \in Seq(Item) /\ reply.events # <<>>
         /\ Head(reply.events).seq \in page /\ \A p \in page : Head(reply.events).seq <= p
         /\ Head(reply.events).id = past[Head(reply.events).seq].id
    <2>1. reply.events \in Seq(Item)
      BY <1>14 DEF Shows
    <2>2. /\ reply.events # <<>>
          /\ Head(reply.events).seq \in page /\ \A p \in page : Head(reply.events).seq <= p
          /\ Last(reply.events).seq \in page /\ \A p \in page : p <= Last(reply.events).seq
          /\ Head(reply.events).id = past[Head(reply.events).seq].id
          /\ Last(reply.events).id = past[Last(reply.events).seq].id
      BY <1>11, <1>14, ShownEnds
    <2> QED  BY <2>1, <2>2
  <1>16. Head(reply.events).id \in Nat \ {0} /\ reply.next \in Nat /\ reply.snapshot = call.snapshot
    BY <1>5, <1>6, <1>10, <1>13, <1>15 DEF NoCursor
  <1>17. ~Malformed(reply)
    <2>1. Ids(reply.events) \cap Ids(call.walked) = {}
      <3>1. Ids(reply.events) = {past[p].id : p \in page}
        BY <1>14, ShownIds
      <3>2. Ids(call.walked) = {past[p].id : p \in {i \in C : i >= low}}
        BY <1>4, ShownIds
      <3>3. ASSUME NEW p \in page, NEW q \in C, q >= low, past[p].id = past[q].id  PROVE FALSE
        <4>1. p \in C /\ p < low /\ p \in Nat /\ q \in Nat /\ low \in Nat
          BY <1>4, <1>5, <1>8
        <4>2. 1..top \in SUBSET DOMAIN log
          BY <1>1, <1>9, LenProperties
        <4>3. p \in DOMAIN log /\ q \in DOMAIN log /\ log[p].id = log[q].id
          BY <1>12, <3>3, <4>1, <4>2
        <4>4. p = q
          BY <1>1, <4>3 DEF Agree
        <4> QED  BY <3>3, <4>1, <4>4
      <3> QED  BY <3>1, <3>2, <3>3
    <2>2. reply.next # NoCursor => reply.next = Head(reply.events).id
      BY <1>10
    <2> QED  BY <1>6, <1>15, <1>16, <2>1, <2>2 DEF Malformed, NoCursor
  <1>18. PICK walked : walked = reply.events \o call.walked
    OBVIOUS
  <1>19. Shows(walked, page \cup {i \in C : i >= low}, past) /\ walked \in Seq(Item)
    <2>1. PICK B \in SUBSET Nat : B = {i \in C : i >= low}
      BY <1>5
    <2>2. \A p \in page, q \in B : p < q
      BY <1>4, <1>5, <1>8, <2>1
    <2>3. Shows(reply.events \o call.walked, page \cup B, past)
      BY <1>4, <1>11, <1>14, <2>1, <2>2, ShowsBoth
    <2> QED  BY <1>18, <2>1, <2>3 DEF Shows
  <1>20. PICK read : read = [call EXCEPT !.walked = walked, !.snapshot = reply.snapshot, !.before = reply.next]
    OBVIOUS
  <1>21. read \in CallRecords
    BY <1>2, <1>6, <1>16, <1>19, <1>20 DEF CallRecords
  <1>22. /\ read.pc = "walk" /\ read.walked = walked /\ read.snapshot = call.snapshot
         /\ read.before = reply.next /\ read.expected = call.expected /\ read.filter = call.filter
         /\ read.issued = call.issued /\ read.first = call.first /\ read.since = call.since
         /\ read.seen = call.seen
    BY <1>2, <1>16, <1>20 DEF CallRecords
  <1>23. Walk(reply) = IF reply.next = NoCursor THEN EndWalk(read) ELSE read
    <2>1. read = [call EXCEPT !.walked = reply.events \o @, !.snapshot = reply.snapshot,
                              !.before = reply.next,
                              !.expected = IF call.snapshot = NoCursor
                                           THEN EventsAt(Selected(call.filter, NoCursor, NoCursor)) ELSE @]
      BY <1>2, <1>6, <1>18, <1>20 DEF NoCursor, CallRecords
    <2> QED  BY <1>17, <2>1 DEF Walk
  <1>24. /\ read.since <= restores /\ (read.issued => read.filter # "boundary")
         /\ read.issued /\ read.filter = "grant" => Kept(read, log, restores)
         /\ read.issued /\ read.since = restores => objects.request = "approved"
    BY <1>22 DEF CallInv, CallHolds, Kept
  <1>25. read.since = restores => Continues(log, past) /\ read.seen \subseteq Earlier(read) \cup Ids(read.expected)
    BY <1>4, <1>22 DEF Earlier
  <1>26. CASE reply.next = NoCursor
    <2>1. page = S
      BY <1>10, <1>16, <1>26 DEF NoCursor
    <2>2. page \cup {i \in C : i >= low} = C
      BY <1>4, <1>5, <1>8, <2>1
    <2>3. Shows(walked, C, past) /\ C \in SUBSET Nat
      BY <1>5, <1>19, <2>2
    <2>4. walked = call.expected
      BY <1>4, <1>5, <2>3, ShowsOnce
    <2>5. read.walked = read.expected /\ Shows(read.walked, Chosen(past, read.filter), past)
      BY <1>3, <1>22, <2>3, <2>4
    <2> QED  BY <1>4, <1>21, <1>22, <1>23, <1>24, <1>25, <1>26, <2>5, EndWalkHolds
  <1>27. CASE reply.next # NoCursor
    <2>1. /\ reply.next = Head(reply.events).id
          /\ \E j \in S : j \notin page
          /\ \A i \in page, j \in S \ page : j < i
      BY <1>10, <1>27
    <2>2. PICK next \in page : next = Head(reply.events).seq
      BY <1>15
    <2>3. page \cup {i \in C : i >= low} = {i \in C : i >= next}
      <3>1. \A i \in page : i \in C /\ i >= next /\ i < low /\ i \in Nat
        BY <1>8, <1>11, <1>13, <1>15, <2>2
      <3>2. \A j \in S \ page : j \in Nat /\ j < next
        BY <1>5, <1>8, <2>1, <2>2
      <3>3. \A i \in C : i \in Nat /\ (i < low => i \in S)
        BY <1>5, <1>8
      <3>4. next \in Nat /\ low \in Nat /\ next < low
        BY <1>4, <1>5, <2>2, <3>1
      <3>5. \A i \in C : (i \in page \/ i >= low) <=> i >= next
        BY <3>1, <3>2, <3>3, <3>4
      <3> QED  BY <1>13, <3>5
    <2>4. \E i \in C : i < next
      BY <1>8, <2>1, <2>2
    <2>5. read.snapshot = past[top].id /\ read.before = past[next].id
      BY <1>4, <1>15, <1>22, <2>1, <2>2
    <2>6. Shows(read.walked, {i \in C : i >= next}, past) /\ next \in C
      BY <1>13, <1>19, <1>22, <2>2, <2>3
    <2>7. WalkedTo(read, log, backup.log, written, restores, past, top, next)
      BY <1>3, <1>4, <1>22, <1>25, <2>4, <2>5, <2>6 DEF WalkedTo
    <2>8. Walk(reply) = read
      BY <1>23, <1>27
    <2> QED  BY <1>21, <1>22, <1>24, <2>7, <2>8 DEF CallHolds
  <1> QED  BY <1>26, <1>27

\* Cursors of an unreplaced log are known.
LEMMA KnownCursors ==
    ASSUME LogsInv, CallInv, NEW past, NEW top, NEW low,
           WalkedTo(call, log, backup.log, written, restores, past, top, low), call.since = restores
    PROVE  CursorsHold(call.snapshot, call.before)
  <1>1. log \in Seq(LogEvent) /\ Agree(log, log)
    BY DEF LogsInv, Known
  <1>2. top \in DOMAIN past /\ low \in DOMAIN past /\ low <= top
    BY DEF WalkedTo, Chosen
  <1>3. /\ top \in DOMAIN log /\ log[top] = past[top]
        /\ low \in DOMAIN log /\ log[low] = past[low]
    BY <1>2 DEF WalkedTo, Continues
  <1>4. Position(log[top].id) = top /\ top # 0 /\ Position(log[low].id) = low /\ low # 0
    BY <1>1, <1>3, PositionOfEvent
  <1>5. call.snapshot = log[top].id /\ call.before = log[low].id
    BY <1>3 DEF WalkedTo
  <1> QED  BY <1>2, <1>4, <1>5 DEF CursorsHold, NoCursor

LEMMA GetPageHolds ==
    ASSUME LogsInv, CallInv, GetPage
    PROVE  LogsInv' /\ CallInv'
  <1>1. /\ log' = log /\ objects' = objects /\ backup' = backup /\ written' = written
        /\ restores' = restores /\ call.pc = "walk"
    BY DEF GetPage
  <1>2. LogsInv'
    BY <1>1 DEF LogsInv
  <1>3. CASE Unread(call, log, restores)
    <2>1. call.snapshot = NoCursor /\ call.before = NoCursor
      BY <1>3 DEF Unread
    <2>2. CursorsHold(NoCursor, NoCursor)
      BY DEF CursorsHold
    <2>3. call' = Walk(PageReply(call.filter, NoCursor, NoCursor))
      BY <2>1, <2>2 DEF GetPage
    <2>4. CallHolds(call', log, backup.log, written, restores, objects)
      BY <1>1, <1>3, <2>3, FirstPage
    <2> QED  BY <1>1, <1>2, <2>4 DEF CallInv
  <1>4. CASE \E past, top, low : WalkedTo(call, log, backup.log, written, restores, past, top, low)
    <2>1. PICK past, top, low : WalkedTo(call, log, backup.log, written, restores, past, top, low)
      BY <1>4
    <2>2. CASE CursorsHold(call.snapshot, call.before)
      <3>1. call' = Walk(PageReply(call.filter, call.snapshot, call.before))
        BY <2>2 DEF GetPage
      <3>2. CallHolds(call', log, backup.log, written, restores, objects)
        BY <1>1, <2>1, <2>2, <3>1, NextPage
      <3> QED  BY <1>1, <1>2, <3>2 DEF CallInv
    <2>3. CASE ~CursorsHold(call.snapshot, call.before)
      <3>1. call' = [call EXCEPT !.pc = "refused"]
        BY <2>3 DEF GetPage
      <3>2. call.since # restores
        BY <2>1, <2>3, KnownCursors
      <3>3. call \in CallRecords /\ call.since <= restores /\ (call.issued => call.filter # "boundary")
        BY DEF CallInv, CallHolds
      <3>4. call' \in CallRecords
        BY <3>1, <3>3 DEF CallRecords
      <3>5. /\ call'.pc = "refused" /\ call'.since = call.since /\ call'.issued = call.issued
            /\ call'.filter = call.filter
        BY <3>1, <3>3 DEF CallRecords
      <3>6. CallHolds(call', log, backup.log, written, restores, objects)
        BY <3>2, <3>3, <3>4, <3>5 DEF CallHolds
      <3> QED  BY <1>1, <1>2, <3>6 DEF CallInv
    <2> QED  BY <2>2, <2>3
  <1> QED  BY <1>1, <1>3, <1>4 DEF CallInv, CallHolds

LEMMA AgreeSymmetric ==
    ASSUME NEW L, NEW M, Agree(L, M)
    PROVE  Agree(M, L)
  BY DEF Agree

\* New events at the end of a log, with ids never given out, leave it in agreement.
LEMMA AppendAgrees ==
    ASSUME NEW L \in Seq(LogEvent), NEW N \in Seq(LogEvent), NEW given \in Nat, Known(L, given),
           Continues(N, L), \A i \in DOMAIN N \ DOMAIN L : N[i].id = given + (i - Len(L))
    PROVE  /\ Agree(L, L) => Agree(N, N)
           /\ \A M : Known(M, given) /\ Agree(M, L) => Agree(M, N)
  <1>1. /\ DOMAIN L = 1..Len(L) /\ Len(L) \in Nat /\ DOMAIN N = 1..Len(N) /\ Len(N) \in Nat
    BY LenProperties
  <1>2. ASSUME NEW i \in DOMAIN N
        PROVE  \/ i \in DOMAIN L /\ N[i] = L[i] /\ L[i].id <= given /\ L[i].id \in Nat
               \/ i \notin DOMAIN L /\ N[i].id = given + (i - Len(L)) /\ N[i].id > given
    <2>1. CASE i \in DOMAIN L
      BY <2>1, ChosenPlaces DEF Continues, Known
    <2>2. CASE i \notin DOMAIN L
      BY <1>1, <2>2
    <2> QED  BY <2>1, <2>2
  <1>3. ASSUME Agree(L, L), NEW i \in DOMAIN N, NEW j \in DOMAIN N, N[i].id = N[j].id
        PROVE  i = j
    <2>1. CASE i \in DOMAIN L /\ j \in DOMAIN L
      BY <1>2, <1>3, <2>1 DEF Agree
    <2>2. CASE i \notin DOMAIN L /\ j \notin DOMAIN L
      BY <1>1, <1>2, <1>3, <2>2
    <2>3. CASE (i \in DOMAIN L /\ j \notin DOMAIN L) \/ (i \notin DOMAIN L /\ j \in DOMAIN L)
      BY <1>1, <1>2, <1>3, <2>3
    <2> QED  BY <2>1, <2>2, <2>3
  <1>4. Agree(L, L) => Agree(N, N)
    BY <1>3 DEF Agree
  <1>5. ASSUME NEW M, Known(M, given), Agree(M, L), NEW i \in DOMAIN M, NEW j \in DOMAIN N, M[i].id = N[j].id
        PROVE  i = j /\ \A k \in 1..i : M[k] = N[k]
    <2>1. M[i].id \in Nat /\ M[i].id <= given
      BY <1>5, ChosenPlaces DEF Known
    <2>2. j \in DOMAIN L /\ N[j] = L[j]
      BY <1>2, <1>5, <2>1
    <2>3. i = j /\ \A k \in 1..i : M[k] = L[k]
      BY <1>5, <2>2 DEF Agree
    <2>4. \A k \in 1..i : k \in DOMAIN L
      BY <1>1, <2>2, <2>3
    <2> QED  BY <2>3, <2>4 DEF Continues
  <1>6. \A M : Known(M, given) /\ Agree(M, L) => Agree(M, N)
    BY <1>5 DEF Agree
  <1> QED  BY <1>4, <1>6

\* A call goes on while the log grows.
LEMMA LogGrows ==
    ASSUME NEW c, NEW L \in Seq(LogEvent), NEW B, NEW given \in Nat, NEW r, NEW o, CallHolds(c, L, B, given, r, o),
           NEW N \in Seq(LogEvent), Continues(N, L), NEW more \in Nat, given <= more, NEW o2,
           \A M : Known(M, given) /\ Agree(M, L) => Agree(M, N),
           o.request = "approved" => o2.request = "approved"
    PROVE  CallHolds(c, N, B, more, r, o2)
  <1>1. \A i \in DOMAIN L : i \in DOMAIN N /\ N[i] = L[i]
    BY DEF Continues
  <1>2. c.pc = "walk" /\ Unread(c, L, r) => Unread(c, N, r)
    <2>1. \A filter : {L[i].id : i \in Chosen(L, filter)} \subseteq {N[i].id : i \in Chosen(N, filter)}
      <3>1. \A filter : \A i \in Chosen(L, filter) : i \in Chosen(N, filter) /\ N[i] = L[i]
        BY <1>1 DEF Chosen
      <3> QED  BY <3>1
    <2> QED  BY <2>1 DEF Unread
  <1>3. ASSUME NEW past, NEW top, NEW low, WalkedTo(c, L, B, given, r, past, top, low)
        PROVE  WalkedTo(c, N, B, more, r, past, top, low)
    <2>1. Known(past, given) /\ Agree(past, L)
      BY <1>3 DEF WalkedTo
    <2>2. Known(past, more)
      <3>1. \A i \in DOMAIN past : past[i].id \in Nat
        BY <2>1, ChosenPlaces DEF Known
      <3> QED  BY <2>1, <3>1 DEF Known
    <2>3. Agree(past, N)
      BY <2>1
    <2>4. c.since = r => Continues(N, past)
      BY <1>1, <1>3 DEF WalkedTo, Continues
    <2> QED  BY <1>3, <2>2, <2>3, <2>4 DEF WalkedTo
  <1>4. Kept(c, L, r) => Kept(c, N, r)
    BY <1>1 DEF Kept
  <1>5. c.pc = "walk" => \/ Unread(c, N, r)
                         \/ \E past, top, low : WalkedTo(c, N, B, more, r, past, top, low)
    BY <1>2, <1>3 DEF CallHolds
  <1> QED  BY <1>4, <1>5 DEF CallHolds

LEMMA StoreHolds ==
    ASSUME LogsInv, CallInv, NEW types \in Seq(EventTypes), Store(types), objects' \in ObjectStates,
           objects.request = "approved" => objects'.request = "approved"
    PROVE  LogsInv' /\ CallInv'
  <1>1. PICK new : new = [i \in DOMAIN types |-> [id |-> written + i, type |-> types[i]]]
    OBVIOUS
  <1>2. /\ log' = log \o new /\ written' = written + Len(types) /\ call' = call
        /\ backup' = backup /\ restores' = restores
    BY <1>1 DEF Store
  <1>3. /\ written \in Nat /\ log \in Seq(LogEvent) /\ Known(log, written) /\ Known(backup.log, written)
        /\ Agree(log, log) /\ Agree(log, backup.log) /\ Agree(backup.log, backup.log)
    BY DEF LogsInv, Known
  <1>4. DOMAIN types = 1..Len(types) /\ Len(types) \in Nat /\ \A i \in DOMAIN types : types[i] \in EventTypes
    BY LenProperties, ElementOfSeq
  <1>5. new \in Seq(LogEvent) /\ Len(new) = Len(types)
    <2>1. \A i \in 1..Len(types) : [id |-> written + i, type |-> types[i]] \in LogEvent
      BY <1>3, <1>4 DEF LogEvent
    <2>2. new \in [1..Len(types) -> LogEvent]
      BY <1>1, <1>4, <2>1
    <2> QED  BY <1>4, <2>2
  <1>6. DOMAIN log = 1..Len(log) /\ Len(log) \in Nat
    BY <1>3, LenProperties
  <1>7. /\ log' \in Seq(LogEvent) /\ DOMAIN log' = 1..(Len(log) + Len(types))
        /\ \A i \in 1..Len(log) : log'[i] = log[i]
        /\ \A i \in 1..Len(types) : log'[Len(log) + i] = new[i]
    <2>1. log \o new \in Seq(LogEvent) /\ Len(log \o new) = Len(log) + Len(new)
      BY <1>3, <1>5
    <2>2. /\ \A i \in 1..Len(log) : (log \o new)[i] = log[i]
          /\ \A i \in 1..Len(new) : (log \o new)[Len(log) + i] = new[i]
      BY <1>3, <1>5, <1>6
    <2>3. DOMAIN (log \o new) = 1..Len(log \o new)
      BY <2>1, LenProperties
    <2> QED  BY <1>2, <1>5, <2>1, <2>2, <2>3
  <1>8. Continues(log', log)
    BY <1>4, <1>6, <1>7 DEF Continues
  <1>9. ASSUME NEW i \in DOMAIN log' \ DOMAIN log
        PROVE  log'[i].id = written + (i - Len(log)) /\ i - Len(log) \in 1..Len(types)
    <2>1. PICK j \in 1..Len(types) : i = Len(log) + j
      <3>1. i - Len(log) \in 1..Len(types) /\ i = Len(log) + (i - Len(log))
        BY <1>4, <1>6, <1>7
      <3> QED  BY <3>1
    <2>2. log'[i] = new[j] /\ new[j].id = written + j
      BY <1>1, <1>4, <1>7, <2>1
    <2> QED  BY <1>6, <2>1, <2>2
  <1>10. /\ Agree(log', log')
         /\ \A M : Known(M, written) /\ Agree(M, log) => Agree(M, log')
    <2>1. PICK N \in Seq(LogEvent) : N = log'
      BY <1>7
    <2>2. \A i \in DOMAIN N \ DOMAIN log : N[i].id = written + (i - Len(log))
      BY <1>9, <2>1
    <2>3. Continues(N, log)
      BY <1>8, <2>1
    <2>4. /\ Agree(N, N)
          /\ \A M : Known(M, written) /\ Agree(M, log) => Agree(M, N)
      BY <1>3, <2>2, <2>3, AppendAgrees
    <2> QED  BY <2>1, <2>4
  <1>11. Agree(log', backup.log)
    BY <1>3, <1>10, AgreeSymmetric
  <1>12. written' \in Nat /\ written <= written'
    BY <1>2, <1>3, <1>4
  <1>13. Known(log', written') /\ Known(backup.log, written')
    <2>1. ASSUME NEW i \in DOMAIN log'  PROVE log'[i].id <= written'
      <3>1. CASE i \in DOMAIN log
        <4>1. log'[i] = log[i] /\ log[i].id <= written /\ log[i].id \in Nat
          BY <1>3, <1>6, <1>7, <3>1, ChosenPlaces DEF Known
        <4> QED  BY <1>3, <1>12, <4>1
      <3>2. CASE i \notin DOMAIN log
        BY <1>2, <1>3, <1>4, <1>9, <3>2
      <3> QED  BY <3>1, <3>2
    <2>2. ASSUME NEW i \in DOMAIN backup.log  PROVE backup.log[i].id <= written'
      <3>1. backup.log[i].id \in Nat /\ backup.log[i].id <= written
        BY <1>3, ChosenPlaces DEF Known
      <3> QED  BY <1>3, <1>12, <3>1
    <2> QED  BY <1>3, <1>7, <2>1, <2>2 DEF Known
  <1>14. LogsInv'
    BY <1>2, <1>3, <1>10, <1>11, <1>12, <1>13 DEF LogsInv
  <1>15. CallHolds(call, log', backup.log, written', restores, objects')
    BY <1>3, <1>7, <1>8, <1>10, <1>12, LogGrows DEF CallInv
  <1> QED  BY <1>2, <1>14, <1>15 DEF CallInv

LEMMA WritersHold ==
    ASSUME LogsInv, CallInv, Writers
    PROVE  LogsInv' /\ CallInv'
  <1>1. objects \in ObjectStates /\ backup.objects \in ObjectStates
    BY DEF LogsInv
  <1>2. CASE Approve
    <2>1. objects' \in ObjectStates
      BY <1>1, <1>2 DEF Approve, ObjectStates
    <2>2. <<"issued", "approved">> \in Seq(EventTypes)
      BY DEF EventTypes
    <2>3. Store(<<"issued", "approved">>) /\ objects.request # "approved"
      BY <1>2 DEF Approve
    <2> QED  BY <2>1, <2>2, <2>3, StoreHolds
  <1>3. CASE Reject
    <2>1. objects' \in ObjectStates
      BY <1>1, <1>3 DEF Reject, Change, ObjectStates
    <2>2. <<"rejected">> \in Seq(EventTypes)
      BY DEF EventTypes
    <2>3. Store(<<"rejected">>) /\ objects.request # "approved"
      BY <1>3 DEF Reject, Change
    <2> QED  BY <2>1, <2>2, <2>3, StoreHolds
  <1>4. CASE Revoke
    <2>1. objects' \in ObjectStates /\ objects'.request = objects.request
      BY <1>1, <1>4 DEF Revoke, Change, ObjectStates
    <2>2. <<"revoked">> \in Seq(EventTypes)
      BY DEF EventTypes
    <2>3. Store(<<"revoked">>)
      BY <1>4 DEF Revoke, Change
    <2> QED  BY <2>1, <2>2, <2>3, StoreHolds
  <1>5. CASE DisableBoundary \/ EnableBoundary
    <2>1. objects' \in ObjectStates /\ objects'.request = objects.request
      BY <1>1, <1>5 DEF DisableBoundary, EnableBoundary, Change, ObjectStates
    <2>2. <<"set">> \in Seq(EventTypes)
      BY DEF EventTypes
    <2>3. Store(<<"set">>)
      BY <1>5 DEF DisableBoundary, EnableBoundary, Change
    <2> QED  BY <2>1, <2>2, <2>3, StoreHolds
  <1>6. CASE Use
    <2>1. objects' = objects
      BY <1>6 DEF Use
    <2>2. <<"used">> \in Seq(EventTypes)
      BY DEF EventTypes
    <2>3. Store(<<"used">>)
      BY <1>6 DEF Use
    <2> QED  BY <1>1, <2>1, <2>2, <2>3, StoreHolds
  <1>7. CASE TakeBackup
    <2>1. /\ backup' = [log |-> log, objects |-> objects] /\ log' = log /\ objects' = objects
          /\ written' = written /\ restores' = restores /\ call' = call
      BY <1>7 DEF TakeBackup
    <2>2. backup'.log = log /\ backup'.objects = objects
      BY <2>1
    <2>3. LogsInv'
      BY <2>1, <2>2 DEF LogsInv, Known
    <2>4. CallHolds(call, log, log, written, restores, objects)
      <3>1. \A past, top, low : WalkedTo(call, log, backup.log, written, restores, past, top, low)
                                  => WalkedTo(call, log, log, written, restores, past, top, low)
        BY DEF WalkedTo
      <3> QED  BY <3>1 DEF CallInv, CallHolds
    <2> QED  BY <2>1, <2>2, <2>3, <2>4 DEF CallInv
  <1>8. CASE RestoreBackup
    <2>1. /\ log' = backup.log /\ objects' = backup.objects /\ restores' = restores + 1
          /\ backup' = backup /\ written' = written /\ call' = call
      BY <1>8 DEF RestoreBackup
    <2>2. LogsInv'
      BY <1>1, <2>1 DEF LogsInv
    <2>3. call.since <= restores /\ call.since \in Nat /\ restores \in Nat
      BY DEF CallInv, CallHolds, CallRecords, LogsInv
    <2>4. PICK r : r = restores + 1
      OBVIOUS
    <2>5. call.since <= r /\ call.since # r
      BY <2>3, <2>4
    <2>6. CallHolds(call, backup.log, backup.log, written, r, backup.objects)
      <3>1. \A past, top, low : WalkedTo(call, log, backup.log, written, restores, past, top, low)
                                  => WalkedTo(call, backup.log, backup.log, written, r, past, top, low)
        BY <2>5 DEF WalkedTo
      <3>2. Unread(call, log, restores) => Unread(call, backup.log, r)
        BY <2>5 DEF Unread
      <3>3. Kept(call, log, restores) => Kept(call, backup.log, r)
        BY <2>5 DEF Kept
      <3> QED  BY <2>5, <3>1, <3>2, <3>3 DEF CallInv, CallHolds
    <2> QED  BY <2>1, <2>2, <2>4, <2>6 DEF CallInv
  <1> QED  BY <1>2, <1>3, <1>4, <1>5, <1>6, <1>7, <1>8 DEF Writers

\* What an object shows has its event in the history of the object.
LEMMA ShownIsChosen ==
    ASSUME log \in Seq(LogEvent), NEW object \in Filters
    PROVE  Shown(object) \subseteq {log[i].id : i \in Chosen(log, object)} /\ Shown(object) \in SUBSET Nat
  <1>1. Changes[object] \subseteq Matches[object]
    BY DEF Filters, Matches, Changes
  <1>2. \A i \in DOMAIN log : log[i].id \in Nat
    BY ChosenPlaces
  <1>3. \A i \in DOMAIN log : log[i].type \in Changes[object] => i \in Chosen(log, object)
    BY <1>1 DEF Chosen
  <1>4. Shown(object) = {log[i].id : i \in {j \in DOMAIN log : log[j].type \in Changes[object]}}
    BY DEF Shown
  <1> QED  BY <1>2, <1>3, <1>4

LEMMA IdleTyped == Idle \in CallRecords /\ Idle.issued = FALSE /\ Idle.pc = "idle" /\ Idle.since = 0 /\ Idle.seen = {}
  BY DEF Idle, CallRecords, Filters, Matches, NoCursor

LEMMA ReportHolds ==
    ASSUME LogsInv, CallInv, NEW kind \in Filters, Report(kind)
    PROVE  LogsInv' /\ CallInv'
  <1>1. /\ log' = log /\ objects' = objects /\ backup' = backup /\ written' = written
        /\ restores' = restores
    BY DEF Report
  <1>2. LogsInv' /\ log \in Seq(LogEvent) /\ restores \in Nat
    BY <1>1 DEF LogsInv, Known
  <1>3. PICK acted \in BOOLEAN : acted = (kind = "request" /\ objects.request = "approved")
    OBVIOUS
  <1>4. PICK start : start = [Idle EXCEPT !.kind = kind, !.since = restores, !.issued = acted]
    OBVIOUS
  <1>5. /\ start \in CallRecords /\ start.kind = kind /\ start.since = restores /\ start.issued = acted
        /\ start.seen = {}
    BY <1>2, <1>4, IdleTyped DEF CallRecords
  <1>6. call' = [start EXCEPT !.pc = "walk", !.filter = kind, !.seen = Shown(kind),
                              !.snapshot = NoCursor, !.before = NoCursor, !.walked = <<>>]
    <2>1. call' = WalkOf(kind, start)
      BY <1>3, <1>4 DEF Report
    <2>2. start.seen \cup Shown(kind) = Shown(kind)
      BY <1>5
    <2> QED  BY <2>1, <2>2 DEF WalkOf
  <1>7. Shown(kind) \subseteq {log[i].id : i \in Chosen(log, kind)} /\ Shown(kind) \in SUBSET Nat
    BY <1>2, ShownIsChosen
  <1>8. call' \in CallRecords
    <2>1. <<>> \in Seq(Item)
      OBVIOUS
    <2> QED  BY <1>5, <1>6, <1>7, <2>1 DEF CallRecords, NoCursor
  <1>9. /\ call'.pc = "walk" /\ call'.filter = kind /\ call'.seen = Shown(kind) /\ call'.snapshot = NoCursor
        /\ call'.before = NoCursor /\ call'.walked = <<>> /\ call'.since = restores /\ call'.issued = acted
    BY <1>5, <1>6 DEF CallRecords
  <1>10. Unread(call', log, restores)
    BY <1>7, <1>9 DEF Unread
  <1>11. call'.issued => kind = "request" /\ objects.request = "approved"
    BY <1>3, <1>9
  <1>12. CallHolds(call', log, backup.log, written, restores, objects)
    BY <1>2, <1>8, <1>9, <1>10, <1>11 DEF CallHolds
  <1> QED  BY <1>1, <1>2, <1>12 DEF CallInv

LEMMA GetIssuedGrantHolds ==
    ASSUME LogsInv, CallInv, GetIssuedGrant
    PROVE  LogsInv' /\ CallInv'
  <1>1. /\ log' = log /\ objects' = objects /\ backup' = backup /\ written' = written
        /\ restores' = restores /\ call.pc = "grant"
    BY DEF GetIssuedGrant
  <1>2. LogsInv' /\ log \in Seq(LogEvent)
    BY <1>1 DEF LogsInv, Known
  <1>3. /\ call \in CallRecords /\ call.since <= restores /\ call.issued /\ call.filter = "request"
        /\ Kept(call, log, restores)
        /\ call.since = restores => call.seen \subseteq Ids(call.first) /\ objects.request = "approved"
    BY <1>1 DEF CallInv, CallHolds
  <1>4. CASE objects.grant = "none"
    <2>1. call' = [call EXCEPT !.pc = "refused"]
      BY <1>4 DEF GetIssuedGrant
    <2>2. call.since # restores
      BY <1>3, <1>4 DEF LogsInv, ObjectStates
    <2>3. call' \in CallRecords
      BY <1>3, <2>1 DEF CallRecords
    <2>4. /\ call'.pc = "refused" /\ call'.since = call.since /\ call'.issued = call.issued
          /\ call'.filter = call.filter
      BY <1>3, <2>1 DEF CallRecords
    <2>5. CallHolds(call', log, backup.log, written, restores, objects)
      BY <1>3, <2>2, <2>3, <2>4 DEF CallHolds
    <2> QED  BY <1>1, <1>2, <2>5 DEF CallInv
  <1>5. CASE objects.grant # "none"
    <2>1. PICK shown : shown = call.seen \cup Shown("grant")
      OBVIOUS
    <2>2. call' = [call EXCEPT !.pc = "walk", !.filter = "grant", !.seen = shown,
                               !.snapshot = NoCursor, !.before = NoCursor, !.walked = <<>>]
      BY <1>5, <2>1 DEF GetIssuedGrant, WalkOf
    <2>3. "grant" \in Filters
      BY DEF Filters, Matches
    <2>4. Shown("grant") \subseteq {log[i].id : i \in Chosen(log, "grant")} /\ Shown("grant") \in SUBSET Nat
      BY <1>2, <2>3, ShownIsChosen
    <2>5. shown \in SUBSET Nat
      BY <1>3, <2>1, <2>4 DEF CallRecords
    <2>6. call' \in CallRecords
      <3>1. <<>> \in Seq(Item)
        OBVIOUS
      <3> QED  BY <1>3, <2>2, <2>3, <2>5, <3>1 DEF CallRecords, NoCursor
    <2>7. /\ call'.pc = "walk" /\ call'.filter = "grant" /\ call'.seen = shown /\ call'.snapshot = NoCursor
          /\ call'.before = NoCursor /\ call'.walked = <<>> /\ call'.since = call.since
          /\ call'.issued = call.issued /\ call'.first = call.first
      BY <1>3, <2>2 DEF CallRecords
    <2>8. Earlier(call') = Ids(call.first)
      BY <1>3, <2>7 DEF Earlier
    <2>9. Unread(call', log, restores)
      BY <1>3, <2>1, <2>4, <2>7, <2>8 DEF Unread
    <2>10. Kept(call', log, restores)
      BY <1>3, <2>7 DEF Kept
    <2>11. CallHolds(call', log, backup.log, written, restores, objects)
      BY <1>3, <2>6, <2>7, <2>9, <2>10 DEF CallHolds
    <2> QED  BY <1>1, <1>2, <2>11 DEF CallInv
  <1> QED  BY <1>4, <1>5

LEMMA EndOfCallHolds ==
    ASSUME LogsInv, CallInv, RequestFails \/ Return \/ UNCHANGED reportVars
    PROVE  LogsInv' /\ CallInv'
  <1>1. /\ log' = log /\ objects' = objects /\ backup' = backup /\ written' = written
        /\ restores' = restores
    BY DEF RequestFails, Return, reportVars
  <1>2. LogsInv' /\ restores \in Nat
    BY <1>1 DEF LogsInv
  <1>3. call \in CallRecords /\ call.since <= restores /\ (call.issued => call.filter # "boundary")
    BY DEF CallInv, CallHolds
  <1>4. CASE RequestFails
    <2>1. call' = [call EXCEPT !.pc = "failed"]
      BY <1>4 DEF RequestFails
    <2>2. call' \in CallRecords
      BY <1>3, <2>1 DEF CallRecords
    <2>3. /\ call'.pc = "failed" /\ call'.since = call.since /\ call'.issued = call.issued
          /\ call'.filter = call.filter
      BY <1>3, <2>1 DEF CallRecords
    <2>4. CallHolds(call', log, backup.log, written, restores, objects)
      BY <1>3, <2>2, <2>3 DEF CallHolds
    <2> QED  BY <1>1, <1>2, <2>4 DEF CallInv
  <1>5. CASE Return
    <2>1. call' = Idle
      BY <1>5 DEF Return
    <2>2. CallHolds(Idle, log, backup.log, written, restores, objects)
      BY <1>2, IdleTyped DEF CallHolds
    <2> QED  BY <1>1, <1>2, <2>1, <2>2 DEF CallInv
  <1>6. CASE UNCHANGED reportVars
    BY <1>1, <1>2, <1>6 DEF reportVars, CallInv
  <1> QED  BY <1>4, <1>5, <1>6

LEMMA ReportsInitHolds == ReportsInit => LogsInv /\ CallInv
  <1> SUFFICES ASSUME ReportsInit  PROVE LogsInv /\ CallInv
    OBVIOUS
  <1>1. PICK L : L = <<[id |-> 1, type |-> "requested"]>>
    OBVIOUS
  <1>2. L \in Seq(LogEvent) /\ DOMAIN L = {1} /\ L[1].id = 1
    BY <1>1 DEF LogEvent, EventTypes
  <1>3. Known(L, 1) /\ Agree(L, L)
    BY <1>2 DEF Known, Agree
  <1>4. objects \in ObjectStates
    BY DEF ReportsInit, ObjectStates
  <1>5. log = L /\ backup = [log |-> L, objects |-> objects] /\ written = 1 /\ restores = 0 /\ call = Idle
    BY <1>1 DEF ReportsInit
  <1>6. LogsInv
    BY <1>2, <1>3, <1>4, <1>5 DEF LogsInv
  <1>7. CallHolds(Idle, log, backup.log, written, restores, objects)
    BY <1>5, IdleTyped DEF CallHolds
  <1> QED  BY <1>5, <1>6, <1>7 DEF CallInv

LEMMA ReportsInvariant == ReportsSpec => [](LogsInv /\ CallInv)
  <1>1. LogsInv /\ CallInv /\ [ReportsNext]_reportVars => (LogsInv /\ CallInv)'
    BY WritersHold, GetPageHolds, GetIssuedGrantHolds, ReportHolds, EndOfCallHolds DEF ReportsNext
  <1> QED  BY <1>1, ReportsInitHolds, PTL DEF ReportsSpec

(* A finished walk is the complete history its first page looked at, whatever *)
(* is appended or restored between the pages, and a finished report explains  *)
(* every change its objects show (tools.py _complete_audit_events,            *)
(* grant_request_report; sqlite.py list_filtered).                            *)
THEOREM ReportsAreComplete == ReportsSpec => []ReportsAreExact
  <1>1. LogsInv /\ CallInv => ReportsAreExact
    BY DEF CallInv, CallHolds, ReportsAreExact, WalksAreExact, TimelineCoversObject
  <1> QED  BY <1>1, ReportsInvariant, PTL

(* The client's checks of pages, order and overlap refuse no honest service:  *)
(* only a restore makes a report fail as inconsistent (tools.py               *)
(* _complete_audit_events, _merge_audit_event_streams).                       *)
THEOREM HonestWalksPass == ReportsSpec => []HonestWalksSucceed
  <1>1. LogsInv /\ CallInv => HonestWalksSucceed
    BY DEF CallInv, CallHolds, HonestWalksSucceed
  <1> QED  BY <1>1, ReportsInvariant, PTL
=============================================================================
