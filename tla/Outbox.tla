------------------------------- MODULE Outbox -------------------------------
(***************************************************************************)
(* BufferManager of edge-gateway/buffer_manager.py: the SQLite table       *)
(* "outbox" that every payload is written to before it is published.       *)
(*                                                                         *)
(* A row is its id: AUTOINCREMENT hands ids out in increasing order, so the*)
(* payload, the topic and the time stamp are functions of the id and are   *)
(* not kept.  (After a power loss it hands out the ids of rows that are    *)
(* gone once more.  Nothing that knew them has survived, so the model goes *)
(* on counting.)  The threading.Lock makes each method atomic for the other*)
(* threads of the process.  A method may raise: SQLite then takes back the *)
(* transaction, of which enqueue has two, the insert and the trim.         *)
(*                                                                         *)
(* With synchronous=NORMAL a commit is appended to the write-ahead log but *)
(* not synced: it survives the death of the process, while a power loss    *)
(* leaves the table as it was after some earlier commit.                   *)
(***************************************************************************)
EXTENDS Naturals, FiniteSets

CONSTANTS MaxRows,    \* buffer.max_rows: the ring's capacity
          BatchSize,  \* buffer.backfill_batch_size: rows per drain pass
          MaxId       \* model bound: ids stop at MaxId

ASSUME OutboxConstants ==
  /\ MaxRows \in Nat
  /\ BatchSize \in Nat \ {0}
  /\ MaxId \in Nat

VARIABLES rows,       \* ids in the table
          nextId,     \* the id AUTOINCREMENT hands out next
          dropped,    \* history: ids the ring has discarded
          disk,       \* the table that a power loss would leave
          lost        \* history: ids that a power loss took

outboxVars == <<rows, nextId, dropped, disk, lost>>

OutboxTypeOK ==
  /\ rows \subseteq 1 .. MaxId
  /\ nextId \in 1 .. MaxId + 1
  /\ dropped \subseteq 1 .. MaxId
  /\ disk \subseteq 1 .. MaxId
  /\ lost \subseteq 1 .. MaxId

-----------------------------------------------------------------------------
\* SELECT id FROM outbox ORDER BY id ASC LIMIT n, as a set.
Oldest(S, n) == {i \in S : Cardinality({j \in S : j < i}) < n}

\* Mutant: the trim takes one row where it should take the whole surplus.
Mutant_TrimOne(S) == IF Cardinality(S) > MaxRows THEN Oldest(S, 1) ELSE {}

\* The rows _trim_if_needed deletes: all beyond max_rows, oldest first.
Overflow(S) ==
  IF Cardinality(S) > MaxRows THEN Oldest(S, Cardinality(S) - MaxRows) ELSE {}

\* INSERT INTO outbox; commit.
Inserted == rows \cup {nextId}

\* Mutant: a batch is handed out only when it is full.
Mutant_PeekFull ==
  IF Cardinality(rows) < BatchSize THEN {} ELSE Oldest(rows, BatchSize)

\* peek_batch: the oldest rows, at most batch_size of them, nothing changed.
PeekBatch == Oldest(rows, BatchSize)

OutboxInit ==
  /\ rows = {}
  /\ nextId = 1
  /\ dropped = {}
  /\ disk = {}
  /\ lost = {}

\* enqueue: insert, commit, then trim and commit, under one lock.
Enqueue ==
  /\ nextId <= MaxId
  /\ rows' = Inserted \ Overflow(Inserted)
  /\ dropped' = dropped \cup Overflow(Inserted)
  /\ nextId' = nextId + 1
  /\ UNCHANGED <<disk, lost>>

\* enqueue cut short after its first commit: the process dies, or the trim
\* raises (a full or failing disk).
EnqueueUntrimmed ==
  /\ nextId <= MaxId
  /\ rows' = Inserted
  /\ nextId' = nextId + 1
  /\ UNCHANGED <<dropped, disk, lost>>

\* delete_ids: ids no longer in the table are ignored by the DELETE.
DeleteIds(ids) ==
  /\ rows' = rows \ ids
  /\ UNCHANGED <<nextId, dropped, disk, lost>>

\* The log reaches the storage: a checkpoint, or the system writes it back.
Flush ==
  /\ disk' = rows
  /\ UNCHANGED <<rows, nextId, dropped, lost>>

\* The power fails.
LosePower ==
  /\ rows' = disk
  /\ lost' = lost \cup (rows \ disk)
  /\ UNCHANGED <<nextId, dropped, disk>>

=============================================================================
