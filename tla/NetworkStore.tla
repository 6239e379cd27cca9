---------------------------- MODULE NetworkStore ----------------------------
(***************************************************************************)
(* The durable side of network collection for one source                   *)
(* (src/backend/app/telemetry/network_store.py): the committed batches, the *)
(* receipts that remember every record ever accepted, and the raw events,   *)
(* which unlike the receipts expire.                                        *)
(*                                                                          *)
(* A record is its place in the source's journal; None is the cursor before *)
(* the first one.  A batch is [id, before, after, entries, reports,         *)
(* caughtUp, seen]; `seen` is the length of the journal when a page that    *)
(* caught up was read, and only the properties look at it.                  *)
(***************************************************************************)
EXTENDS Naturals, Sequences, FiniteSets, SequencesExt

CONSTANTS
  MaxRecords,    \* records the source may log
  Unparsable,    \* records whose message parse_ufw refuses
  MaxBatches,    \* max_batches
  MaxReceipts    \* max_receipts, which is also max_events

ASSUME NetworkStoreAssumption ==
  /\ MaxRecords \in Nat /\ MaxBatches \in Nat /\ MaxReceipts \in Nat
  /\ Unparsable \subseteq 1..MaxRecords

None == 0
Records == 1..MaxRecords
Reports == {"coverage_start", "journal_cursor_unavailable", "profile_boundary",
            "catching_up", "profile_drift"}

VARIABLES
  netBatches, \* network_batches in seq order; the last one is the network_sources row
  receipts,   \* network_receipts in rowid order: the records
  events,     \* network_events: the records whose event_json is still stored
  expired     \* those of them received more than retention_days ago

storeVars == <<netBatches, receipts, events, expired>>

StoreInit ==
  /\ netBatches = <<>>
  /\ receipts = <<>>
  /\ events = {}
  /\ expired = {}

-----------------------------------------------------------------------------
\* network_sources.checkpoint
Checkpoint == IF netBatches = <<>> THEN None ELSE Last(netBatches).after

\* journal_entry: a record is an event, or a rejection that keeps only its identity
Kind(r) == IF r \in Unparsable THEN "rejection" ELSE "event"

\* validate_batch: the part that ties a batch's fields to each other
ValidBatch(b) ==
  /\ b.caughtUp => b.reports \cap {"catching_up", "profile_drift",
                                   "journal_cursor_unavailable"} = {}
  /\ "profile_drift" \in b.reports => b.entries = <<>>
  /\ b.after = IF b.entries = <<>> THEN b.before ELSE Last(b.entries)

\* _replay
Replayed(b) == \E i \in DOMAIN netBatches : netBatches[i].id = b.id /\ netBatches[i] = b
Conflicts(b) == \E i \in DOMAIN netBatches : netBatches[i].id = b.id /\ netBatches[i] # b

\* The entries of a batch that have no receipt yet, in their order: the k-th is the
\* one that has k of their positions up to its own.
FreshEntries(b) ==
  LET fresh == {i \in DOMAIN b.entries : b.entries[i] \notin ToSet(receipts)}
      Rank(i) == Cardinality({j \in fresh : j =< i})
  IN [k \in 1..Cardinality(fresh) |-> b.entries[CHOOSE i \in fresh : Rank(i) = k]]

\* Room under max_batches and max_receipts.
HasCapacity(b) ==
  /\ Len(netBatches) < MaxBatches
  /\ Len(receipts) + Len(FreshEntries(b)) =< MaxReceipts

\* ingest: the transaction of a new batch.  It first deletes the expired events
\* (at most RETENTION_BATCH of them, more than a model holds).
Commit(b) ==
  /\ ~Replayed(b) /\ ~Conflicts(b)
  /\ ValidBatch(b)
  /\ b.before = Checkpoint
  /\ HasCapacity(b)
  /\ netBatches' = Append(netBatches, b)
  /\ receipts' = receipts \o FreshEntries(b)
  /\ events' = (events \ expired) \cup {r \in ToSet(FreshEntries(b)) : Kind(r) = "event"}
  /\ expired' = {}

\* ingest: every other outcome changes nothing.
Refuse(b) ==
  /\ ~Replayed(b)
  /\ Conflicts(b) \/ ~ValidBatch(b) \/ b.before # Checkpoint \/ ~HasCapacity(b)
  /\ UNCHANGED storeVars

\* ingest: the stored response again.
Replay(b) == Replayed(b) /\ UNCHANGED storeVars

\* retention_days pass for the events stored now.
Expire ==
  /\ events # expired
  /\ expired' = events
  /\ UNCHANGED <<netBatches, receipts, events>>
=============================================================================
