------------------------- MODULE NetworkCollection --------------------------
(***************************************************************************)
(* Network collection: the export helper on the monitored host              *)
(* (src/scripts/network_export.py), the collector that pulls pages through   *)
(* it over SSH and posts them (src/scripts/network_collector.py), and the    *)
(* central store.  The journal is vacuumed from its oldest record, the       *)
(* firewall rules may change under a page, the collector may be killed at    *)
(* any step, and a request it gave up on may still reach the store.          *)
(*                                                                           *)
(* The recovery check (src/scripts/network_recovery.py) is here too: what a  *)
(* backup demands of the pair (collector files, store) is a predicate on     *)
(* this state.                                                               *)
(***************************************************************************)
EXTENDS NetworkStore

CONSTANTS
  MaxPageEntries,\* MAX_ENTRIES: records of one page
  ValidFrom,     \* the first record logged at or after profile_valid_from_us
  MaxSpool,      \* max_spool_bytes, in the units of PendingSize and StateSize
  MaxNetFaults,  \* crashes, lost answers and rule changes of a behaviour
  MaxEmpty       \* empty batches the store holds before polls without news stop

ASSUME NetworkCollectionAssumption ==
  /\ MaxPageEntries \in Nat \ {0} /\ ValidFrom \in Nat
  /\ MaxSpool \in Nat /\ MaxNetFaults \in Nat /\ MaxEmpty \in Nat

PendingSize == 2
StateSize == 1
NoState == [cursor |-> None, last |-> None]
NoPending == [id |-> None]

VARIABLES
  top,        \* records logged so far
  low,        \* records vacuumed away
  recent,     \* records logged more than 600 s ago
  rulesOK,    \* the ruleset has the profile's fingerprint
  page,       \* the exporter's page in the making
  netPhase,   \* the step the collector is at
  state,      \* network.state.json
  netPending, \* network.pending.json
  orphans,    \* what killed atomic writes left in the state directory
  requests,   \* posted batches the store has yet to answer
  lost,       \* the state directory was lost
  netFaults   \* faults so far

hostVars == <<top, low, recent, rulesOK>>
fileVars == <<state, netPending, orphans>>
netVars == <<storeVars, hostVars, page, netPhase, fileVars, requests, lost, netFaults>>

NoPage == [reports |-> {}, valid |-> FALSE, entries |-> <<>>, limited |-> FALSE, seen |-> 0]

NetInit ==
  /\ StoreInit
  /\ top = 0 /\ low = 0 /\ recent = 0 /\ rulesOK = TRUE
  /\ page = NoPage /\ netPhase = "idle"
  /\ state = NoState /\ netPending = NoPending /\ orphans = 0
  /\ requests = {} /\ lost = FALSE /\ netFaults = 0

NetFault == netFaults < MaxNetFaults /\ netFaults' = netFaults + 1

-----------------------------------------------------------------------------
(* The monitored host. *)

\* The kernel logs an enrolled record (external: the journal).
NetLog ==
  /\ top < MaxRecords
  /\ top' = top + 1
  /\ UNCHANGED <<storeVars, low, recent, rulesOK, page, netPhase, fileVars, requests, lost, netFaults>>

\* Ten minutes pass for the records logged so far.
Age ==
  /\ recent < top
  /\ recent' = top
  /\ UNCHANGED <<storeVars, top, low, rulesOK, page, netPhase, fileVars, requests, lost, netFaults>>

\* journald removes its oldest file.
NetVacuum ==
  /\ low < top
  /\ low' = low + 1
  /\ UNCHANGED <<storeVars, top, recent, rulesOK, page, netPhase, fileVars, requests, lost, netFaults>>

\* The firewall rules leave the reviewed fingerprint, or come back to it.
RulesChange ==
  /\ NetFault
  /\ rulesOK' = ~rulesOK
  /\ UNCHANGED <<storeVars, top, low, recent, page, netPhase, fileVars, requests, lost>>

\* cursor_exists
CursorExists(c) == c > low

-----------------------------------------------------------------------------
(* The exporter: export_page checks, reads, and checks again. *)

\* _spool_usage: everything the state directory holds, orphans included.
SpoolUsage ==
  orphans + (IF netPending = NoPending THEN 0 ELSE PendingSize)
          + (IF state = NoState THEN 0 ELSE StateSize)

\* _reserve_spool
Reserve(additional) == SpoolUsage + additional =< MaxSpool

\* journal_command and journal_records: what the journal holds after the cursor,
\* or since max(now - 600 s, profile_valid_from) where there is no valid cursor.
NetReadable(c, valid) ==
  {r \in 1..top : r > low /\ (IF valid THEN r > c ELSE r > recent /\ r >= ValidFrom)}

\* Bound: a poll that finds nothing is only taken while the store is not yet full of
\* what such polls leave.
WorthPolling ==
  \/ NetReadable(state.cursor, state.cursor # None /\ CursorExists(state.cursor)) # {}
  \/ Cardinality({i \in DOMAIN netBatches : netBatches[i].entries = <<>>}) < MaxEmpty

\* collect_page without a pending batch, up to the first checks of export_page.
Fetch ==
  /\ netPhase = "idle" /\ netPending = NoPending
  /\ Reserve(0)
  /\ WorthPolling
  /\ LET c == state.cursor
         valid == c # None /\ CursorExists(c)
     IN page' = [NoPage EXCEPT
          !.valid = valid,
          !.reports = IF ~rulesOK THEN {"profile_drift"}
                      ELSE (IF c = None THEN {"coverage_start"}
                            ELSE IF ~valid THEN {"journal_cursor_unavailable"} ELSE {})
                           \cup (IF ~valid /\ recent < ValidFrom
                                 THEN {"profile_boundary"} ELSE {})]
  /\ netPhase' = IF rulesOK THEN "reading" ELSE "exported"
  /\ UNCHANGED <<storeVars, hostVars, fileVars, requests, lost, netFaults>>

\* export_page: the loop over the records, oldest first.
ReadPage ==
  /\ netPhase = "reading"
  /\ LET all == NetReadable(state.cursor, page.valid)
         size == Cardinality(all)
         n == IF size < MaxPageEntries THEN size ELSE MaxPageEntries
         first == IF all = {} THEN 1 ELSE CHOOSE r \in all : \A s \in all : r =< s
         entries == [i \in 1..n |-> first + i - 1]
     IN page' = [page EXCEPT
          !.entries = entries,
          !.limited = n = MaxPageEntries,
          !.seen = top,
          !.reports = @ \cup (IF \E i \in 1..n : entries[i] < ValidFrom
                              THEN {"profile_boundary"} ELSE {})]
  /\ netPhase' = "exported"
  /\ UNCHANGED <<storeVars, hostVars, fileVars, requests, lost, netFaults>>

(* Mutant of CursorGone: the cursor is only checked before the read. *)
CursorGoneNever(c) == FALSE
\* The record a page was read after has left the journal under the read.
CursorGone(c) == page.valid /\ ~CursorExists(c)

\* export_page: the rules and the cursor are checked again after the read.  The id
\* stands for a uuid: between two pages a batch is committed or the state is lost.
FinishedPage ==
  LET c == state.cursor
      void(reports) == [id |-> 1 + Len(netBatches) + (MaxBatches + 1) * netFaults,
                        before |-> c, after |-> c, entries |-> <<>>,
                        reports |-> reports, caughtUp |-> FALSE, seen |-> 0]
  IN CASE "profile_drift" \in page.reports \/ ~rulesOK -> void({"profile_drift"})
       [] CursorGone(c) -> void({"journal_cursor_unavailable"})
       [] OTHER ->
            LET atEnd == ~page.limited /\ "journal_cursor_unavailable" \notin page.reports
            IN [void(page.reports \cup (IF page.limited THEN {"catching_up"} ELSE {})) EXCEPT
                  !.entries = page.entries,
                  !.after = IF page.entries = <<>> THEN c ELSE Last(page.entries),
                  !.caughtUp = atEnd,
                  !.seen = IF atEnd THEN page.seen ELSE 0]

-----------------------------------------------------------------------------
(* The collector: collect_page. *)

\* The page arrives, is validated and is spooled before anything is sent.
SpoolPage ==
  /\ netPhase = "exported"
  /\ ValidBatch(FinishedPage)
  /\ Reserve(PendingSize + StateSize)
  /\ netPending' = FinishedPage
  /\ page' = NoPage
  /\ netPhase' = "spooled"
  /\ UNCHANGED <<storeVars, hostVars, state, orphans, requests, lost, netFaults>>

\* A pending batch of an earlier run is taken up again.
Resume ==
  /\ netPhase = "idle" /\ netPending # NoPending
  /\ \/ state.cursor = netPending.before
     \/ state.last = netPending.id /\ state.cursor = netPending.after
  /\ netPhase' = "spooled"
  /\ UNCHANGED <<storeVars, hostVars, page, fileVars, requests, lost, netFaults>>

\* post_batch, once there is room for the state that will follow.
Post ==
  /\ netPhase = "spooled"
  /\ Reserve(StateSize)
  /\ requests' = requests \cup {netPending}
  /\ netPhase' = "waiting"
  /\ UNCHANGED <<storeVars, hostVars, page, fileVars, lost, netFaults>>

\* The store answers a posted batch.  Only the collector that still waits for it
\* hears the answer: an acknowledgement, or a refusal that ends its run.
Answer(b) ==
  /\ b \in requests
  /\ requests' = requests \ {b}
  /\ \/ Commit(b) /\ netPhase' = IF netPhase = "waiting" /\ b = netPending THEN "acked" ELSE netPhase
     \/ Replay(b) /\ netPhase' = IF netPhase = "waiting" /\ b = netPending THEN "acked" ELSE netPhase
     \/ Refuse(b) /\ netPhase' = IF netPhase = "waiting" /\ b = netPending THEN "idle" ELSE netPhase
  /\ UNCHANGED <<hostVars, page, fileVars, lost, netFaults>>

\* The acknowledgement echoes the batch; the state file is replaced.
CommitState ==
  /\ netPhase = "acked"
  /\ state' = [cursor |-> netPending.after, last |-> netPending.id]
  /\ netPhase' = "committed"
  /\ UNCHANGED <<storeVars, hostVars, page, netPending, orphans, requests, lost, netFaults>>

\* Only then is the pending file removed.
UnlinkPending ==
  /\ netPhase = "committed"
  /\ netPending' = NoPending
  /\ netPhase' = "idle"
  /\ UNCHANGED <<storeVars, hostVars, page, state, orphans, requests, lost, netFaults>>

\* An error, a deadline or a kill: what is not on disk is gone.  A kill inside an
\* atomic_write leaves its temporary file behind.
NetAbort ==
  /\ netPhase # "idle"
  /\ NetFault
  /\ orphans' \in {orphans}
       \cup (IF netPhase = "exported" /\ Reserve(PendingSize + StateSize)
             THEN {orphans + PendingSize} ELSE {})
       \cup (IF netPhase = "acked" THEN {orphans + StateSize} ELSE {})
  /\ page' = NoPage
  /\ netPhase' = "idle"
  /\ UNCHANGED <<storeVars, hostVars, state, netPending, requests, lost>>

\* The collector's state directory is lost (a reinstalled collector).
LoseState ==
  /\ netPhase = "idle" /\ NetFault
  /\ state' = NoState /\ netPending' = NoPending /\ orphans' = 0
  /\ lost' = TRUE
  /\ UNCHANGED <<storeVars, hostVars, page, netPhase, requests>>

NetCollectorStep ==
  Fetch \/ ReadPage \/ SpoolPage \/ Resume \/ Post \/ CommitState \/ UnlinkPending
StoreAnswers == \E b \in requests : Answer(b)

NetNext ==
  \/ NetLog \/ Age \/ NetVacuum \/ RulesChange
  \/ NetCollectorStep \/ NetAbort \/ LoseState \/ StoreAnswers

\* The collector is started by a timer whatever became of its last run, the
\* exporter and the store answer, and none of them stops for ever.
NetFairness ==
  WF_netVars(NetCollectorStep) /\ WF_netVars(StoreAnswers)

NetSpec == NetInit /\ [][NetNext]_netVars /\ NetFairness

-----------------------------------------------------------------------------
(* The recovery check: check_states. *)

CommittedIds == {netBatches[i].id : i \in DOMAIN netBatches}

\* _state_ack: the state is what some committed batch acknowledged.
StateAcknowledged ==
  IF state.last = None THEN state.cursor = None
  ELSE \E i \in DOMAIN netBatches :
         netBatches[i].id = state.last /\ netBatches[i].after = state.cursor

\* check_states and _pending_ack, for the one source of the model.
CheckStates ==
  LET latest == IF netBatches = <<>> THEN None ELSE Last(netBatches).id
      committed == netPending # NoPending /\ netPending.id \in CommittedIds
  IN /\ StateAcknowledged
     /\ netPending # NoPending =>
          \/ state.cursor = netPending.before
          \/ state.last = netPending.id /\ state.cursor = netPending.after
     /\ IF committed
        THEN /\ Replayed(netPending)
             /\ ToSet(netPending.entries) \subseteq ToSet(receipts)
             /\ Checkpoint = netPending.after /\ latest = netPending.id
        ELSE /\ netPending # NoPending => Checkpoint = netPending.before
             /\ state.cursor = Checkpoint /\ state.last = latest

-----------------------------------------------------------------------------
\* A record the journal moved past without a receipt: it was read by no batch,
\* and a committed batch says that the cursor was unavailable where it lay.
SkippedWithReport(r) ==
  \E i \in DOMAIN netBatches :
    /\ "journal_cursor_unavailable" \in netBatches[i].reports
    /\ netBatches[i].before < r

\* Records before the first one of the first page are before coverage_start.
NetCoverageStart ==
  LET full == {i \in DOMAIN netBatches : netBatches[i].entries # <<>>}
  IN IF full = {} THEN MaxRecords + 1
     ELSE Head(netBatches[CHOOSE i \in full : \A j \in full : i =< j].entries)

\* The first record a page vouches for: the one after its cursor, or without a
\* cursor the first it found in the last ten minutes.
PageStart(b) ==
  IF b.before # None THEN b.before + 1
  ELSE IF b.entries = <<>> THEN b.seen + 1 ELSE Head(b.entries)

\* What collection promises the analysis (export_page, ingest): below the
\* checkpoint every record since coverage started has a receipt, unless a
\* committed batch reports that the journal lost the cursor; and a batch that
\* says it caught up leaves nothing that was in the journal when it was read.
NetNothingSkippedSilently ==
  /\ \A r \in NetCoverageStart..Checkpoint : r \in ToSet(receipts) \/ SkippedWithReport(r)
  /\ \A i \in DOMAIN netBatches : netBatches[i].caughtUp =>
       \A r \in PageStart(netBatches[i])..netBatches[i].seen :
         r \in ToSet(receipts) \/ SkippedWithReport(r)

\* A backup takes the collector's lock, copies its files and the store, and
\* demands that they agree (check_states).  Whatever step a run was killed at,
\* and whatever request of it is still under way, the pair it left is one the
\* check accepts, so a healthy collector never makes a backup fail.
BackupAlwaysConsistent == netPhase = "idle" /\ ~lost => CheckStates

\* The quota of the state directory (max_spool_bytes) holds at every instant,
\* leftovers of killed writes included: both reservations leave room for the
\* temporary file of the write that follows.
SpoolBounded == SpoolUsage =< MaxSpool

\* Network collection is sound (collect_page, export_page, check_states): no record
\* is passed over in silence, a backup never finds the files and the store at odds,
\* and the state directory stays within its quota.
NetCollectionIsSound == NetNothingSkippedSilently /\ BackupAlwaysConsistent /\ SpoolBounded

\* The collector cannot go on by itself: its state was lost, its directory is
\* full of leftovers, the store is full, or the rules stay changed.
NeedsOperator ==
  \/ lost
  \/ SpoolUsage + PendingSize + StateSize > MaxSpool
  \/ netPending # NoPending /\ ~HasCapacity(netPending)
  \/ ~rulesOK

\* Collection has kept up (run_once and its timer): each record that stays in the
\* journal and in the window an export reads has its receipt, unless the collector
\* has to wait for an operator.
RecordsReceipted ==
  \/ NeedsOperator
  \/ \A r \in 1..top : r \in ToSet(receipts) \/ r =< low \/ r =< recent \/ r < ValidFrom
=============================================================================
