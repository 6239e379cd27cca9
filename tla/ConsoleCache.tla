---------------------------- MODULE ConsoleCache ----------------------------
(***************************************************************************)
(* The console's snapshot (src/backend/app/telemetry/console_cache.py): a    *)
(* thread rebuilds it, handlers that changed the store invalidate it, and    *)
(* readers are told whether what they get is stale.                          *)
(*                                                                           *)
(* build_bootstrap makes several reads of the store with nothing between     *)
(* them to hold the store still: the model keeps two, the summary and the    *)
(* lists.  A change is what one handler commits.  Times are in units of the  *)
(* refresh period.                                                           *)
(***************************************************************************)
EXTENDS Integers, FiniteSets

CONSTANTS
  Writers,         \* handlers, each of which commits one change and invalidates
  MaxAge,          \* MAX_AGE_SECONDS
  MaxBuildFaults   \* builds of a behaviour that raise

ASSUME ConsoleCacheAssumption ==
  /\ IsFiniteSet(Writers) /\ MaxAge \in Nat \ {0} /\ MaxBuildFaults \in Nat

NoSnapshot == [summary |-> {}, lists |-> {}, age |-> MaxAge + 1]

VARIABLES
  writer,       \* writer -> "new", "committed", "bumped" (revision counted), "done" (woken)
  cacheRevision,
  published,    \* published_revision
  snapshot,     \* what the readers get: the changes each part has seen, and its age
  cacheFailed,  \* failed
  wake,         \* the wake event
  closing,      \* the stop event
  keeper,       \* the thread: [pc, revision, summary, lists, age]
  buildFaults

cacheVars == <<writer, cacheRevision, published, snapshot, cacheFailed, wake, closing, keeper, buildFaults>>

Committed == {w \in Writers : writer[w] # "new"}
IdleKeeper == [pc |-> "clear", revision |-> 0, summary |-> {}, lists |-> {}, age |-> 0]

CacheInit ==
  /\ writer = [w \in Writers |-> "new"]
  /\ cacheRevision = 0 /\ published = 0
  /\ snapshot = NoSnapshot /\ cacheFailed = FALSE
  /\ wake = FALSE /\ closing = FALSE
  /\ keeper = IdleKeeper /\ buildFaults = 0

-----------------------------------------------------------------------------
(* A handler: its transaction, then invalidate, which counts a revision under *)
(* the lock and sets the event outside it.                                    *)

CommitChange(w) ==
  /\ writer[w] = "new" /\ writer' = [writer EXCEPT ![w] = "committed"]
  /\ UNCHANGED <<cacheRevision, published, snapshot, cacheFailed, wake, closing, keeper, buildFaults>>

CountRevision(w) ==
  /\ writer[w] = "committed" /\ writer' = [writer EXCEPT ![w] = "bumped"]
  /\ cacheRevision' = cacheRevision + 1
  /\ UNCHANGED <<published, snapshot, cacheFailed, wake, closing, keeper, buildFaults>>

WakeKeeper(w) ==
  /\ writer[w] = "bumped" /\ writer' = [writer EXCEPT ![w] = "done"]
  /\ wake' = TRUE
  /\ UNCHANGED <<cacheRevision, published, snapshot, cacheFailed, closing, keeper, buildFaults>>

Invalidate == \E w \in Writers : CommitChange(w) \/ CountRevision(w) \/ WakeKeeper(w)

-----------------------------------------------------------------------------
(* The thread. *)

\* The loop tests the stop event, clears the wake event and goes to build.
ClearWake ==
  /\ keeper.pc = "clear"
  /\ IF closing THEN keeper' = [keeper EXCEPT !.pc = "ended"] /\ UNCHANGED wake
     ELSE keeper' = [keeper EXCEPT !.pc = "begin"] /\ wake' = FALSE
  /\ UNCHANGED <<writer, cacheRevision, published, snapshot, cacheFailed, closing, buildFaults>>

\* refresh_once: the revision is read before the store is.  Only this thread
\* takes build_lock, so it is always free.
BeginBuild ==
  /\ keeper.pc = "begin"
  /\ keeper' = IF closing THEN [keeper EXCEPT !.pc = "pause"]
               ELSE [keeper EXCEPT !.pc = "summary", !.revision = cacheRevision, !.age = 0]
  /\ UNCHANGED <<writer, cacheRevision, published, snapshot, cacheFailed, wake, closing, buildFaults>>

ReadSummary ==
  /\ keeper.pc = "summary"
  /\ keeper' = [keeper EXCEPT !.pc = "lists", !.summary = Committed]
  /\ UNCHANGED <<writer, cacheRevision, published, snapshot, cacheFailed, wake, closing, buildFaults>>

ReadLists ==
  /\ keeper.pc = "lists"
  /\ keeper' = [keeper EXCEPT !.pc = "publish", !.lists = Committed]
  /\ UNCHANGED <<writer, cacheRevision, published, snapshot, cacheFailed, wake, closing, buildFaults>>

(* Mutant of Counted: the revision is read when the snapshot is published. *)
CountedLate(k) == cacheRevision
\* The revision a snapshot is published under.
Counted(k) == k.revision

\* The snapshot replaces the last one, unless close came first.
PublishSnapshot ==
  /\ keeper.pc = "publish"
  /\ IF closing THEN UNCHANGED <<snapshot, published, cacheFailed>>
     ELSE /\ snapshot' = [summary |-> keeper.summary, lists |-> keeper.lists, age |-> keeper.age]
          /\ published' = Counted(keeper)
          /\ cacheFailed' = FALSE
  /\ keeper' = [keeper EXCEPT !.pc = "pause"]
  /\ UNCHANGED <<writer, cacheRevision, wake, closing, buildFaults>>

\* A read raises, or the snapshot is over its bound: the last one is kept.
FailBuild ==
  /\ keeper.pc \in {"summary", "lists", "publish"} /\ buildFaults < MaxBuildFaults
  /\ buildFaults' = buildFaults + 1
  /\ cacheFailed' = TRUE
  /\ keeper' = [keeper EXCEPT !.pc = "pause"]
  /\ UNCHANGED <<writer, cacheRevision, published, snapshot, wake, closing>>

(* Mutant of Pause: the wake event is cleared after the build, not before it. *)
PauseCleared ==
  /\ keeper.pc = "pause"
  /\ keeper' = [keeper EXCEPT !.pc = IF closing THEN "ended" ELSE "wait"]
  /\ wake' = FALSE
  /\ UNCHANGED <<writer, cacheRevision, published, snapshot, cacheFailed, closing, buildFaults>>
\* At least two seconds between two builds; only close cuts it short.
Pause ==
  /\ keeper.pc = "pause"
  /\ keeper' = [keeper EXCEPT !.pc = IF closing THEN "ended" ELSE "wait"]
  /\ UNCHANGED <<writer, cacheRevision, published, snapshot, cacheFailed, wake, closing, buildFaults>>

\* wake.wait returns at once when the event is set.
Woken ==
  /\ keeper.pc = "wait" /\ wake
  /\ keeper' = [keeper EXCEPT !.pc = "clear"]
  /\ UNCHANGED <<writer, cacheRevision, published, snapshot, cacheFailed, wake, closing, buildFaults>>

\* A refresh period passes: every snapshot ages, and a wait ends.
CachePeriod ==
  /\ snapshot' = [snapshot EXCEPT !.age = IF @ > MaxAge THEN @ ELSE @ + 1]
  /\ keeper' = [keeper EXCEPT !.pc = IF @ = "wait" THEN "clear" ELSE @,
                              !.age = IF @ > MaxAge THEN @ ELSE @ + 1]
  /\ UNCHANGED <<writer, cacheRevision, published, cacheFailed, wake, closing, buildFaults>>

\* close: the stop event, then the wake event, so that the thread ends.
CloseCache ==
  /\ ~closing /\ closing' = TRUE /\ wake' = TRUE
  /\ UNCHANGED <<writer, cacheRevision, published, snapshot, cacheFailed, keeper, buildFaults>>

Keep == ClearWake \/ BeginBuild \/ ReadSummary \/ ReadLists \/ PublishSnapshot \/ Pause \/ Woken
CacheNext == Invalidate \/ Keep \/ FailBuild \/ CachePeriod \/ CloseCache

\* Handlers finish and the thread runs.  No fairness makes a wait time out:
\* what liveness asks for must come from the wake event.
CacheSpec == CacheInit /\ [][CacheNext]_cacheVars /\ WF_cacheVars(Invalidate) /\ WF_cacheVars(Keep)

-----------------------------------------------------------------------------
(* What read answers. *)

Ready == snapshot.age <= MaxAge
Stale == cacheFailed \/ cacheRevision # published \/ snapshot.age > 1

-----------------------------------------------------------------------------
(* Properties. *)

CacheTypeOK ==
  /\ writer \in [Writers -> {"new", "committed", "bumped", "done"}]
  /\ cacheRevision \in 0 .. Cardinality(Writers) /\ published \in 0 .. cacheRevision
  /\ cacheFailed \in BOOLEAN /\ wake \in BOOLEAN /\ closing \in BOOLEAN
  /\ snapshot \in [summary : SUBSET Writers, lists : SUBSET Writers, age : 0 .. MaxAge + 1]
  /\ keeper \in [pc : {"clear", "begin", "summary", "lists", "publish", "pause", "wait", "ended"},
                 revision : 0 .. cacheRevision, summary : SUBSET Writers, lists : SUBSET Writers,
                 age : 0 .. MaxAge + 1]

\* A snapshot that is not called stale holds, in all its parts, every change
\* whose handler had counted its revision, though the parts are read one after
\* the other while handlers commit (console_cache.py:99-112, :134).
FreshSnapshotHasEveryChange ==
  ~Stale => \A w \in Writers :
    writer[w] \in {"bumped", "done"} => w \in snapshot.summary /\ w \in snapshot.lists

\* Every change is shown, or called stale because a build failed, or the service is
\* closing.  That this comes about without a refresh period passing is what the
\* event is for: no invalidation is lost between the end of a build and the wait
\* (console_cache.py:143-152).
ChangesShown ==
  cacheFailed \/ closing
  \/ \A w \in Writers : writer[w] # "new" => w \in snapshot.summary \cap snapshot.lists
=============================================================================
