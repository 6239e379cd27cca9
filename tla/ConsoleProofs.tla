--------------------------- MODULE ConsoleProofs ----------------------------
(***************************************************************************)
(* What a person is told rests on facts:                                   *)
(*  - a snapshot of the console that is not called stale has every change  *)
(*    whose handler has counted its revision (ConsoleCache);               *)
(*  - a daily report counts each row of its day once, and no day is passed *)
(*    over in silence (Briefings);                                         *)
(*  - a verdict that dismisses leaves no observation unexplained and       *)
(*    survives no further success (TriageEvidence);                        *)
(*  - a firewall whose fingerprint is the reviewed one treats every source *)
(*    as it was reviewed to (NetworkGuard);                                *)
(*  - the pages a client reads of a listing make one list, whatever is     *)
(*    published, restored, received or expired in between (PagedReads);    *)
(*  - an HTTP case rests on every record analysed around its hour, and its *)
(*    revisions can be given back (HttpAnalysis);                          *)
(*  - an investigation flow that has ended is recorded whole, and the      *)
(*    audit chain of one request at a time verifies (SocWorkflow).         *)
(***************************************************************************)
EXTENDS ConsoleCache, Briefings, TriageEvidence, NetworkGuard, PagedReads,
        HttpAnalysis, SocWorkflow, DataLemmas

-----------------------------------------------------------------------------
(* The inductive invariant.                                                *)

(* The writers whose change has been counted in the revision.              *)
CountedWriters == {w \in Writers : writer[w] \in {"bumped", "done"}}

(* The revision counts the writers, and whoever remembers a revision       *)
(* remembers one of the past.                                              *)
RevisionCounts ==
  /\ cacheRevision = Cardinality(CountedWriters)
  /\ published =< cacheRevision /\ keeper.revision =< cacheRevision

(* As long as the revision is the one the build began with, what the build *)
(* has read holds every counted change: the revision was read first.       *)
BuildIsCurrent ==
  keeper.revision = cacheRevision =>
    /\ keeper.pc \in {"lists", "publish"} => CountedWriters \subseteq keeper.summary
    /\ keeper.pc = "publish" => CountedWriters \subseteq keeper.lists

(* The same of the snapshot, for the revision it was published under.      *)
SnapshotIsCurrent ==
  published = cacheRevision =>
    CountedWriters \subseteq snapshot.summary /\ CountedWriters \subseteq snapshot.lists

CacheInv == CacheTypeOK /\ RevisionCounts /\ BuildIsCurrent /\ SnapshotIsCurrent

-----------------------------------------------------------------------------
KeeperSteps == {"clear", "begin", "summary", "lists", "publish", "pause", "wait", "ended"}

(* Every field of the thread's record.                                     *)
KeeperTyped(k, revision) ==
  k \in [pc : KeeperSteps, revision : 0 .. revision, summary : SUBSET Writers,
         lists : SUBSET Writers, age : 0 .. MaxAge + 1]

SnapshotTyped(s) ==
  s \in [summary : SUBSET Writers, lists : SUBSET Writers, age : 0 .. MaxAge + 1]

LEMMA CacheTyped ==
    ASSUME CacheInv
    PROVE  /\ KeeperTyped(keeper, cacheRevision) /\ SnapshotTyped(snapshot)
           /\ cacheFailed \in BOOLEAN /\ wake \in BOOLEAN /\ closing \in BOOLEAN
           /\ cacheRevision \in Nat /\ published \in 0 .. cacheRevision
           /\ Cardinality(Writers) \in Nat
  BY ConsoleCacheAssumption, FS_CardinalityType
     DEF CacheInv, CacheTypeOK, KeeperSteps, KeeperTyped, SnapshotTyped

(* What each way of writing to the thread's record leaves in it.           *)
LEMMA KeeperMoved ==
    ASSUME NEW k, NEW revision \in Nat, KeeperTyped(k, revision), NEW step \in KeeperSteps
    PROVE  LET moved == [k EXCEPT !.pc = step]
           IN /\ KeeperTyped(moved, revision)
              /\ moved.pc = step /\ moved.revision = k.revision
              /\ moved.summary = k.summary /\ moved.lists = k.lists
  BY DEF KeeperTyped

LEMMA KeeperFields ==
    ASSUME NEW k, NEW revision \in Nat, KeeperTyped(k, revision)
    PROVE  /\ k = [pc |-> k.pc, revision |-> k.revision, summary |-> k.summary,
                   lists |-> k.lists, age |-> k.age]
           /\ k.pc \in KeeperSteps /\ k.revision \in 0 .. revision
           /\ k.summary \in SUBSET Writers /\ k.lists \in SUBSET Writers
           /\ k.age \in 0 .. MaxAge + 1
  BY DEF KeeperTyped

LEMMA KeeperBegun ==
    ASSUME NEW k, NEW revision \in Nat, KeeperTyped(k, revision)
    PROVE  LET begun == [k EXCEPT !.pc = "summary", !.revision = revision, !.age = 0]
           IN KeeperTyped(begun, revision) /\ begun.pc = "summary"
  <1> DEFINE one == [k EXCEPT !.pc = "summary"]
             two == [one EXCEPT !.revision = revision]
             three == [two EXCEPT !.age = 0]
  <1>1. KeeperTyped(one, revision) /\ one.pc = "summary"
    BY DEF KeeperTyped, KeeperSteps
  <1>2. KeeperTyped(two, revision) /\ two.pc = "summary"
    <2> HIDE DEF one
    <2> QED
      BY <1>1 DEF KeeperTyped
  <1>3. KeeperTyped(three, revision) /\ three.pc = "summary"
    <2> HIDE DEF two
    <2> QED
      BY <1>2, ConsoleCacheAssumption DEF KeeperTyped
  <1>4. QED
    BY <1>3, Zenon

LEMMA KeeperReadSummary ==
    ASSUME NEW k, NEW revision \in Nat, KeeperTyped(k, revision), NEW seen \in SUBSET Writers
    PROVE  LET read == [k EXCEPT !.pc = "lists", !.summary = seen]
           IN KeeperTyped(read, revision) /\ read.pc = "lists" /\ read.summary = seen
  BY DEF KeeperTyped, KeeperSteps

LEMMA KeeperReadLists ==
    ASSUME NEW k, NEW revision \in Nat, KeeperTyped(k, revision), NEW seen \in SUBSET Writers
    PROVE  LET read == [k EXCEPT !.pc = "publish", !.lists = seen]
           IN /\ KeeperTyped(read, revision) /\ read.pc = "publish" /\ read.lists = seen
              /\ read.summary = k.summary /\ read.revision = k.revision
  BY DEF KeeperTyped, KeeperSteps

LEMMA KeeperAged ==
    ASSUME NEW k, NEW revision \in Nat, KeeperTyped(k, revision)
    PROVE  LET aged == [k EXCEPT !.pc = IF @ = "wait" THEN "clear" ELSE @,
                                 !.age = IF @ > MaxAge THEN @ ELSE @ + 1]
           IN /\ KeeperTyped(aged, revision)
              /\ aged.pc \in {k.pc, "clear"} /\ aged.revision = k.revision
              /\ aged.summary = k.summary /\ aged.lists = k.lists
  <1> DEFINE pc == IF k.pc = "wait" THEN "clear" ELSE k.pc
             age == IF k.age > MaxAge THEN k.age ELSE k.age + 1
  <1>1. pc \in KeeperSteps /\ pc \in {k.pc, "clear"} /\ age \in 0 .. MaxAge + 1
    BY KeeperFields, ConsoleCacheAssumption DEF KeeperSteps
  <1> HIDE DEF pc, age
  <1> DEFINE one == [k EXCEPT !.pc = pc]
             two == [one EXCEPT !.age = age]
  <1>2. /\ KeeperTyped(one, revision) /\ one.pc = pc /\ one.revision = k.revision
        /\ one.summary = k.summary /\ one.lists = k.lists
    BY <1>1 DEF KeeperTyped
  <1>3. /\ KeeperTyped(two, revision) /\ two.pc = one.pc /\ two.revision = one.revision
        /\ two.summary = one.summary /\ two.lists = one.lists
    <2> HIDE DEF one
    <2> QED
      BY <1>1, <1>2 DEF KeeperTyped
  <1>4. QED
    BY <1>1, <1>2, <1>3, Zenon DEF pc, age

LEMMA SnapshotAged ==
    ASSUME NEW s, SnapshotTyped(s)
    PROVE  LET aged == [s EXCEPT !.age = IF @ > MaxAge THEN @ ELSE @ + 1]
           IN SnapshotTyped(aged) /\ aged.summary = s.summary /\ aged.lists = s.lists
  BY ConsoleCacheAssumption DEF SnapshotTyped

LEMMA CacheInitInv == CacheInit => CacheInv
  <1> SUFFICES ASSUME CacheInit PROVE CacheInv
    OBVIOUS
  <1>1. Cardinality(Writers) \in Nat
    BY ConsoleCacheAssumption, FS_CardinalityType
  <1>2. CacheTypeOK
    <2>1. cacheFailed \in BOOLEAN /\ wake \in BOOLEAN /\ closing \in BOOLEAN
      BY Zenon DEF CacheInit
    <2>2. SnapshotTyped(snapshot)
      BY ConsoleCacheAssumption DEF CacheInit, NoSnapshot, SnapshotTyped
    <2>3. /\ writer \in [Writers -> {"new", "committed", "bumped", "done"}]
          /\ cacheRevision \in 0 .. Cardinality(Writers) /\ published \in 0 .. cacheRevision
      BY <1>1 DEF CacheInit
    <2>4. keeper \in [pc : KeeperSteps, revision : 0 .. cacheRevision, summary : SUBSET Writers,
                      lists : SUBSET Writers, age : 0 .. MaxAge + 1]
      BY ConsoleCacheAssumption DEF CacheInit, IdleKeeper, KeeperSteps
    <2>5. QED
      BY <2>1, <2>2, <2>3, <2>4 DEF CacheTypeOK, KeeperSteps, SnapshotTyped
  <1>3. CountedWriters = {}
    BY DEF CacheInit, CountedWriters
  <1>4. RevisionCounts
    BY <1>3, FS_EmptySet DEF CacheInit, RevisionCounts, IdleKeeper
  <1>5. BuildIsCurrent /\ SnapshotIsCurrent
    BY <1>3 DEF CacheInit, BuildIsCurrent, SnapshotIsCurrent
  <1>6. QED
    BY <1>2, <1>4, <1>5 DEF CacheInv

(* A writer commits, is counted and sets the event.                        *)
LEMMA InvalidateInv ==
    ASSUME CacheInv, Invalidate
    PROVE  CacheInv'
  <1>1. PICK w \in Writers : CommitChange(w) \/ CountRevision(w) \/ WakeKeeper(w)
    BY DEF Invalidate
  <1> USE CacheTyped, ConsoleCacheAssumption
  <1>2. writer \in [Writers -> {"new", "committed", "bumped", "done"}]
    BY DEF CacheInv, CacheTypeOK
  <1>3. CASE CommitChange(w)
    <2>1. CountedWriters' = CountedWriters
      BY <1>2, <1>3 DEF CommitChange, CountedWriters
    <2>2. CacheTypeOK'
      BY <1>3 DEF CommitChange, CacheInv, CacheTypeOK
    <2>3. RevisionCounts' /\ BuildIsCurrent' /\ SnapshotIsCurrent'
      BY <1>3, <2>1
         DEF CommitChange, CacheInv, RevisionCounts, BuildIsCurrent, SnapshotIsCurrent
    <2>4. QED
      BY <2>2, <2>3 DEF CacheInv
  <1>4. CASE CountRevision(w)
    <2>1. /\ w \notin CountedWriters
          /\ CountedWriters' = CountedWriters \cup {w}
      BY <1>2, <1>4 DEF CountRevision, CountedWriters
    <2>2. /\ IsFiniteSet(CountedWriters)
          /\ CountedWriters' \in SUBSET Writers
      BY FS_Subset, <2>1 DEF CountedWriters
    <2>3. cacheRevision' = Cardinality(CountedWriters')
      <3>1. Cardinality(CountedWriters \cup {w}) = Cardinality(CountedWriters) + 1
        BY <2>1, <2>2, FS_AddElement
      <3>2. QED
        BY <3>1, <2>1, <1>4 DEF CountRevision, CacheInv, RevisionCounts
    <2>4. cacheRevision' \in 0 .. Cardinality(Writers)
      <3>1. Cardinality(CountedWriters') =< Cardinality(Writers)
        BY <2>2, FS_Subset
      <3>2. QED
        BY <1>4, <2>3, <3>1 DEF CountRevision
    <2>5. CacheTypeOK'
      BY <1>4, <2>4 DEF CountRevision, CacheInv, CacheTypeOK
    <2>6. published' < cacheRevision' /\ keeper'.revision < cacheRevision'
      <3>1. keeper.revision \in Nat /\ published \in Nat
        BY KeeperFields
      <3>2. QED
        BY <3>1, <1>4 DEF CountRevision, CacheInv, RevisionCounts
    <2>7. RevisionCounts' /\ BuildIsCurrent' /\ SnapshotIsCurrent'
      <3>1. published' \in Nat /\ keeper'.revision \in Nat /\ cacheRevision' \in Nat
        BY <1>4, KeeperFields DEF CountRevision
      <3>2. published' # cacheRevision' /\ keeper'.revision # cacheRevision'
        BY <2>6, <3>1
      <3>3. QED
        BY <2>3, <2>6, <3>1, <3>2 DEF RevisionCounts, BuildIsCurrent, SnapshotIsCurrent
    <2>8. QED
      BY <2>5, <2>7 DEF CacheInv
  <1>5. CASE WakeKeeper(w)
    <2>1. CountedWriters' = CountedWriters
      BY <1>2, <1>5 DEF WakeKeeper, CountedWriters
    <2>2. CacheTypeOK'
      BY <1>5 DEF WakeKeeper, CacheInv, CacheTypeOK
    <2>3. RevisionCounts' /\ BuildIsCurrent' /\ SnapshotIsCurrent'
      BY <1>5, <2>1
         DEF WakeKeeper, CacheInv, RevisionCounts, BuildIsCurrent, SnapshotIsCurrent
    <2>4. QED
      BY <2>2, <2>3 DEF CacheInv
  <1>6. QED
    BY <1>1, <1>3, <1>4, <1>5

(* The thread's steps leave the writers and the revision alone; what is to *)
(* be shown of them is the record of the thread and the snapshot.          *)
LEMMA KeeperStepInv ==
    ASSUME CacheInv,
           UNCHANGED <<writer, cacheRevision>>,
           cacheFailed' \in BOOLEAN, wake' \in BOOLEAN, closing' \in BOOLEAN,
           SnapshotTyped(snapshot'),
           KeeperTyped(keeper', cacheRevision), published' \in 0 .. cacheRevision,
           BuildIsCurrent', SnapshotIsCurrent'
    PROVE  CacheInv'
  <1>1. CacheTypeOK'
    BY DEF CacheInv, CacheTypeOK, KeeperTyped, SnapshotTyped, KeeperSteps
  <1>2. CountedWriters' = CountedWriters
    BY DEF CountedWriters
  <1>3. keeper'.revision \in 0 .. cacheRevision
    BY DEF KeeperTyped
  <1>4. RevisionCounts'
    BY <1>2, <1>3, CacheTyped DEF CacheInv, RevisionCounts
  <1>5. QED
    BY <1>1, <1>4 DEF CacheInv

(* A step that moves the thread on without reading or publishing.          *)
LEMMA MoveInv ==
    ASSUME CacheInv, NEW step \in KeeperSteps \ {"lists", "publish"},
           keeper' = [keeper EXCEPT !.pc = step],
           cacheFailed' \in BOOLEAN, wake' \in BOOLEAN,
           UNCHANGED <<writer, cacheRevision, published, snapshot, closing>>
    PROVE  CacheInv'
  <1>1. KeeperTyped(keeper', cacheRevision) /\ keeper'.pc = step
    BY CacheTyped, KeeperMoved
  <1>2. BuildIsCurrent'
    BY <1>1 DEF BuildIsCurrent
  <1>3. SnapshotIsCurrent'
    BY DEF CacheInv, SnapshotIsCurrent, CountedWriters
  <1>4. /\ closing' \in BOOLEAN /\ published' \in 0 .. cacheRevision
        /\ SnapshotTyped(snapshot')
    BY CacheTyped
  <1>5. QED
    BY <1>1, <1>2, <1>3, <1>4, KeeperStepInv

LEMMA KeepInv ==
    ASSUME CacheInv, Keep
    PROVE  CacheInv'
  <1>1. /\ KeeperTyped(keeper, cacheRevision) /\ SnapshotTyped(snapshot)
        /\ cacheFailed \in BOOLEAN /\ wake \in BOOLEAN /\ closing \in BOOLEAN
        /\ cacheRevision \in Nat /\ published \in 0 .. cacheRevision
    BY CacheTyped
  <1>2. SnapshotIsCurrent /\ BuildIsCurrent /\ RevisionCounts
    BY DEF CacheInv
  <1>3. CASE ClearWake
    <2>1. CASE closing
      BY <1>1, <1>3, <2>1, MoveInv, Zenon DEF ClearWake, KeeperSteps
    <2>2. CASE ~closing
      <3>1. wake' \in BOOLEAN
        BY <1>3, <2>2, Zenon DEF ClearWake
      <3>2. QED
        BY <1>1, <1>3, <2>2, <3>1, MoveInv, Zenon DEF ClearWake, KeeperSteps
    <2>3. QED
      BY <2>1, <2>2
  <1>4. CASE BeginBuild
    <2>1. CASE closing
      BY <1>1, <1>4, <2>1, MoveInv, Zenon DEF BeginBuild, KeeperSteps
    <2>2. CASE ~closing
      <3>1. KeeperTyped(keeper', cacheRevision) /\ keeper'.pc = "summary"
        BY <1>1, <1>4, <2>2, KeeperBegun, Zenon DEF BeginBuild
      <3>2. UNCHANGED <<writer, cacheRevision, published, snapshot, cacheFailed, wake, closing>>
        BY <1>4 DEF BeginBuild
      <3>3. BuildIsCurrent' /\ SnapshotIsCurrent'
        BY <1>2, <3>1, <3>2 DEF BuildIsCurrent, SnapshotIsCurrent, CountedWriters
      <3>4. QED
        BY <1>1, <3>1, <3>2, <3>3, KeeperStepInv
    <2>3. QED
      BY <2>1, <2>2
  <1>5. CASE ReadSummary
    <2>1. UNCHANGED <<writer, cacheRevision, published, snapshot, cacheFailed, wake, closing>>
      BY <1>5 DEF ReadSummary
    <2>2. CountedWriters' \subseteq Committed /\ Committed \in SUBSET Writers
      BY <2>1 DEF CountedWriters, Committed
    <2>3. KeeperTyped(keeper', cacheRevision) /\ keeper'.pc = "lists" /\ keeper'.summary = Committed
      BY <1>1, <1>5, <2>2, KeeperReadSummary, Zenon DEF ReadSummary
    <2>4. BuildIsCurrent' /\ SnapshotIsCurrent'
      BY <1>2, <2>1, <2>2, <2>3 DEF BuildIsCurrent, SnapshotIsCurrent, CountedWriters
    <2>5. QED
      BY <1>1, <2>1, <2>3, <2>4, KeeperStepInv
  <1>6. CASE ReadLists
    <2>1. UNCHANGED <<writer, cacheRevision, published, snapshot, cacheFailed, wake, closing>>
      BY <1>6 DEF ReadLists
    <2>2. CountedWriters' \subseteq Committed /\ Committed \in SUBSET Writers
      BY <2>1 DEF CountedWriters, Committed
    <2>3. /\ KeeperTyped(keeper', cacheRevision) /\ keeper'.pc = "publish"
          /\ keeper'.lists = Committed /\ keeper'.summary = keeper.summary
          /\ keeper'.revision = keeper.revision
      BY <1>1, <1>6, <2>2, KeeperReadLists, Zenon DEF ReadLists
    <2>4. SnapshotIsCurrent' /\ CountedWriters' = CountedWriters
      BY <1>2, <2>1 DEF SnapshotIsCurrent, CountedWriters
    <2>5. keeper.pc = "lists"
      BY <1>6 DEF ReadLists
    <2>6. BuildIsCurrent'
      BY <1>2, <2>1, <2>2, <2>3, <2>4, <2>5 DEF BuildIsCurrent
    <2>7. QED
      BY <1>1, <2>1, <2>3, <2>4, <2>6, KeeperStepInv
  <1>7. CASE PublishSnapshot
    <2>1. CASE closing
      BY <1>1, <1>7, <2>1, MoveInv, Zenon DEF PublishSnapshot, KeeperSteps
    <2>2. CASE ~closing
      <3>1. /\ keeper' = [keeper EXCEPT !.pc = "pause"] /\ keeper.pc = "publish"
            /\ UNCHANGED <<writer, cacheRevision, wake, closing>>
            /\ published' = keeper.revision
            /\ snapshot' = [summary |-> keeper.summary, lists |-> keeper.lists, age |-> keeper.age]
        BY <1>7, <2>2, Zenon DEF PublishSnapshot, Counted
      <3>2. KeeperTyped(keeper', cacheRevision) /\ keeper'.pc = "pause"
        BY <1>1, <3>1, KeeperMoved DEF KeeperSteps
      <3>3. /\ SnapshotTyped(snapshot') /\ published' \in 0 .. cacheRevision
            /\ snapshot'.summary = keeper.summary /\ snapshot'.lists = keeper.lists
        <4> HIDE <3>2
        <4> QED
          BY <1>1, <3>1 DEF KeeperTyped, SnapshotTyped
      <3>4. CountedWriters' = CountedWriters
        BY <3>1 DEF CountedWriters
      <3>5. SnapshotIsCurrent'
        BY <1>2, <3>1, <3>3, <3>4 DEF BuildIsCurrent, SnapshotIsCurrent
      <3>6. BuildIsCurrent'
        BY <3>2 DEF BuildIsCurrent
      <3>7. cacheFailed' \in BOOLEAN
        BY <1>7, <2>2, Zenon DEF PublishSnapshot
      <3>8. QED
        BY <1>1, <3>1, <3>2, <3>3, <3>5, <3>6, <3>7, KeeperStepInv
    <2>3. QED
      BY <2>1, <2>2
  <1>8. CASE Pause
    <2>1. \/ keeper' = [keeper EXCEPT !.pc = "ended"]
          \/ keeper' = [keeper EXCEPT !.pc = "wait"]
      BY <1>8, Zenon DEF Pause
    <2>2. UNCHANGED <<writer, cacheRevision, published, snapshot, cacheFailed, wake, closing>>
      BY <1>8 DEF Pause
    <2>3. QED
      BY <1>1, <2>1, <2>2, MoveInv, Zenon DEF KeeperSteps
  <1>9. CASE Woken
    BY <1>1, <1>9, MoveInv, Zenon DEF Woken, KeeperSteps
  <1>10. QED
    BY <1>3, <1>4, <1>5, <1>6, <1>7, <1>8, <1>9 DEF Keep

(* Failures, time and the end of the service.                              *)
LEMMA CacheOtherInv ==
    ASSUME CacheInv, FailBuild \/ CachePeriod \/ CloseCache
    PROVE  CacheInv'
  <1>1. /\ KeeperTyped(keeper, cacheRevision) /\ SnapshotTyped(snapshot)
        /\ cacheFailed \in BOOLEAN /\ wake \in BOOLEAN /\ closing \in BOOLEAN
        /\ cacheRevision \in Nat /\ published \in 0 .. cacheRevision
    BY CacheTyped
  <1>2. SnapshotIsCurrent /\ BuildIsCurrent /\ RevisionCounts
    BY DEF CacheInv
  <1>3. CASE FailBuild
    <2>1. cacheFailed' \in BOOLEAN
      BY <1>3, Zenon DEF FailBuild
    <2>2. QED
      BY <1>1, <1>3, <2>1, MoveInv, Zenon DEF FailBuild, KeeperSteps
  <1>4. CASE CachePeriod
    <2>1. /\ KeeperTyped(keeper', cacheRevision)
          /\ keeper'.pc \in {keeper.pc, "clear"} /\ keeper'.revision = keeper.revision
          /\ keeper'.summary = keeper.summary /\ keeper'.lists = keeper.lists
      BY <1>1, <1>4, KeeperAged, Zenon DEF CachePeriod
    <2>2. /\ SnapshotTyped(snapshot')
          /\ snapshot'.summary = snapshot.summary /\ snapshot'.lists = snapshot.lists
      BY <1>1, <1>4, SnapshotAged, Zenon DEF CachePeriod
    <2>3. UNCHANGED <<writer, cacheRevision, published, cacheFailed, wake, closing>>
      BY <1>4, Zenon DEF CachePeriod
    <2>4. CountedWriters' = CountedWriters
      BY <2>3 DEF CountedWriters
    <2>5. BuildIsCurrent' /\ SnapshotIsCurrent'
      BY <1>2, <2>1, <2>2, <2>3, <2>4 DEF BuildIsCurrent, SnapshotIsCurrent
    <2>6. QED
      BY <1>1, <2>1, <2>2, <2>3, <2>5, KeeperStepInv
  <1>5. CASE CloseCache
    <2>1. wake' \in BOOLEAN /\ closing' \in BOOLEAN
      BY <1>5, Zenon DEF CloseCache
    <2>2. UNCHANGED <<writer, cacheRevision, published, snapshot, cacheFailed, keeper>>
      BY <1>5 DEF CloseCache
    <2>3. BuildIsCurrent' /\ SnapshotIsCurrent'
      BY <1>2, <2>2 DEF BuildIsCurrent, SnapshotIsCurrent, CountedWriters
    <2>4. QED
      BY <1>1, <2>1, <2>2, <2>3, KeeperStepInv
  <1>6. QED
    BY <1>3, <1>4, <1>5

LEMMA CacheStepInv == CacheInv /\ [CacheNext]_cacheVars => CacheInv'
  <1> SUFFICES ASSUME CacheInv, [CacheNext]_cacheVars PROVE CacheInv'
    OBVIOUS
  <1>1. CASE CacheNext
    BY <1>1, InvalidateInv, KeepInv, CacheOtherInv DEF CacheNext
  <1>2. CASE UNCHANGED cacheVars
    BY <1>2 DEF cacheVars, CacheInv, CacheTypeOK, RevisionCounts, BuildIsCurrent,
                SnapshotIsCurrent, CountedWriters
  <1>3. QED
    BY <1>1, <1>2

(* Every variable of the cache keeps its type: in particular the revision  *)
(* never counts more than the handlers that changed something, and neither *)
(* the published revision nor the one a build holds runs ahead of it       *)
(* (invalidate, refresh_once).                                             *)
THEOREM CacheTypes == CacheSpec => []CacheTypeOK
  <1>1. CacheInv => CacheTypeOK
    BY DEF CacheInv
  <1>2. QED
    BY <1>1, CacheInitInv, CacheStepInv, PTL DEF CacheSpec

(* A snapshot that read does not call stale has every change whose handler *)
(* counted its revision, in all its parts, for any number of handlers and  *)
(* however builds, failures and changes overlap (refresh_once reads the    *)
(* revision before the store and publishes under it).                      *)
THEOREM FreshSnapshot == CacheSpec => []FreshSnapshotHasEveryChange
  <1>1. CacheInv => FreshSnapshotHasEveryChange
    BY DEF CacheInv, SnapshotIsCurrent, CountedWriters, FreshSnapshotHasEveryChange, Stale
  <1>2. QED
    BY <1>1, CacheInitInv, CacheStepInv, PTL DEF CacheSpec

-----------------------------------------------------------------------------
(***************************************************************************)
(* Daily reports.                                                          *)
(***************************************************************************)
Works == [date : Nat, skipped : Nat, cutoff : Nat, stage : Nat, cursor : Nat, counted : [Items -> Nat]]
Reports == [date : Nat, counted : [Items -> Nat], cutoff : Nat, skipped : Nat]
Pages == [reading : {TRUE}, old : {NoWork} \cup Works, last : Nat, next : Works]

BriefingTypeOK ==
  /\ today \in Nat /\ today >= 2 /\ lastDate \in Nat
  /\ briefRows \in SUBSET Items /\ arrived \in Seq(Items)
  /\ work \in {NoWork} \cup Works
  /\ reports \in Seq(Reports)
  /\ page \in [BriefingWorkers -> {NoPage} \cup Pages]

(* The rows of a day among the first received.                             *)
DueOf(date, cutoff, rows) == {i \in Items : DayOf[i] = date /\ \E k \in 1 .. cutoff : rows[k] = i}

(* The row lies before the place the work has come to.                     *)
Passed(i, wk) == StageOf[i] < wk.stage \/ (StageOf[i] = wk.stage /\ i =< wk.cursor)

(* Work on a report has counted the rows before its place, each once, but  *)
(* for rows that retention may have taken.                                 *)
WorkSound(wk, rows, day) ==
  /\ wk.date >= 1 /\ wk.cutoff =< Len(rows)
  /\ \A i \in Items :
       /\ wk.counted[i] =< 1
       /\ wk.counted[i] = 1 => i \in DueOf(wk.date, wk.cutoff, rows) /\ Passed(i, wk)
       /\ i \in DueOf(wk.date, wk.cutoff, rows) /\ Passed(i, wk) =>
            wk.counted[i] = 1 \/ wk.date + RetentionDays < day

(* The days between the last report and this one are the skipped ones.     *)
Follows(wk, last) == last # 0 => wk.date = last + 1 + wk.skipped

ReportSound(r, rows, day) ==
  /\ r.date >= 1 /\ r.cutoff =< Len(rows)
  /\ \A i \in Items :
       /\ r.counted[i] =< 1
       /\ r.counted[i] = 1 => i \in DueOf(r.date, r.cutoff, rows)
       /\ i \in DueOf(r.date, r.cutoff, rows) => r.counted[i] = 1 \/ r.date + RetentionDays < day

(* A row that was received is there unless retention took it.              *)
RowsThere ==
  \A k \in 1 .. Len(arrived) : arrived[k] \in briefRows \/ DayOf[arrived[k]] + RetentionDays < today

WorkInHand == work # NoWork => WorkSound(work, arrived, today) /\ Follows(work, lastDate)

(* What a process has read holds whether or not the checkpoint moved on.   *)
PagesInHand ==
  \A w \in BriefingWorkers : page[w] # NoPage =>
    WorkSound(page[w].next, arrived, today) /\ Follows(page[w].next, page[w].last)

ReportsInOrder ==
  /\ \A n \in 1 .. Len(reports) : ReportSound(reports[n], arrived, today)
  /\ NoDayUnaccounted
  /\ Len(reports) = 0 => lastDate = 0
  /\ Len(reports) > 0 => lastDate = reports[Len(reports)].date

BriefingInv == BriefingTypeOK /\ RowsThere /\ WorkInHand /\ PagesInHand /\ ReportsInOrder

-----------------------------------------------------------------------------
LEMMA BriefingConstants ==
    /\ \A i \in Items : i \in Nat /\ i > 0 /\ DayOf[i] \in Nat /\ StageOf[i] \in Int /\ StageOf[i] =< LastStage
    /\ BatchSize \in Nat /\ BatchSize > 0 /\ RetentionDays \in Nat /\ RetentionDays > 0
    /\ IsFiniteSet(Items) /\ LastStage \in Nat
  BY BriefingsAssumption

LEMMA NoWorkApart == NoWork \notin Works /\ NoPage \notin Pages /\ ~NoPage.reading
  <1>1. ASSUME NEW wk \in Works PROVE wk # NoWork
    <2>1. "stage" \in DOMAIN wk /\ "stage" \notin DOMAIN NoWork
      BY DEF Works, NoWork
    <2>2. QED
      BY <2>1
  <1>2. ASSUME NEW p \in Pages PROVE p # NoPage
    <2>1. p.reading = TRUE /\ NoPage.reading = FALSE
      BY DEF Pages, NoPage
    <2>2. QED
      BY <2>1
  <1>3. QED
    BY <1>1, <1>2 DEF NoPage

(* Later rows and later days leave what was sound.                         *)
LEMMA SoundLater ==
    ASSUME NEW rows \in Seq(Items), NEW more \in Seq(Items), NEW day \in Nat, NEW later \in Nat,
           later >= day, Len(rows) =< Len(more), \A k \in 1 .. Len(rows) : more[k] = rows[k]
    PROVE  /\ \A wk \in Works : WorkSound(wk, rows, day) => WorkSound(wk, more, later)
           /\ \A r \in Reports : ReportSound(r, rows, day) => ReportSound(r, more, later)
  <1>1. ASSUME NEW date, NEW cutoff \in Nat, cutoff =< Len(rows)
        PROVE  DueOf(date, cutoff, rows) = DueOf(date, cutoff, more)
    BY <1>1 DEF DueOf
  <1>2. ASSUME NEW wk \in Works, WorkSound(wk, rows, day) PROVE WorkSound(wk, more, later)
    <2>1. /\ wk.cutoff \in Nat /\ wk.cutoff =< Len(rows) /\ wk.date \in Nat /\ wk.date >= 1
          /\ wk.cutoff =< Len(more)
      BY <1>2 DEF Works, WorkSound
    <2>2. DueOf(wk.date, wk.cutoff, rows) = DueOf(wk.date, wk.cutoff, more)
      BY <1>1, <2>1
    <2>3. wk.date + RetentionDays < day => wk.date + RetentionDays < later
      BY <2>1, BriefingConstants
    <2>4. QED
      BY <1>2, <2>1, <2>2, <2>3 DEF WorkSound
  <1>3. ASSUME NEW r \in Reports, ReportSound(r, rows, day) PROVE ReportSound(r, more, later)
    <2>1. /\ r.cutoff \in Nat /\ r.cutoff =< Len(rows) /\ r.date \in Nat /\ r.date >= 1
          /\ r.cutoff =< Len(more)
      BY <1>3 DEF Reports, ReportSound
    <2>2. DueOf(r.date, r.cutoff, rows) = DueOf(r.date, r.cutoff, more)
      BY <1>1, <2>1
    <2>3. r.date + RetentionDays < day => r.date + RetentionDays < later
      BY <2>1, BriefingConstants
    <2>4. QED
      BY <1>3, <2>1, <2>2, <2>3 DEF ReportSound
  <1>4. QED
    BY <1>2, <1>3

(* The smallest rows of a set, at most n of them.                          *)
RowsBelow(S, i) == {j \in S : j < i}
Smallest(S, n) == {i \in S : Cardinality(RowsBelow(S, i)) < n}

(* They are all of it if they are fewer than n, and otherwise everything   *)
(* up to the largest of them.                                              *)
LEMMA SmallestRows ==
    ASSUME NEW S \in SUBSET Nat, IsFiniteSet(S), NEW n \in Nat, n > 0
    PROVE  /\ Smallest(S, n) \in SUBSET S /\ Cardinality(Smallest(S, n)) \in Nat
           /\ Cardinality(Smallest(S, n)) < n => Smallest(S, n) = S
           /\ Cardinality(Smallest(S, n)) >= n =>
                /\ Max(Smallest(S, n)) \in S
                /\ Smallest(S, n) = {i \in S : i =< Max(Smallest(S, n))}
  <1>1. PICK T : T = Smallest(S, n)
    OBVIOUS
  <1>2. T \in SUBSET S /\ \A i \in S : i \in T <=> Cardinality(RowsBelow(S, i)) < n
    BY <1>1 DEF Smallest
  <1>3. IsFiniteSet(T) /\ Cardinality(T) \in Nat
    BY <1>2, FS_Subset, FS_CardinalityType
  <1>4. \A i \in S : RowsBelow(S, i) \in SUBSET S
    BY DEF RowsBelow
  <1>5. \A i \in S : IsFiniteSet(RowsBelow(S, i)) /\ Cardinality(RowsBelow(S, i)) \in Nat
    BY <1>4, FS_Subset, FS_CardinalityType
  <1>6. ASSUME Cardinality(T) < n, T # S PROVE FALSE
    <2>1. S \ T \in SUBSET Nat /\ S \ T # {}
      BY <1>2, <1>6
    <2>2. PICK i \in S \ T : \A y \in S \ T : i =< y
      BY <2>1, LeastNat
    <2>3. RowsBelow(S, i) \in SUBSET T
      <3>1. ASSUME NEW j \in S, j < i PROVE j \in T
        <4>1. i \in Nat /\ j \in Nat
          BY <2>2
        <4>2. QED
          BY <2>2, <3>1, <4>1
      <3>2. QED
        BY <3>1 DEF RowsBelow
    <2>4. Cardinality(RowsBelow(S, i)) =< Cardinality(T)
      BY <1>3, <2>3, FS_Subset
    <2>5. ~(Cardinality(RowsBelow(S, i)) < n) /\ Cardinality(RowsBelow(S, i)) \in Nat
      BY <1>2, <1>5, <2>2
    <2>6. QED
      BY <1>3, <1>6, <2>4, <2>5
  <1>7. ASSUME Cardinality(T) >= n PROVE Max(T) \in T /\ T = {i \in S : i =< Max(T)}
    <2>1. T # {}
      BY <1>7, FS_EmptySet
    <2>2. T \in SUBSET Int
      BY <1>2
    <2>3. Max(T) \in T /\ \A y \in T : y =< Max(T)
      BY <1>3, <2>1, <2>2, MaxOfFinite
    <2>4. PICK m \in T : m = Max(T)
      BY <2>3
    <2>5. ASSUME NEW i \in S, i =< m PROVE i \in T
      <3>1. m \in S /\ m \in Nat /\ i \in Nat
        BY <1>2
      <3>2. ASSUME NEW j \in S, j < i PROVE j < m
        <4>1. j \in Nat
          OBVIOUS
        <4>2. QED
          BY <2>5, <3>1, <3>2, <4>1
      <3>3. RowsBelow(S, i) \in SUBSET RowsBelow(S, m)
        BY <3>2 DEF RowsBelow
      <3>4. Cardinality(RowsBelow(S, i)) =< Cardinality(RowsBelow(S, m))
        BY <1>5, <3>1, <3>3, FS_Subset
      <3>5. Cardinality(RowsBelow(S, m)) < n
        BY <1>2, <3>1
      <3>6. Cardinality(RowsBelow(S, i)) < n
        BY <1>5, <3>1, <3>4, <3>5
      <3>7. QED
        BY <1>2, <3>6
    <2>6. QED
      BY <1>2, <2>3, <2>4, <2>5
  <1>8. QED
    BY <1>1, <1>2, <1>3, <1>6, <1>7

-----------------------------------------------------------------------------
(* A page of sound work is sound: the rows it passes are counted, each for *)
(* the first time, and a row it does not find was taken by retention.      *)
LEMMA PagedSound ==
    ASSUME BriefingTypeOK, RowsThere, NEW wk \in Works, WorkSound(wk, arrived, today)
    PROVE  /\ Paged(wk) \in Works /\ WorkSound(Paged(wk), arrived, today)
           /\ Paged(wk).date = wk.date /\ Paged(wk).skipped = wk.skipped
  <1>1. PICK taken : taken = Taken(wk)
    OBVIOUS
  <1>2. PICK due : due = DueOf(wk.date, wk.cutoff, arrived)
    OBVIOUS
  <1>3. PICK S : S = NextItems(wk)
    OBVIOUS
  <1>4. /\ wk.date \in Nat /\ wk.skipped \in Nat /\ wk.cutoff \in Nat /\ wk.stage \in Nat
        /\ wk.cursor \in Nat /\ wk.counted \in [Items -> Nat]
    BY DEF Works
  <1>5. /\ S = {i \in Items : i \in briefRows /\ i \in due /\ StageOf[i] = wk.stage /\ i > wk.cursor}
        /\ S \in SUBSET Items /\ S \in SUBSET Nat /\ IsFiniteSet(S)
    <2>1. S = {i \in Items : i \in briefRows /\ i \in due /\ StageOf[i] = wk.stage /\ i > wk.cursor}
      BY <1>2, <1>3 DEF NextItems, Population, DueRows, DueOf, BriefingTypeOK
    <2>2. S \in SUBSET Items /\ S \in SUBSET Nat
      BY <2>1, BriefingConstants
    <2>3. QED
      BY <2>1, <2>2, BriefingConstants, FS_Subset
  <1>6. taken = Smallest(S, BatchSize)
    BY <1>1, <1>3 DEF Taken, Smallest, RowsBelow
  <1>7. /\ taken \in SUBSET S /\ Cardinality(taken) \in Nat
        /\ Cardinality(taken) < BatchSize => taken = S
        /\ Cardinality(taken) >= BatchSize => Max(taken) \in S /\ taken = {i \in S : i =< Max(taken)}
    BY <1>5, <1>6, SmallestRows, BriefingConstants
  <1>8. ASSUME NEW i \in due, i \notin briefRows PROVE wk.date + RetentionDays < today
    <2>1. DayOf[i] = wk.date /\ \E k \in 1 .. wk.cutoff : arrived[k] = i
      BY <1>2 DEF DueOf
    <2>2. PICK k \in 1 .. wk.cutoff : arrived[k] = i
      BY <2>1
    <2>3. k \in 1 .. Len(arrived)
      BY <1>4, <2>2 DEF WorkSound, BriefingTypeOK
    <2>4. QED
      BY <1>8, <2>1, <2>2, <2>3 DEF RowsThere
  (* Work that goes on to a place just behind the rows it took.            *)
  <1>9. ASSUME NEW stage \in Nat, NEW cursor \in Nat, NEW next, next = Counting(wk, taken, stage, cursor),
               \A i \in Items : Passed(i, wk) => Passed(i, next),
               \A i \in Items : Passed(i, next) /\ ~Passed(i, wk) => StageOf[i] = wk.stage /\ i > wk.cursor,
               \A i \in S : i \in taken <=> Passed(i, next)
        PROVE  /\ next \in Works /\ WorkSound(next, arrived, today)
               /\ next.date = wk.date /\ next.skipped = wk.skipped
    <2>1. /\ next.date = wk.date /\ next.skipped = wk.skipped /\ next.cutoff = wk.cutoff
          /\ next.stage = stage /\ next.cursor = cursor
          /\ next.counted = [i \in Items |-> IF i \in taken THEN wk.counted[i] + 1 ELSE wk.counted[i]]
      BY <1>9 DEF Counting
    <2>2. next \in Works
      BY <1>4, <1>9 DEF Counting, Works
    <2>3. ASSUME NEW i \in Items
          PROVE  /\ next.counted[i] =< 1
                 /\ next.counted[i] = 1 => i \in due /\ Passed(i, next)
                 /\ i \in due /\ Passed(i, next) =>
                      next.counted[i] = 1 \/ wk.date + RetentionDays < today
      <3>1. /\ wk.counted[i] \in Nat /\ wk.counted[i] =< 1
            /\ wk.counted[i] = 1 => i \in due /\ Passed(i, wk)
            /\ i \in due /\ Passed(i, wk) => wk.counted[i] = 1 \/ wk.date + RetentionDays < today
        BY <1>2, <1>4 DEF WorkSound
      <3>2. CASE i \in taken
        <4>1. i \in S /\ i \in due /\ i > wk.cursor /\ StageOf[i] = wk.stage
          BY <1>5, <1>7, <3>2
        <4>2. ~Passed(i, wk)
          BY <1>4, <4>1, BriefingConstants DEF Passed
        <4>3. next.counted[i] = 1
          BY <2>1, <3>1, <3>2, <4>2
        <4>4. QED
          BY <1>9, <3>2, <4>1, <4>3
      <3>3. CASE i \notin taken
        <4>1. next.counted[i] = wk.counted[i]
          BY <2>1, <3>3
        <4>2. CASE Passed(i, wk)
          BY <1>9, <3>1, <4>1, <4>2
        <4>3. CASE ~Passed(i, wk)
          <5>1. ASSUME i \in due, Passed(i, next) PROVE wk.date + RetentionDays < today
            <6>1. StageOf[i] = wk.stage /\ i > wk.cursor /\ i \notin S
              BY <1>9, <3>3, <4>3, <5>1
            <6>2. i \notin briefRows
              BY <1>5, <5>1, <6>1
            <6>3. QED
              BY <1>8, <5>1, <6>2
          <5>2. QED
            BY <3>1, <4>1, <4>3, <5>1
        <4>4. QED
          BY <4>2, <4>3
      <3>4. QED
        BY <3>2, <3>3
    <2>4. WorkSound(next, arrived, today)
      BY <1>2, <2>1, <2>3 DEF WorkSound
    <2>5. QED
      BY <2>1, <2>2, <2>4
  <1>10. CASE Cardinality(taken) < BatchSize
    <2>1. PICK next : next = Counting(wk, taken, wk.stage + 1, 0)
      OBVIOUS
    <2>2. next.stage = wk.stage + 1 /\ next.cursor = 0
      BY <2>1 DEF Counting
    <2>3. ASSUME NEW i \in Items
          PROVE  Passed(i, next) <=> Passed(i, wk) \/ (StageOf[i] = wk.stage /\ i > wk.cursor)
      BY <1>4, <2>2, BriefingConstants DEF Passed
    <2>4. \A i \in S : i \in taken /\ Passed(i, next)
      BY <1>5, <1>7, <1>10, <2>3
    <2>5. Paged(wk) = next
      BY <1>1, <1>10, <2>1 DEF Paged
    <2>6. wk.stage + 1 \in Nat
      BY <1>4
    <2>7. QED
      BY <1>9, <2>1, <2>3, <2>4, <2>5, <2>6
  <1>11. CASE ~(Cardinality(taken) < BatchSize)
    <2>1. PICK m : m = Max(taken)
      OBVIOUS
    <2>2. m \in S /\ taken = {i \in S : i =< m}
      BY <1>7, <1>11, <2>1, BriefingConstants
    <2>3. m \in Nat /\ m > wk.cursor /\ StageOf[m] = wk.stage
      BY <1>5, <2>2
    <2>4. PICK next : next = Counting(wk, taken, wk.stage, m)
      OBVIOUS
    <2>5. next.stage = wk.stage /\ next.cursor = m
      BY <2>4 DEF Counting
    <2>6. ASSUME NEW i \in Items
          PROVE  /\ Passed(i, wk) => Passed(i, next)
                 /\ Passed(i, next) /\ ~Passed(i, wk) => StageOf[i] = wk.stage /\ i > wk.cursor
                 /\ StageOf[i] = wk.stage => (Passed(i, next) <=> i =< m)
      BY <1>4, <2>3, <2>5, BriefingConstants DEF Passed
    <2>7. \A i \in S : i \in taken <=> Passed(i, next)
      BY <1>5, <2>2, <2>6
    <2>8. Paged(wk) = next
      BY <1>1, <1>11, <2>1, <2>4 DEF Paged
    <2>9. QED
      BY <1>4, <1>9, <2>3, <2>4, <2>6, <2>7, <2>8
  <1>12. QED
    BY <1>10, <1>11

-----------------------------------------------------------------------------
(* A report that is begun has counted nothing and continues the last one.  *)
LEMMA StartedSound ==
    ASSUME BriefingTypeOK
    PROVE  Started \in Works /\ WorkSound(Started, arrived, today) /\ Follows(Started, lastDate)
  <1>1. NextDate \in Nat /\ NextDate >= 1 /\ Earliest \in Int
    BY BriefingConstants DEF BriefingTypeOK, NextDate, Earliest
  <1>2. PICK date \in Nat, skipped \in Nat :
          /\ date = (IF NextDate > Earliest THEN NextDate ELSE Earliest)
          /\ skipped = (IF Earliest > NextDate THEN Earliest - NextDate ELSE 0)
          /\ date >= 1 /\ date = NextDate + skipped
    BY <1>1
  <1>3. PICK zero : zero = [i \in Items |-> 0]
    OBVIOUS
  <1>4. Started = [date |-> date, skipped |-> skipped, cutoff |-> Len(arrived), stage |-> 1, cursor |-> 0,
                   counted |-> zero]
    BY <1>2, <1>3 DEF Started
  <1>5. Len(arrived) \in Nat /\ zero \in [Items -> Nat]
    BY <1>3 DEF BriefingTypeOK
  <1>6. Started \in Works
    BY <1>4, <1>5 DEF Works
  <1>7. \A i \in Items : zero[i] = 0 /\ ~Passed(i, Started)
    <2>1. Started.stage = 1 /\ Started.cursor = 0
      BY <1>4
    <2>2. ASSUME NEW i \in Items PROVE StageOf[i] >= 1 /\ i > 0 /\ i \in Nat /\ StageOf[i] \in Int
      BY BriefingsAssumption
    <2>3. QED
      BY <1>3, <2>1, <2>2 DEF Passed
  <1>8. WorkSound(Started, arrived, today)
    BY <1>2, <1>4, <1>5, <1>7 DEF WorkSound
  <1>9. Follows(Started, lastDate)
    BY <1>2, <1>4 DEF Follows, NextDate, BriefingTypeOK
  <1>10. QED
    BY <1>6, <1>8, <1>9

(* Work that has passed every table is a sound report.                     *)
LEMMA FinishedSound ==
    ASSUME NEW wk \in Works, NEW rows, NEW day, WorkSound(wk, rows, day), ~(wk.stage =< LastStage),
           NEW r, r = [date |-> wk.date, counted |-> wk.counted, cutoff |-> wk.cutoff, skipped |-> wk.skipped]
    PROVE  r \in Reports /\ ReportSound(r, rows, day)
  <1>1. wk.stage \in Nat
    BY DEF Works
  <1>2. \A i \in Items : Passed(i, wk)
    BY <1>1, BriefingConstants DEF Passed
  <1>3. r \in Reports
    BY DEF Works, Reports
  <1>4. QED
    BY <1>2, <1>3 DEF WorkSound, ReportSound

-----------------------------------------------------------------------------
(* The steps.                                                              *)

LEMMA BriefingInitInv == BriefingInit => BriefingInv
  <1> SUFFICES ASSUME BriefingInit PROVE BriefingInv
    OBVIOUS
  <1>1. /\ today = 2 /\ briefRows = {} /\ arrived = <<>> /\ work = NoWork /\ lastDate = 0
        /\ reports = <<>> /\ page = [w \in BriefingWorkers |-> NoPage]
    BY DEF BriefingInit
  <1>2. BriefingTypeOK
    BY <1>1 DEF BriefingTypeOK
  <1>3. Len(arrived) = 0 /\ Len(reports) = 0
    BY <1>1
  <1>4. QED
    BY <1>1, <1>2, <1>3 DEF BriefingInv, RowsThere, WorkInHand, PagesInHand, ReportsInOrder, NoDayUnaccounted

(* Rows that arrive and days that pass disturb no work and no report.      *)
LEMMA WorldInv ==
    ASSUME BriefingInv, BriefingTypeOK', RowsThere', today' >= today, Len(arrived) =< Len(arrived'),
           \A k \in 1 .. Len(arrived) : arrived'[k] = arrived[k],
           UNCHANGED <<work, lastDate, reports, page>>
    PROVE  BriefingInv'
  <1>1. /\ BriefingTypeOK /\ today \in Nat /\ today' \in Nat
        /\ arrived \in Seq(Items) /\ arrived' \in Seq(Items)
    BY DEF BriefingInv, BriefingTypeOK
  <1>2. /\ \A wk \in Works : WorkSound(wk, arrived, today) => WorkSound(wk, arrived', today')
        /\ \A r \in Reports : ReportSound(r, arrived, today) => ReportSound(r, arrived', today')
    BY <1>1, SoundLater
  <1>3. WorkInHand'
    BY <1>1, <1>2 DEF BriefingInv, WorkInHand, BriefingTypeOK
  <1>4. PagesInHand'
    <2>1. ASSUME NEW w \in BriefingWorkers, page[w] # NoPage PROVE page[w].next \in Works
      BY <1>1, <2>1 DEF BriefingTypeOK, Pages
    <2>2. QED
      BY <1>2, <2>1 DEF BriefingInv, PagesInHand
  <1>5. ReportsInOrder'
    <2>1. \A n \in 1 .. Len(reports) : reports[n] \in Reports
      BY <1>1 DEF BriefingTypeOK
    <2>2. QED
      BY <1>2, <2>1 DEF BriefingInv, ReportsInOrder, NoDayUnaccounted
  <1>6. QED
    BY <1>3, <1>4, <1>5 DEF BriefingInv

LEMMA ReceiveInv == ASSUME BriefingInv, Receive PROVE BriefingInv'
  <1>1. PICK i \in Items : briefRows' = briefRows \cup {i} /\ arrived' = Append(arrived, i)
    BY DEF Receive
  <1>2. UNCHANGED <<today, work, lastDate, reports, page>>
    BY DEF Receive
  <1>3. arrived \in Seq(Items) /\ briefRows \in SUBSET Items
    BY DEF BriefingInv, BriefingTypeOK
  <1>4. /\ arrived' \in Seq(Items) /\ Len(arrived') = Len(arrived) + 1 /\ Len(arrived) \in Nat
        /\ \A k \in 1 .. Len(arrived) : arrived'[k] = arrived[k]
        /\ arrived'[Len(arrived) + 1] = i
    BY <1>1, <1>3
  <1>5. BriefingTypeOK'
    BY <1>1, <1>2, <1>3, <1>4 DEF BriefingInv, BriefingTypeOK
  <1>6. RowsThere'
    <2>1. ASSUME NEW k \in 1 .. Len(arrived')
          PROVE  arrived'[k] \in briefRows' \/ DayOf[arrived'[k]] + RetentionDays < today'
      <3>1. CASE k \in 1 .. Len(arrived)
        <4>1. arrived[k] \in briefRows \/ DayOf[arrived[k]] + RetentionDays < today
          BY <3>1 DEF BriefingInv, RowsThere
        <4>2. arrived'[k] = arrived[k]
          BY <1>4, <3>1
        <4>3. QED
          BY <1>1, <1>2, <4>1, <4>2
      <3>2. CASE k = Len(arrived) + 1
        BY <1>1, <1>4, <3>2
      <3>3. QED
        BY <1>4, <3>1, <3>2
    <2>2. QED
      BY <2>1 DEF RowsThere
  <1>7. today \in Nat
    BY DEF BriefingInv, BriefingTypeOK
  <1>8. QED
    BY <1>2, <1>4, <1>5, <1>6, <1>7, WorldInv

LEMMA NewDayInv == ASSUME BriefingInv, NewDay PROVE BriefingInv'
  <1>1. today' = today + 1 /\ UNCHANGED <<briefRows, arrived, work, lastDate, reports, page>>
    BY DEF NewDay
  <1>2. BriefingTypeOK /\ today \in Nat /\ arrived \in Seq(Items) /\ Len(arrived) \in Nat
    BY DEF BriefingInv, BriefingTypeOK
  <1>3. BriefingTypeOK'
    BY <1>1, <1>2 DEF BriefingTypeOK
  <1>4. RowsThere'
    <2>1. \A k \in 1 .. Len(arrived) : DayOf[arrived[k]] \in Nat
      BY <1>2, BriefingConstants
    <2>2. QED
      BY <1>1, <1>2, <2>1, BriefingConstants DEF BriefingInv, RowsThere
  <1>5. QED
    BY <1>1, <1>2, <1>3, <1>4, WorldInv

LEMMA DeleteOldInv == ASSUME BriefingInv, DeleteOld PROVE BriefingInv'
  <1>1. PICK i \in briefRows : DayOf[i] + RetentionDays < today /\ briefRows' = briefRows \ {i}
    BY DEF DeleteOld
  <1>2. UNCHANGED <<today, arrived, work, lastDate, reports, page>>
    BY DEF DeleteOld
  <1>3. BriefingTypeOK /\ today \in Nat /\ arrived \in Seq(Items) /\ Len(arrived) \in Nat
    BY DEF BriefingInv, BriefingTypeOK
  <1>4. BriefingTypeOK'
    BY <1>1, <1>2, <1>3 DEF BriefingTypeOK
  <1>5. RowsThere'
    BY <1>1, <1>2 DEF BriefingInv, RowsThere
  <1>6. QED
    BY <1>2, <1>3, <1>4, <1>5, WorldInv

LEMMA ReadPageInv == ASSUME BriefingInv, NEW w \in BriefingWorkers, ReadPage(w) PROVE BriefingInv'
  <1>1. BriefingTypeOK /\ work \in {NoWork} \cup Works /\ lastDate \in Nat
    BY DEF BriefingInv, BriefingTypeOK
  <1>2. Current \in Works /\ WorkSound(Current, arrived, today) /\ Follows(Current, lastDate)
    BY <1>1, StartedSound DEF Current, BriefingInv, WorkInHand
  <1>3. PICK next : next = Paged(Current)
    OBVIOUS
  <1>4. /\ next \in Works /\ WorkSound(next, arrived, today)
        /\ next.date = Current.date /\ next.skipped = Current.skipped
    BY <1>1, <1>2, <1>3, PagedSound DEF BriefingInv
  <1>5. Follows(next, lastDate)
    BY <1>2, <1>4 DEF Follows
  <1>6. PICK p : p = [reading |-> TRUE, old |-> work, last |-> lastDate, next |-> next]
    OBVIOUS
  <1>7. p \in Pages /\ p.next = next /\ p.last = lastDate
    BY <1>1, <1>4, <1>6 DEF Pages
  <1>8. page' = [page EXCEPT ![w] = p] /\ UNCHANGED <<today, briefRows, arrived, work, lastDate, reports>>
    BY <1>3, <1>6 DEF ReadPage
  <1>9. BriefingTypeOK'
    BY <1>1, <1>7, <1>8 DEF BriefingTypeOK
  <1>10. PagesInHand'
    <2>1. ASSUME NEW v \in BriefingWorkers, page'[v] # NoPage
          PROVE  WorkSound(page'[v].next, arrived, today) /\ Follows(page'[v].next, page'[v].last)
      <3>1. CASE v = w
        <4>1. page'[v] = p
          BY <1>1, <1>8, <3>1 DEF BriefingTypeOK
        <4>2. QED
          BY <1>4, <1>5, <1>7, <4>1
      <3>2. CASE v # w
        <4>1. page'[v] = page[v]
          BY <1>1, <1>8, <3>2 DEF BriefingTypeOK
        <4>2. QED
          BY <2>1, <4>1 DEF BriefingInv, PagesInHand
      <3>3. QED
        BY <3>1, <3>2
    <2>2. QED
      BY <1>8, <2>1 DEF PagesInHand
  <1>11. RowsThere' /\ WorkInHand' /\ ReportsInOrder'
    BY <1>8 DEF BriefingInv, RowsThere, WorkInHand, ReportsInOrder, NoDayUnaccounted
  <1>12. QED
    BY <1>9, <1>10, <1>11 DEF BriefingInv

(* A process that is done with its page leaves the others theirs.          *)
LEMMA PageLeft ==
    ASSUME BriefingInv, NEW w \in BriefingWorkers, page' = [page EXCEPT ![w] = NoPage],
           UNCHANGED <<today, arrived>>
    PROVE  page' \in [BriefingWorkers -> {NoPage} \cup Pages] /\ PagesInHand'
  <1>1. page \in [BriefingWorkers -> {NoPage} \cup Pages]
    BY DEF BriefingInv, BriefingTypeOK
  <1>2. page' \in [BriefingWorkers -> {NoPage} \cup Pages]
    BY <1>1
  <1>3. \A v \in BriefingWorkers : page'[v] # NoPage => page'[v] = page[v]
    BY <1>1
  <1>4. QED
    BY <1>2, <1>3 DEF BriefingInv, PagesInHand

LEMMA DropPageInv == ASSUME BriefingInv, NEW w \in BriefingWorkers, DropPage(w) PROVE BriefingInv'
  <1>1. /\ page' = [page EXCEPT ![w] = NoPage]
        /\ UNCHANGED <<today, briefRows, arrived, work, lastDate, reports>>
    BY DEF DropPage
  <1>2. page' \in [BriefingWorkers -> {NoPage} \cup Pages] /\ PagesInHand'
    BY <1>1, PageLeft
  <1>3. BriefingTypeOK'
    BY <1>1, <1>2 DEF BriefingInv, BriefingTypeOK
  <1>4. QED
    BY <1>1, <1>2, <1>3
       DEF BriefingInv, RowsThere, WorkInHand, ReportsInOrder, NoDayUnaccounted

LEMMA CommitPageInv == ASSUME BriefingInv, NEW w \in BriefingWorkers, CommitPage(w) PROVE BriefingInv'
  <1>1. /\ page' = [page EXCEPT ![w] = NoPage] /\ UNCHANGED <<today, briefRows, arrived>>
        /\ BriefingTypeOK
    BY DEF CommitPage, BriefingInv
  <1>2. page' \in [BriefingWorkers -> {NoPage} \cup Pages] /\ PagesInHand'
    BY <1>1, PageLeft
  <1>3. RowsThere'
    BY <1>1 DEF BriefingInv, RowsThere
  <1>4. page[w] \in Pages /\ page[w] # NoPage
    BY <1>1, NoWorkApart DEF CommitPage, BriefingTypeOK
  <1>5. PICK next : next = page[w].next
    OBVIOUS
  <1>6. next \in Works /\ WorkSound(next, arrived, today) /\ Follows(next, page[w].last)
    BY <1>4, <1>5 DEF BriefingInv, PagesInHand, Pages
  <1>7. CASE ~Unchanged(w)
    <2>1. UNCHANGED <<work, lastDate, reports>>
      BY <1>7 DEF CommitPage
    <2>2. BriefingTypeOK'
      BY <1>1, <1>2, <2>1 DEF BriefingTypeOK
    <2>3. QED
      BY <1>1, <1>2, <1>3, <2>1, <2>2 DEF BriefingInv, WorkInHand, ReportsInOrder, NoDayUnaccounted
  <1>8. CASE Unchanged(w) /\ next.stage =< LastStage
    <2>1. work' = next /\ UNCHANGED <<lastDate, reports>>
      BY <1>5, <1>8 DEF CommitPage
    <2>2. BriefingTypeOK'
      BY <1>1, <1>2, <1>6, <2>1 DEF BriefingTypeOK
    <2>3. Follows(next, lastDate)
      BY <1>6, <1>8 DEF Unchanged
    <2>4. WorkInHand'
      BY <1>1, <1>6, <2>1, <2>3 DEF WorkInHand
    <2>5. ReportsInOrder'
      BY <1>1, <2>1 DEF BriefingInv, ReportsInOrder, NoDayUnaccounted
    <2>6. QED
      BY <1>2, <1>3, <2>2, <2>4, <2>5 DEF BriefingInv
  <1>9. CASE Unchanged(w) /\ ~(next.stage =< LastStage)
    <2>1. PICK r : r = [date |-> next.date, counted |-> next.counted, cutoff |-> next.cutoff,
                        skipped |-> next.skipped]
      OBVIOUS
    <2>2. work' = NoWork /\ lastDate' = next.date /\ reports' = Append(reports, r)
      BY <1>5, <1>9, <2>1 DEF CommitPage
    <2>3. r \in Reports /\ ReportSound(r, arrived, today)
      BY <1>6, <1>9, <2>1, FinishedSound
    <2>4. r.date = next.date /\ r.skipped = next.skipped /\ next.date \in Nat /\ next.date >= 1
      BY <1>6, <2>1 DEF Works, WorkSound
    <2>5. Follows(next, lastDate)
      BY <1>6, <1>9 DEF Unchanged
    <2>6. reports \in Seq(Reports) /\ Len(reports) \in Nat
      BY <1>1 DEF BriefingTypeOK
    <2>7. /\ reports' \in Seq(Reports) /\ Len(reports') = Len(reports) + 1
          /\ \A n \in 1 .. Len(reports) : reports'[n] = reports[n]
          /\ reports'[Len(reports) + 1] = r
      BY <2>2, <2>3, <2>6
    <2>8. BriefingTypeOK'
      BY <1>1, <1>2, <2>2, <2>4, <2>7 DEF BriefingTypeOK
    <2>9. WorkInHand'
      BY <2>2 DEF WorkInHand
    <2>10. \A n \in 1 .. Len(reports') : ReportSound(reports'[n], arrived', today')
      <3>1. \A n \in 1 .. Len(reports) : ReportSound(reports'[n], arrived', today')
        BY <1>1, <2>7 DEF BriefingInv, ReportsInOrder
      <3>2. ReportSound(reports'[Len(reports) + 1], arrived', today')
        BY <1>1, <2>3, <2>7
      <3>3. ASSUME NEW n \in 1 .. Len(reports')
            PROVE  n \in 1 .. Len(reports) \/ n = Len(reports) + 1
        BY <2>6, <2>7
      <3>4. QED
        BY <3>1, <3>2, <3>3
    <2>11. NoDayUnaccounted'
      <3>1. ASSUME NEW n \in 2 .. Len(reports')
            PROVE  reports'[n].date = reports'[n - 1].date + 1 + reports'[n].skipped
        <4>1. CASE n \in 2 .. Len(reports)
          <5>1. n \in 1 .. Len(reports) /\ n - 1 \in 1 .. Len(reports)
            BY <2>6, <4>1
          <5>2. reports'[n] = reports[n] /\ reports'[n - 1] = reports[n - 1]
            BY <2>7, <5>1
          <5>3. reports[n].date = reports[n - 1].date + 1 + reports[n].skipped
            BY <4>1 DEF BriefingInv, ReportsInOrder, NoDayUnaccounted
          <5>4. QED
            BY <5>2, <5>3
        <4>2. CASE n = Len(reports) + 1
          <5>1. Len(reports) > 0 /\ Len(reports) \in 1 .. Len(reports) /\ n - 1 = Len(reports)
            BY <2>6, <4>2
          <5>2. lastDate = reports[Len(reports)].date /\ reports[Len(reports)].date >= 1
            BY <5>1 DEF BriefingInv, ReportsInOrder, ReportSound
          <5>3. next.date = lastDate + 1 + next.skipped
            BY <1>1, <2>5, <5>2 DEF Follows, BriefingTypeOK
          <5>4. reports'[n] = r /\ reports'[n - 1] = reports[Len(reports)]
            BY <2>7, <4>2, <5>1
          <5>5. QED
            BY <2>4, <5>2, <5>3, <5>4
        <4>3. QED
          BY <2>6, <2>7, <4>1, <4>2
      <3>2. QED
        BY <3>1 DEF NoDayUnaccounted
    <2>12. Len(reports') > 0 /\ lastDate' = reports'[Len(reports')].date
      BY <2>2, <2>4, <2>6, <2>7
    <2>13. ReportsInOrder'
      BY <2>10, <2>11, <2>12 DEF ReportsInOrder
    <2>14. QED
      BY <1>2, <1>3, <2>8, <2>9, <2>13 DEF BriefingInv
  <1>10. QED
    BY <1>7, <1>8, <1>9

LEMMA BriefingStepInv == BriefingInv /\ [BriefingNext]_briefingVars => BriefingInv'
  <1> SUFFICES ASSUME BriefingInv, [BriefingNext]_briefingVars PROVE BriefingInv'
    OBVIOUS
  <1>1. CASE UNCHANGED briefingVars
    <2>1. UNCHANGED <<today, briefRows, arrived, work, lastDate, reports, page>>
      BY <1>1 DEF briefingVars
    <2>2. BriefingTypeOK'
      BY <2>1 DEF BriefingInv, BriefingTypeOK
    <2>3. QED
      BY <2>1, <2>2
         DEF BriefingInv, RowsThere, WorkInHand, PagesInHand, ReportsInOrder, NoDayUnaccounted
  <1>2. QED
    BY <1>1, ReceiveInv, NewDayInv, DeleteOldInv, ReadPageInv, CommitPageInv, DropPageInv
       DEF BriefingNext, BriefingTick

LEMMA BriefingInvAddsUp == BriefingInv => BriefingsAddUp
  <1> SUFFICES ASSUME BriefingInv PROVE BriefingsAddUp
    OBVIOUS
  <1>1. ASSUME NEW n \in DOMAIN reports
        PROVE  LET r == reports[n]
                   counted == {i \in Items : r.counted[i] > 0}
                   due == DueRows(r.date, r.cutoff)
               IN /\ \A i \in Items : r.counted[i] =< 1
                  /\ counted \subseteq due
                  /\ due \subseteq counted \/ r.date + RetentionDays < today
    <2>1. reports \in Seq(Reports)
      BY DEF BriefingInv, BriefingTypeOK
    <2>2. n \in 1 .. Len(reports) /\ reports[n] \in Reports
      BY <2>1
    <2>3. PICK r \in Reports : r = reports[n]
      BY <2>2
    <2>4. ReportSound(r, arrived, today)
      BY <2>2, <2>3 DEF BriefingInv, ReportsInOrder
    <2>5. \A i \in Items : r.counted[i] \in Nat /\ (r.counted[i] > 0 <=> r.counted[i] = 1)
      BY <2>4 DEF ReportSound, Reports
    <2>6. DueRows(r.date, r.cutoff) = DueOf(r.date, r.cutoff, arrived)
      BY DEF DueRows, DueOf
    <2>7. DueOf(r.date, r.cutoff, arrived) \in SUBSET Items
      BY DEF DueOf
    <2>8. QED
      BY <2>3, <2>4, <2>5, <2>6, <2>7 DEF ReportSound
  <1>2. NoDayUnaccounted
    BY DEF BriefingInv, ReportsInOrder
  <1>3. QED
    BY <1>1, <1>2 DEF BriefingsAddUp, ReportsCountOnce

(* However many processes page on a report and wherever they stop, reports *)
(* count each row of their day once, leave out only what retention took,   *)
(* and account for every day (advance_briefing, http_briefings.advance).   *)
THEOREM BriefingsSound == BriefingSpec => []BriefingsAddUp
  <1>1. BriefingSpec => []BriefingInv
    BY BriefingInitInv, BriefingStepInv, PTL DEF BriefingSpec
  <1>2. QED
    BY <1>1, BriefingInvAddsUp, PTL

-----------------------------------------------------------------------------
(***************************************************************************)
(* Verdicts that dismiss.                                                  *)
(***************************************************************************)
(* What an answer cites, for its verdict or for a claim.                   *)
Referenced(p) == p.cited \cup UNION {c.proof : c \in p.claims}

(* A verdict on show is the one validate makes of the proposal for the     *)
(* dossier as it stands.                                                   *)
TriageInv ==
  /\ dossier \in [kind : {"ssh", "http"}, revision : {1}, status : {"complete", "gapped", "stale"},
                  evidence : SUBSET Evidence]
  /\ IsFiniteSet(dossier.evidence)
  /\ reply.verdict # "none" => reply.verdict = Validated(reply.proposal, dossier)

(* What a dismissal has passed.                                            *)
LEMMA DismissalPassed ==
    ASSUME NEW p, NEW d, Validated(p, d) = "dismiss"
    PROVE  /\ d.status = "complete" /\ p.confidence # "low"
           /\ DismissSupported(p.basis, d.evidence, Referenced(p), p.claims)
  <1> DEFINE when(condition, code) == IF condition THEN {code} ELSE {}
             lowered == when(p.verdict = "dismiss" /\ d.status # "complete", "incomplete_evidence")
             unsure == when(p.verdict = "dismiss" /\ p.confidence = "low", "uncertain_dismissal")
             baseless == when(p.verdict = "dismiss"
                              /\ ~DismissSupported(p.basis, d.evidence, Referenced(p), p.claims),
                              "unsupported_dismissal")
  <1>1. TriageReasons(p, d) = {} /\ p.verdict = "dismiss"
    BY DEF Validated
  <1>2. p.wellFormed
    BY <1>1 DEF TriageReasons
  <1>3. lowered \subseteq TriageReasons(p, d)
    BY <1>2, Zenon DEF TriageReasons
  <1>4. unsure \subseteq TriageReasons(p, d)
    BY <1>2, Zenon DEF TriageReasons
  <1>5. baseless \subseteq TriageReasons(p, d)
    BY <1>2, Zenon DEF TriageReasons, Referenced
  <1>6. QED
    BY <1>1, <1>3, <1>4, <1>5

(* Every basis leaves each observation with context of its own.            *)
LEMMA SupportExplains ==
    ASSUME NEW p, NEW rows \in SUBSET Evidence, NEW e \in Observed(rows),
           DismissSupported(p.basis, rows, Referenced(p), p.claims)
    PROVE  Explained(e, p)
  <1> DEFINE seen == Observed(rows)
             context == rows \cap Referenced(p)
             asserted == {c.kind : c \in p.claims}
  <1>1. e \in seen /\ e \in Observed(Evidence) /\ e.time \in Int
    BY EvidenceTimesAssumption DEF Observed
  <1>2. \/ KnownUserRetry(seen, context, asserted)
        \/ GenericScan(seen, context, asserted)
        \/ AuthorizedActivity(seen, context, asserted)
        \/ ExpectedOperation(seen, context, asserted)
    BY DEF DismissSupported
  <1>3. CASE KnownUserRetry(seen, context, asserted)
    <2>1. PICK a \in context : Direct("account_owned", a) /\ Account(a) = Account(e)
      BY <1>1, <1>3 DEF KnownUserRetry
    <2>2. a.kind = "account_context" /\ a.class = "organisation" /\ a.host = e.host /\ a.account = e.account
      BY <2>1 DEF Direct, Account
    <2>3. IsAuth(e)
      BY <1>1, <1>3 DEF KnownUserRetry, IsAuth, Logins
    <2>4. QED
      BY <2>2, <2>3 DEF Explained, Referenced
  <1>4. CASE GenericScan(seen, context, asserted)
    <2>1. PICK a \in context : Direct("generic_account", a) /\ Account(a) = Account(e)
      BY <1>1, <1>4 DEF GenericScan
    <2>2. a.kind = "account_context" /\ a.class = "generic" /\ a.host = e.host /\ a.account = e.account
      BY <2>1 DEF Direct, Account
    <2>3. IsAuth(e)
      BY <1>1, <1>4 DEF GenericScan, IsAuth
    <2>4. QED
      BY <2>2, <2>3 DEF Explained, Referenced
  <1>5. CASE AuthorizedActivity(seen, context, asserted)
    <2>1. PICK a \in TriageContexts(context, "authorization") : Covers(a, e)
      BY <1>1, <1>5 DEF AuthorizedActivity
    <2>2. a.kind = "authorization" /\ a \in context /\ a.from \in Int /\ a.until \in Int
      BY EvidenceTimesAssumption DEF TriageContexts
    <2>3. e.time \in a.from .. a.until
      BY <1>1, <2>1, <2>2 DEF Covers
    <2>4. QED
      BY <2>1, <2>2, <2>3 DEF Covers, Explained, Referenced
  <1>6. CASE ExpectedOperation(seen, context, asserted)
    <2>1. PICK s \in TriageContexts(context, "service_context") : Expected(s, e)
      BY <1>1, <1>6 DEF ExpectedOperation
    <2>2. QED
      BY <2>1 DEF Expected, TriageContexts, Explained, Referenced
  <1>7. QED
    BY <1>2, <1>3, <1>4, <1>5, <1>6

(* No basis allows both the dossier and the dossier with one more success. *)
LEMMA SuccessUndoes ==
    ASSUME NEW p, NEW rows \in SUBSET Evidence, IsFiniteSet(rows), NEW e \in Evidence \ rows,
           e.kind \in {"auth_success", "app_auth_success", "exploit_confirmation"},
           DismissSupported(p.basis, rows, Referenced(p), p.claims)
    PROVE  ~DismissSupported(p.basis, rows \cup {e}, Referenced(p), p.claims)
  <1> DEFINE more == rows \cup {e}
             asserted == {c.kind : c \in p.claims}
             before == {r \in Observed(rows) : r.kind = "auth_success"}
             after == {r \in Observed(more) : r.kind = "auth_success"}
  <1> SUFFICES ASSUME DismissSupported(p.basis, more, Referenced(p), p.claims) PROVE FALSE
    OBVIOUS
  <1>1. e \in Observed(more) /\ e.kind # "exploit_confirmation"
    BY DEF Observed, IsAuth, IsExploit, Logins, DismissSupported
  <1>2. e.kind \in Logins
    BY <1>1 DEF Logins
  <1>3. p.basis = "known_user_retry" /\ KnownUserRetry(Observed(more), more \cap Referenced(p), asserted)
    BY <1>1, <1>2 DEF DismissSupported
  <1>4. e.kind = "auth_success" /\ Cardinality(after) = 1
    BY <1>1, <1>2, <1>3 DEF KnownUserRetry, Logins
  <1>5. KnownUserRetry(Observed(rows), rows \cap Referenced(p), asserted)
    BY <1>3 DEF DismissSupported
  <1>6. Cardinality(before) = 1
    BY <1>5 DEF KnownUserRetry
  <1>7. IsFiniteSet(before)
    BY FS_Subset DEF Observed
  <1>8. after = before \cup {e} /\ e \notin before
    BY <1>1, <1>4 DEF Observed
  <1> HIDE DEF before, after
  <1>9. Cardinality(before \cup {e}) = Cardinality(before) + 1
    BY <1>7, <1>8, FS_AddElement
  <1>10. QED
    BY <1>4, <1>6, <1>8, <1>9

LEMMA TriageInitInv == TriageInit => TriageInv
  BY FS_EmptySet DEF TriageInit, TriageInv, NoReply

LEMMA TriageStepInv == TriageInv /\ [TriageNext]_triageVars => TriageInv'
  <1> SUFFICES ASSUME TriageInv, [TriageNext]_triageVars PROVE TriageInv'
    OBVIOUS
  <1>1. CASE AddEvidence
    <2>1. PICK r \in Evidence : dossier' = [dossier EXCEPT !.evidence = @ \cup {r}]
      BY <1>1 DEF AddEvidence
    <2>2. /\ dossier' \in [kind : {"ssh", "http"}, revision : {1}, status : {"complete", "gapped", "stale"},
                           evidence : SUBSET Evidence]
          /\ dossier'.evidence = dossier.evidence \cup {r}
      BY <2>1 DEF TriageInv
    <2>3. IsFiniteSet(dossier'.evidence)
      BY <2>2, FS_AddElement DEF TriageInv
    <2>4. reply'.verdict = "none"
      BY <1>1 DEF AddEvidence, NoReply
    <2>5. QED
      BY <2>2, <2>3, <2>4 DEF TriageInv
  <1>2. CASE AnswerDossier
    <2>1. PICK p : reply' = [proposal |-> p, verdict |-> Validated(p, dossier)]
      BY <1>2 DEF AnswerDossier
    <2>2. dossier' = dossier
      BY <1>2 DEF AnswerDossier
    <2>3. reply'.proposal = p /\ reply'.verdict = Validated(p, dossier)
      BY <2>1
    <2>4. reply'.verdict = Validated(reply'.proposal, dossier')
      BY <2>2, <2>3
    <2>5. QED
      BY <2>2, <2>4 DEF TriageInv
  <1>3. CASE UNCHANGED triageVars
    BY <1>3 DEF triageVars, TriageInv
  <1>4. QED
    BY <1>1, <1>2, <1>3 DEF TriageNext

LEMMA TriageInvGrounded == TriageInv => DismissalIsGrounded
  <1> SUFFICES ASSUME TriageInv, reply.verdict = "dismiss" PROVE DismissalIsGrounded
    BY DEF DismissalIsGrounded
  <1> DEFINE p == reply.proposal
             rows == dossier.evidence
  <1>1. Validated(p, dossier) = "dismiss" /\ rows \in SUBSET Evidence /\ IsFiniteSet(rows)
    BY DEF TriageInv
  <1>2. /\ dossier.status = "complete" /\ p.confidence # "low"
        /\ DismissSupported(p.basis, rows, Referenced(p), p.claims)
    BY <1>1, DismissalPassed
  <1>3. ASSUME NEW e \in Observed(rows) PROVE Explained(e, p)
    BY <1>1, <1>2, SupportExplains
  <1>4. ASSUME NEW e \in Evidence \ rows,
               e.kind \in {"auth_success", "app_auth_success", "exploit_confirmation"}
        PROVE  Validated(p, [dossier EXCEPT !.evidence = @ \cup {e}]) # "dismiss"
    <2> DEFINE grown == [dossier EXCEPT !.evidence = @ \cup {e}]
    <2>1. grown.evidence = rows \cup {e}
      BY DEF TriageInv
    <2>2. ~DismissSupported(p.basis, rows \cup {e}, Referenced(p), p.claims)
      BY <1>1, <1>2, <1>4, SuccessUndoes
    <2> HIDE DEF grown
    <2>3. Validated(p, grown) # "dismiss"
      BY <2>1, <2>2, DismissalPassed
    <2>4. QED
      BY <2>3 DEF grown
  <1>5. QED
    BY <1>2, <1>3, <1>4 DEF DismissalIsGrounded

(* A dismissal that validate lets pass rests on complete evidence, leaves  *)
(* no observation without cited context of its own, and is taken back by   *)
(* any login or confirmed exploit that is added (triage_evidence.validate).*)
THEOREM DismissalGrounded == TriageSpec => []DismissalIsGrounded
  <1>1. TriageSpec => []TriageInv
    BY TriageInitInv, TriageStepInv, PTL DEF TriageSpec
  <1>2. QED
    BY <1>1, TriageInvGrounded, PTL

-----------------------------------------------------------------------------
(* The review of a firewall.  The inductive invariant: the enrolled set is *)
(* the first object and the only set, and rules are made of expressions.   *)

SetObjects == [kind : {"set"}, name : {EnrolledSet}, members : SUBSET (Addresses \cup OddMembers),
               layout : SetLayouts \cup {"plain"}]
RuleObjects == [kind : {"rule"}, exprs : Seq(Expressions) \ {<<>>}]
IsRuleset(rules) ==
  /\ rules \in Seq(SetObjects \cup RuleObjects \cup OtherObjects)
  /\ Len(rules) >= 2
  /\ rules[1] \in SetObjects
  /\ \A i \in 2..Len(rules) : rules[i] \in RuleObjects \cup OtherObjects
GuardInv == IsRuleset(firewall) /\ IsRuleset(reviewed)

(* Two expressions the fingerprint does not tell apart.                    *)
SameExpr(x, y) == x = y \/ (IsCounter(x) /\ IsCounter(y))
(* A rule that only ever denies, and only what the set names.              *)
Denying(exprs) ==
  /\ \A j \in DOMAIN exprs : "test" \in DOMAIN exprs[j] => exprs[j].op = "=="
  /\ IsTerminal(Last(exprs))
(* Two rulesets that passed one review.                                    *)
SameReview(f, r) ==
  /\ Len(f) = Len(r)
  /\ \A i \in 1..Len(f) :
       /\ f[i].kind = "rule" <=> r[i].kind = "rule"
       /\ f[i].kind = "rule" =>
            /\ Len(f[i].exprs) = Len(r[i].exprs)
            /\ \A j \in 1..Len(f[i].exprs) : SameExpr(f[i].exprs[j], r[i].exprs[j])
            /\ (\E j \in 1..Len(f[i].exprs) : "test" \in DOMAIN f[i].exprs[j]) =>
                 Denying(f[i].exprs) /\ Denying(r[i].exprs)

(* What an expression is shows in its fields.                              *)
LEMMA ExprShape ==
  ASSUME NEW x \in Expressions
  PROVE  /\ IsCounter(x) => DOMAIN x = {"packets"} /\ x \in [packets : Nat]
         /\ "test" \in DOMAIN x => ~IsCounter(x) /\ "set" \in DOMAIN x /\ x.set = EnrolledSet
                                     /\ "statement" \notin DOMAIN x
         /\ "statement" \in DOMAIN x => ~IsCounter(x)
         /\ ~IsCounter(x) => PlainExpr(x) = x
         /\ IsCounter(x) => PlainExpr(x) = [packets |-> 0]
  <1>1. CASE x \in [packets : Nat]
    <2>1. DOMAIN x = {"packets"}
      BY <1>1
    <2>2. PlainExpr(x) = [x EXCEPT !.packets = 0]
      BY <2>1 DEF PlainExpr, IsCounter
    <2>3. [x EXCEPT !.packets = 0] = [packets |-> 0]
      BY <1>1
    <2>4. QED
      BY <1>1, <2>1, <2>2, <2>3 DEF IsCounter
  <1>2. CASE x \in [static : STRING]
    <2>1. DOMAIN x = {"static"}
      BY <1>2
    <2>2. QED
      BY <2>1 DEF IsCounter, PlainExpr
  <1>3. CASE x \in [statement : STRING]
    <2>1. DOMAIN x = {"statement"}
      BY <1>3
    <2>2. QED
      BY <2>1 DEF IsCounter, PlainExpr
  <1>4. CASE x \in [test : {"saddr"}, op : {"==", "!="}, set : {EnrolledSet}]
    <2>1. DOMAIN x = {"test", "op", "set"} /\ x.set = EnrolledSet
      BY <1>4
    <2>2. QED
      BY <2>1 DEF IsCounter, PlainExpr
  <1>5. QED
    BY <1>1, <1>2, <1>3, <1>4 DEF Expressions

LEMMA PlainSame ==
  ASSUME NEW x \in Expressions, NEW y \in Expressions, PlainExpr(x) = PlainExpr(y)
  PROVE  SameExpr(x, y)
  <1>1. CASE IsCounter(x) /\ IsCounter(y)
    BY <1>1 DEF SameExpr
  <1>2. CASE ~IsCounter(x) /\ ~IsCounter(y)
    BY <1>2, ExprShape DEF SameExpr
  <1>3. CASE IsCounter(x) /\ ~IsCounter(y)
    <2>1. y = [packets |-> 0]
      BY <1>3, ExprShape
    <2>2. "packets" \in DOMAIN y
      BY <2>1
    <2>3. QED
      BY <1>3, <2>2 DEF IsCounter
  <1>4. CASE ~IsCounter(x) /\ IsCounter(y)
    <2>1. x = [packets |-> 0]
      BY <1>4, ExprShape
    <2>2. "packets" \in DOMAIN x
      BY <2>1
    <2>3. QED
      BY <1>4, <2>2 DEF IsCounter
  <1>5. QED
    BY <1>1, <1>2, <1>3, <1>4

(* The objects of a ruleset, by kind, and what normalisation makes of them. *)
LEMMA ObjectShape ==
  ASSUME NEW rules, IsRuleset(rules), NEW i \in 1..Len(rules)
  PROVE  /\ Len(rules) \in Nat /\ DOMAIN rules = 1..Len(rules)
         /\ rules[i].kind = "set" <=> i = 1
         /\ rules[i].kind = "rule" =>
              /\ rules[i] \in RuleObjects
              /\ rules[i].exprs \in Seq(Expressions) /\ Len(rules[i].exprs) \in Nat \ {0}
              /\ DOMAIN rules[i].exprs = 1..Len(rules[i].exprs)
         /\ i = 1 => rules[i] \in SetObjects /\ rules[i].name = EnrolledSet
  <1>1. Len(rules) \in Nat /\ DOMAIN rules = 1..Len(rules)
    BY DEF IsRuleset
  <1>2. CASE i = 1
    <2>1. rules[i] \in SetObjects
      BY <1>2 DEF IsRuleset
    <2>2. rules[i].kind = "set" /\ rules[i].name = EnrolledSet
      BY <2>1 DEF SetObjects
    <2>3. QED
      BY <1>1, <1>2, <2>1, <2>2
  <1>3. CASE i # 1
    <2>1. rules[i] \in RuleObjects \cup OtherObjects
      BY <1>1, <1>3 DEF IsRuleset
    <2>2. CASE rules[i] \in RuleObjects
      <3>1. rules[i].kind = "rule" /\ rules[i].exprs \in Seq(Expressions) /\ rules[i].exprs # <<>>
        BY <2>2 DEF RuleObjects
      <3>2. Len(rules[i].exprs) \in Nat \ {0} /\ DOMAIN rules[i].exprs = 1..Len(rules[i].exprs)
        BY <3>1
      <3>3. QED
        BY <1>1, <1>3, <2>2, <3>1, <3>2
    <2>3. CASE rules[i] \in OtherObjects
      BY <1>1, <1>3, <2>3, NetworkGuardAssumption
    <2>4. QED
      BY <2>1, <2>2, <2>3
  <1>4. QED
    BY <1>2, <1>3

LEMMA NormalShape ==
  ASSUME NEW rules, IsRuleset(rules), NEW i \in 1..Len(rules)
  PROVE  /\ Normalized(rules)[i] = NormalizedObject(rules[i])
         /\ DOMAIN Normalized(rules) = 1..Len(rules)
         /\ NormalizedObject(rules[i]).kind = rules[i].kind
         /\ rules[i].kind # "rule" => NormalizedObject(rules[i]) = rules[i]
         /\ rules[i].kind = "rule" =>
              NormalizedObject(rules[i]).exprs =
                [j \in 1..Len(rules[i].exprs) |-> PlainExpr(rules[i].exprs[j])]
  <1>1. Len(rules) \in Nat /\ DOMAIN rules = 1..Len(rules)
    BY ObjectShape
  <1>2. Normalized(rules)[i] = NormalizedObject(rules[i]) /\ DOMAIN Normalized(rules) = 1..Len(rules)
    BY <1>1 DEF Normalized
  <1>3. CASE rules[i].kind = "rule"
    <2>1. rules[i] \in RuleObjects /\ DOMAIN rules[i].exprs = 1..Len(rules[i].exprs)
      BY <1>3, ObjectShape
    <2>2. NormalizedObject(rules[i]) =
            [rules[i] EXCEPT !.exprs = [j \in DOMAIN rules[i].exprs |-> PlainExpr(rules[i].exprs[j])]]
      BY <1>3 DEF NormalizedObject
    <2>3. PICK e : e = [j \in DOMAIN rules[i].exprs |-> PlainExpr(rules[i].exprs[j])]
      OBVIOUS
    <2>4. NormalizedObject(rules[i]) = [rules[i] EXCEPT !.exprs = e]
      BY <2>2, <2>3
    <2>5. DOMAIN rules[i] = {"kind", "exprs"}
      BY <2>1 DEF RuleObjects
    <2>6. NormalizedObject(rules[i]).kind = rules[i].kind /\ NormalizedObject(rules[i]).exprs = e
      BY <2>4, <2>5
    <2>7. QED
      BY <1>2, <1>3, <2>1, <2>3, <2>6
  <1>4. CASE rules[i].kind # "rule"
    BY <1>2, <1>4 DEF NormalizedObject
  <1>5. QED
    BY <1>3, <1>4

LEMMA OneDefinition ==
  ASSUME NEW rules, IsRuleset(rules)
  PROVE  Definitions(Normalized(rules), EnrolledSet) = {1}
  <1>1. Len(rules) \in Nat /\ 1 \in 1..Len(rules)
    BY DEF IsRuleset
  <1>2. DOMAIN Normalized(rules) = 1..Len(rules)
    BY <1>1, NormalShape
  <1>3. \A i \in 1..Len(rules) : Normalized(rules)[i].kind = rules[i].kind
    BY NormalShape
  <1>4. \A i \in 1..Len(rules) : rules[i].kind = "set" <=> i = 1
    BY ObjectShape
  <1>5. Normalized(rules)[1].name = EnrolledSet
    <2>1. rules[1].kind = "set" /\ rules[1].name = EnrolledSet
      BY <1>1, <1>4, ObjectShape
    <2>2. rules[1].kind # "rule"
      BY <2>1
    <2>3. Normalized(rules)[1] = NormalizedObject(rules[1]) /\ NormalizedObject(rules[1]) = rules[1]
      BY <1>1, <2>2, NormalShape
    <2>4. QED
      BY <2>1, <2>3
  <1>6. QED
    BY <1>1, <1>2, <1>3, <1>4, <1>5 DEF Definitions

(* A rule with a lookup was reviewed: it denies what the set names.        *)
LEMMA ReviewedDenies ==
  ASSUME NEW rules, IsRuleset(rules), Reviewable(Normalized(rules), EnrolledSet),
         NEW i \in 1..Len(rules), rules[i].kind = "rule",
         NEW t \in 1..Len(rules[i].exprs), "test" \in DOMAIN rules[i].exprs[t]
  PROVE  Denying(rules[i].exprs)
  <1>1. PICK e : e = rules[i].exprs
    OBVIOUS
  <1>2. PICK n \in Nat : n = Len(e) /\ n # 0 /\ e \in Seq(Expressions) /\ DOMAIN e = 1..n
    BY <1>1, ObjectShape
  <1>3. PICK g : g = NormalizedObject(rules[i]).exprs
    OBVIOUS
  <1>4. g = [j \in 1..n |-> PlainExpr(e[j])] /\ NormalizedObject(rules[i]).kind = "rule"
    BY <1>1, <1>2, <1>3, NormalShape
  <1>5. DOMAIN g = 1..n /\ \A j \in 1..n : g[j] = PlainExpr(e[j]) /\ e[j] \in Expressions
    BY <1>2, <1>4
  <1>6. Len(g) = n
    <2>1. g \in Seq({PlainExpr(e[j]) : j \in 1..n})
      BY <1>4
    <2>2. QED
      BY <1>5, <2>1
  <1>7. i \in DOMAIN Normalized(rules) /\ Normalized(rules)[i] = NormalizedObject(rules[i])
    BY NormalShape
  <1>8. Uses(NormalizedObject(rules[i]), EnrolledSet)
    <2>1. t \in 1..n /\ e[t] \in Expressions /\ "test" \in DOMAIN e[t]
      BY <1>1, <1>2, <1>5
    <2>2. "set" \in DOMAIN e[t] /\ e[t].set = EnrolledSet /\ g[t] = e[t]
      BY <1>5, <2>1, ExprShape
    <2>3. Refers(g[t], EnrolledSet)
      BY <2>2 DEF Refers
    <2>4. QED
      BY <1>3, <1>4, <1>5, <2>1, <2>3 DEF Uses
  <1>9. ReviewedRule(g, EnrolledSet)
    BY <1>3, <1>7, <1>8 DEF Reviewable
  <1>10. /\ n >= 2 /\ IsTerminal(g[n])
         /\ \A j \in 1..n - 1 : g[j] = Lookup(EnrolledSet) \/ IsCounter(g[j]) \/ IsStatic(g[j])
    BY <1>6, <1>9 DEF ReviewedRule, Last
  <1>11. IsTerminal(e[n]) /\ "test" \notin DOMAIN e[n]
    <2>1. n \in 1..n
      BY <1>2
    <2>2. IsCounter(e[n]) => g[n] = [packets |-> 0]
      BY <1>5, <2>1, ExprShape
    <2>3. ~IsCounter(e[n])
      <3>1. "statement" \notin DOMAIN [packets |-> 0]
        OBVIOUS
      <3>2. QED
        BY <1>10, <2>2, <3>1 DEF IsTerminal
    <2>4. g[n] = e[n]
      BY <1>5, <2>1, <2>3, ExprShape
    <2>5. "statement" \in DOMAIN e[n]
      BY <1>10, <2>4 DEF IsTerminal
    <2>6. QED
      BY <1>5, <1>10, <2>1, <2>4, <2>5, ExprShape
  <1>12. ASSUME NEW j \in 1..n, "test" \in DOMAIN e[j]
         PROVE  e[j].op = "=="
    <2>1. j \in 1..n - 1
      BY <1>2, <1>11, <1>12
    <2>2. ~IsCounter(e[j]) /\ "set" \in DOMAIN e[j] /\ g[j] = e[j] /\ e[j] \in Expressions
      BY <1>5, <1>12, ExprShape
    <2>3. ~IsStatic(e[j])
      <3>1. e[j] \in [static : STRING] => DOMAIN e[j] = {"static"}
        OBVIOUS
      <3>2. e[j] \in [packets : Nat] => DOMAIN e[j] = {"packets"}
        OBVIOUS
      <3>3. e[j] \in [statement : STRING] => DOMAIN e[j] = {"statement"}
        OBVIOUS
      <3>4. e[j] \in [test : {"saddr"}, op : {"==", "!="}, set : {EnrolledSet}]
        BY <1>12, <2>2, <3>1, <3>2, <3>3 DEF Expressions
      <3>5. DOMAIN e[j] = {"test", "op", "set"}
        BY <3>4
      <3>6. QED
        BY <3>5 DEF IsStatic
    <2>4. e[j] = Lookup(EnrolledSet)
      BY <1>10, <2>1, <2>2, <2>3
    <2>5. QED
      BY <2>4 DEF Lookup
  <1>13. QED
    BY <1>1, <1>2, <1>11, <1>12 DEF Denying, Last

(* Equal fingerprints: the rulesets differ in counters and in the members  *)
(* of the enrolled set only.                                               *)
LEMMA EqualFingerprints ==
  ASSUME NEW f, NEW r, IsRuleset(f), IsRuleset(r),
         Fingerprint(f) # Refusal, Fingerprint(f) = Fingerprint(r)
  PROVE  SameReview(f, r)
  <1>1. /\ Reviewable(Normalized(f), EnrolledSet) /\ Reviewable(Normalized(r), EnrolledSet)
        /\ TerminalSnapshot(Normalized(f), EnrolledSet) = TerminalSnapshot(Normalized(r), EnrolledSet)
    BY DEF Fingerprint
  <1>2. PICK n \in Nat, m \in Nat : n = Len(f) /\ m = Len(r) /\ n >= 2 /\ m >= 2
    BY DEF IsRuleset
  <1>3. DOMAIN Normalized(f) = 1..n /\ DOMAIN Normalized(r) = 1..m
    <2>1. 1 \in 1..Len(f) /\ 1 \in 1..Len(r)
      BY <1>2
    <2>2. QED
      BY <1>2, <2>1, NormalShape
  <1>4. 1..n = 1..m
    <2>1. DOMAIN TerminalSnapshot(Normalized(f), EnrolledSet) = 1..n
      BY <1>3 DEF TerminalSnapshot
    <2>2. DOMAIN TerminalSnapshot(Normalized(r), EnrolledSet) = 1..m
      BY <1>3 DEF TerminalSnapshot
    <2>3. QED
      BY <1>1, <2>1, <2>2
  <1>5. n = m
    <2>1. n \in 1..m /\ m \in 1..n
      <3>1. n \in 1..n /\ m \in 1..m
        BY <1>2
      <3>2. QED
        BY <1>4, <3>1
    <2>2. QED
      BY <2>1
  <1>6. ASSUME NEW i \in 1..n, i # 1
        PROVE  NormalizedObject(f[i]) = NormalizedObject(r[i])
    <2>1. /\ i \notin Definitions(Normalized(f), EnrolledSet)
          /\ i \notin Definitions(Normalized(r), EnrolledSet)
      BY <1>6, OneDefinition
    <2>2. TerminalSnapshot(Normalized(f), EnrolledSet)[i] = Normalized(f)[i]
      BY <1>3, <2>1 DEF TerminalSnapshot
    <2>3. TerminalSnapshot(Normalized(r), EnrolledSet)[i] = Normalized(r)[i]
      BY <1>3, <1>5, <2>1 DEF TerminalSnapshot
    <2>4. Normalized(f)[i] = NormalizedObject(f[i]) /\ Normalized(r)[i] = NormalizedObject(r[i])
      BY <1>2, <1>5, NormalShape
    <2>5. QED
      BY <1>1, <2>2, <2>3, <2>4
  <1>7. ASSUME NEW i \in 1..n
        PROVE  /\ f[i].kind = "rule" <=> r[i].kind = "rule"
               /\ f[i].kind = "rule" => i # 1
    <2>1. f[i].kind = "set" <=> i = 1
      BY <1>2, ObjectShape
    <2>2. r[i].kind = "set" <=> i = 1
      BY <1>2, <1>5, ObjectShape
    <2>3. i # 1 => f[i].kind = r[i].kind
      <3>1. i \in 1..Len(f) /\ i \in 1..Len(r)
        BY <1>2, <1>5
      <3>2. NormalizedObject(f[i]).kind = f[i].kind
        BY <3>1, NormalShape
      <3>3. NormalizedObject(r[i]).kind = r[i].kind
        BY <3>1, NormalShape
      <3>4. QED
        BY <1>6, <3>2, <3>3
    <2>4. QED
      BY <2>1, <2>2, <2>3
  <1>8. ASSUME NEW i \in 1..n, f[i].kind = "rule"
        PROVE  /\ Len(f[i].exprs) = Len(r[i].exprs)
               /\ \A j \in 1..Len(f[i].exprs) : SameExpr(f[i].exprs[j], r[i].exprs[j])
               /\ (\E j \in 1..Len(f[i].exprs) : "test" \in DOMAIN f[i].exprs[j]) =>
                    Denying(f[i].exprs) /\ Denying(r[i].exprs)
    <2>1. r[i].kind = "rule" /\ i # 1
      BY <1>7, <1>8
    <2>2. PICK e, g : e = f[i].exprs /\ g = r[i].exprs
      OBVIOUS
    <2>3. PICK k \in Nat : k = Len(e) /\ e \in Seq(Expressions)
      BY <1>2, <1>8, <2>2, ObjectShape
    <2>4. PICK l \in Nat : l = Len(g) /\ g \in Seq(Expressions)
      BY <1>2, <1>5, <2>1, <2>2, ObjectShape
    <2>5. NormalizedObject(f[i]).exprs = [j \in 1..k |-> PlainExpr(e[j])]
      BY <1>2, <1>8, <2>2, <2>3, NormalShape
    <2>6. NormalizedObject(r[i]).exprs = [j \in 1..l |-> PlainExpr(g[j])]
      BY <1>2, <1>5, <2>1, <2>2, <2>4, NormalShape
    <2>7. [j \in 1..k |-> PlainExpr(e[j])] = [j \in 1..l |-> PlainExpr(g[j])]
      BY <1>6, <2>1, <2>5, <2>6
    <2>8. 1..k = 1..l
      BY <2>7
    <2>9. k = l
      <3>1. CASE k = 0
        BY <2>8, <3>1
      <3>2. CASE l = 0
        BY <2>8, <3>2
      <3>3. CASE k # 0 /\ l # 0
        <4>1. k \in 1..k /\ l \in 1..l
          BY <3>3
        <4>2. k \in 1..l /\ l \in 1..k
          BY <2>8, <4>1
        <4>3. QED
          BY <4>2
      <3>4. QED
        BY <3>1, <3>2, <3>3
    <2>10. \A j \in 1..k : PlainExpr(e[j]) = PlainExpr(g[j])
      BY <2>7, <2>9
    <2>11. \A j \in 1..k : e[j] \in Expressions /\ g[j] \in Expressions
      <3>1. \A j \in 1..k : e[j] \in Expressions
        BY <2>3
      <3>2. \A j \in 1..l : g[j] \in Expressions
        BY <2>4
      <3>3. QED
        BY <2>9, <3>1, <3>2
    <2>12. \A j \in 1..k : SameExpr(e[j], g[j])
      BY <2>10, <2>11, PlainSame
    <2>13. ASSUME NEW j \in 1..k, "test" \in DOMAIN e[j]
           PROVE  Denying(e) /\ Denying(g)
      <3>1. ~IsCounter(e[j])
        BY <2>11, <2>13, ExprShape
      <3>2. e[j] = g[j]
        BY <2>12, <3>1 DEF SameExpr
      <3>3. Denying(e)
        BY <1>1, <1>2, <1>8, <2>2, <2>3, <2>13, ReviewedDenies
      <3>4. Denying(g)
        BY <1>1, <1>2, <1>5, <2>1, <2>2, <2>4, <2>9, <2>13, <3>2, ReviewedDenies
      <3>5. QED
        BY <3>3, <3>4
    <2>14. QED
      BY <2>2, <2>3, <2>4, <2>9, <2>12, <2>13
  <1>9. QED
    BY <1>2, <1>5, <1>7, <1>8 DEF SameReview

(* What the reviewed rules make of a change of membership.                 *)
Hits(rules, a) ==
  {i \in DOMAIN rules : /\ rules[i].kind = "rule" /\ Applies(rules[i].exprs, a, rules)
                        /\ "statement" \in DOMAIN Last(rules[i].exprs)}
Stricter(f, r, a) == a \in Members(r) => a \in Members(f)

(* The outcome is what the first rule that applies says.                   *)
LEMMA OutcomeOf ==
  ASSUME NEW rules, IsRuleset(rules), NEW a
  PROVE  /\ Hits(rules, a) = {} => Outcome(rules, a) = "accept"
         /\ Hits(rules, a) # {} =>
              \E i \in Hits(rules, a) : /\ \A j \in Hits(rules, a) : i =< j
                                        /\ Outcome(rules, a) = Last(rules[i].exprs).statement
  <1>1. PICK H : H = Hits(rules, a)
    OBVIOUS
  <1>2. Outcome(rules, a) =
          IF H = {} THEN "accept" ELSE Last(rules[CHOOSE i \in H : \A j \in H : i =< j].exprs).statement
    BY <1>1 DEF Outcome, Hits
  <1>3. ASSUME H # {}
        PROVE  \E i \in H : /\ \A j \in H : i =< j
                            /\ Outcome(rules, a) = Last(rules[i].exprs).statement
    <2>1. Len(rules) \in Nat /\ DOMAIN rules = 1..Len(rules)
      BY DEF IsRuleset
    <2>2. H \in SUBSET Nat
      BY <1>1, <2>1 DEF Hits
    <2>3. \E i \in H : \A j \in H : i =< j
      BY <1>3, <2>2, LeastNat
    <2>4. PICK m : m = CHOOSE i \in H : \A j \in H : i =< j
      OBVIOUS
    <2>5. m \in H /\ \A j \in H : m =< j
      BY <2>3, <2>4
    <2>6. Outcome(rules, a) = Last(rules[m].exprs).statement
      BY <1>2, <1>3, <2>4
    <2>7. QED
      BY <2>5, <2>6
  <1>4. QED
    BY <1>1, <1>2, <1>3

(* Expressions that are the same test the same thing and end the same way. *)
LEMMA SameTests ==
  ASSUME NEW x \in Expressions, NEW y \in Expressions, SameExpr(x, y)
  PROVE  /\ "test" \in DOMAIN x <=> "test" \in DOMAIN y
         /\ "test" \in DOMAIN x => x = y
         /\ "statement" \in DOMAIN x <=> "statement" \in DOMAIN y
         /\ "statement" \in DOMAIN x => x = y
         /\ SameExpr(y, x)
  <1>1. CASE x = y
    BY <1>1 DEF SameExpr
  <1>2. CASE IsCounter(x) /\ IsCounter(y)
    <2>1. "test" \notin DOMAIN x /\ "test" \notin DOMAIN y
      BY <1>2, ExprShape
    <2>2. "statement" \notin DOMAIN x /\ "statement" \notin DOMAIN y
      BY <1>2, ExprShape
    <2>3. QED
      BY <1>2, <2>1, <2>2 DEF SameExpr
  <1>3. QED
    BY <1>1, <1>2 DEF SameExpr

(* One rule, before and after a change of counters and of membership.      *)
LEMMA RuleApplies ==
  ASSUME NEW k \in Nat, NEW e, NEW g, DOMAIN e = 1..k, DOMAIN g = 1..k,
         \A j \in 1..k : e[j] \in Expressions /\ g[j] \in Expressions /\ SameExpr(e[j], g[j]),
         (\E j \in 1..k : "test" \in DOMAIN e[j]) => Denying(e) /\ Denying(g),
         NEW f, NEW r, NEW a, Stricter(f, r, a)
  PROVE  /\ Applies(g, a, r) => Applies(e, a, f)
         /\ Applies(e, a, f) /\ ~Applies(g, a, r) => IsTerminal(Last(e))
  <1>1. \A j \in 1..k : "test" \in DOMAIN e[j] <=> "test" \in DOMAIN g[j]
    BY SameTests
  <1>2. CASE \E j \in 1..k : "test" \in DOMAIN e[j]
    <2>1. Denying(e) /\ Denying(g)
      BY <1>2
    <2>2. \A j \in 1..k : "test" \in DOMAIN e[j] => e[j].op = "=="
      BY <2>1 DEF Denying
    <2>3. \A j \in 1..k : "test" \in DOMAIN g[j] => g[j].op = "=="
      BY <2>1 DEF Denying
    <2>4. Applies(e, a, f) <=> a \in Members(f)
      BY <1>2, <2>2 DEF Applies
    <2>5. Applies(g, a, r) <=> a \in Members(r)
      BY <1>1, <1>2, <2>3 DEF Applies
    <2>6. QED
      BY <2>1, <2>4, <2>5 DEF Denying, Stricter
  <1>3. CASE ~\E j \in 1..k : "test" \in DOMAIN e[j]
    <2>1. Applies(e, a, f)
      BY <1>3 DEF Applies
    <2>2. Applies(g, a, r)
      BY <1>1, <1>3 DEF Applies
    <2>3. QED
      BY <2>1, <2>2
  <1>4. QED
    BY <1>2, <1>3

(* The shape of a rule that passed one review in two rulesets.             *)
LEMMA SameRule ==
  ASSUME NEW f, NEW r, IsRuleset(f), IsRuleset(r), SameReview(f, r),
         NEW i \in 1..Len(f), f[i].kind = "rule"
  PROVE  \E k \in Nat \ {0} :
           /\ DOMAIN f[i].exprs = 1..k /\ DOMAIN r[i].exprs = 1..k
           /\ Last(f[i].exprs) = f[i].exprs[k] /\ Last(r[i].exprs) = r[i].exprs[k]
           /\ \A j \in 1..k : /\ f[i].exprs[j] \in Expressions /\ r[i].exprs[j] \in Expressions
                              /\ SameExpr(f[i].exprs[j], r[i].exprs[j])
           /\ (\E j \in 1..k : "test" \in DOMAIN f[i].exprs[j]) =>
                Denying(f[i].exprs) /\ Denying(r[i].exprs)
  <1>1. i \in 1..Len(r) /\ r[i].kind = "rule"
    BY DEF SameReview
  <1>2. PICK e, g : e = f[i].exprs /\ g = r[i].exprs
    OBVIOUS
  <1>3. e \in Seq(Expressions) /\ Len(e) \in Nat \ {0} /\ DOMAIN e = 1..Len(e)
    BY <1>2, ObjectShape
  <1>4. g \in Seq(Expressions) /\ Len(g) \in Nat \ {0} /\ DOMAIN g = 1..Len(g)
    BY <1>1, <1>2, ObjectShape
  <1>5. PICK k \in Nat \ {0} : k = Len(e)
    BY <1>3
  <1>6. /\ Len(g) = k
        /\ \A j \in 1..k : SameExpr(e[j], g[j])
        /\ (\E j \in 1..k : "test" \in DOMAIN e[j]) => Denying(e) /\ Denying(g)
    BY <1>2, <1>5 DEF SameReview
  <1>7. \A j \in 1..k : e[j] \in Expressions
    BY <1>3, <1>5
  <1>8. \A j \in 1..k : g[j] \in Expressions
    BY <1>4, <1>6
  <1>9. Last(e) = e[k] /\ Last(g) = g[k]
    BY <1>5, <1>6 DEF Last
  <1>10. DOMAIN e = 1..k /\ DOMAIN g = 1..k
    BY <1>3, <1>4, <1>5, <1>6
  <1>11. QED
    BY <1>2, <1>6, <1>7, <1>8, <1>9, <1>10

LEMMA ReviewSymmetric ==
  ASSUME NEW f, NEW r, IsRuleset(f), IsRuleset(r), SameReview(f, r)
  PROVE  SameReview(r, f)
  <1>1. Len(f) = Len(r)
    BY DEF SameReview
  <1>2. \A i \in 1..Len(r) : r[i].kind = "rule" <=> f[i].kind = "rule"
    BY DEF SameReview
  <1>3. ASSUME NEW i \in 1..Len(r), r[i].kind = "rule"
        PROVE  /\ Len(r[i].exprs) = Len(f[i].exprs)
               /\ \A j \in 1..Len(r[i].exprs) : SameExpr(r[i].exprs[j], f[i].exprs[j])
               /\ (\E j \in 1..Len(r[i].exprs) : "test" \in DOMAIN r[i].exprs[j]) =>
                    Denying(r[i].exprs) /\ Denying(f[i].exprs)
    <2>1. i \in 1..Len(f) /\ f[i].kind = "rule"
      BY <1>1, <1>2, <1>3
    <2>2. PICK k \in Nat \ {0} :
             /\ \A j \in 1..k : /\ f[i].exprs[j] \in Expressions /\ r[i].exprs[j] \in Expressions
                                /\ SameExpr(f[i].exprs[j], r[i].exprs[j])
             /\ (\E j \in 1..k : "test" \in DOMAIN f[i].exprs[j]) =>
                  Denying(f[i].exprs) /\ Denying(r[i].exprs)
             /\ DOMAIN f[i].exprs = 1..k
      BY <2>1, SameRule
    <2>3. Len(f[i].exprs) = k /\ Len(r[i].exprs) = k
      <3>1. Len(f[i].exprs) = Len(r[i].exprs)
        BY <2>1 DEF SameReview
      <3>2. f[i].exprs \in Seq(Expressions)
        BY <2>1, ObjectShape
      <3>3. QED
        BY <2>2, <3>1, <3>2
    <2>4. \A j \in 1..k : SameExpr(r[i].exprs[j], f[i].exprs[j])
      BY <2>2, SameTests
    <2>5. \A j \in 1..k : "test" \in DOMAIN f[i].exprs[j] <=> "test" \in DOMAIN r[i].exprs[j]
      BY <2>2, SameTests
    <2>6. QED
      BY <2>2, <2>3, <2>4, <2>5
  <1>4. QED
    BY <1>1, <1>2, <1>3 DEF SameReview

(* A stricter membership adds denials and takes nothing away.              *)
LEMMA StricterHits ==
  ASSUME NEW f, NEW r, IsRuleset(f), IsRuleset(r), SameReview(f, r), NEW a, Stricter(f, r, a)
  PROVE  /\ Hits(r, a) \subseteq Hits(f, a)
         /\ \A i \in Hits(r, a) : Last(f[i].exprs).statement = Last(r[i].exprs).statement
         /\ \A i \in Hits(f, a) \ Hits(r, a) : Last(f[i].exprs).statement \in {"drop", "reject"}
  <1>1. Len(f) \in Nat /\ DOMAIN f = 1..Len(f) /\ DOMAIN r = 1..Len(f)
    BY DEF IsRuleset, SameReview
  <1>2. \A i \in 1..Len(f) : f[i].kind = "rule" <=> r[i].kind = "rule"
    BY DEF SameReview
  <1>3. ASSUME NEW i \in 1..Len(f), f[i].kind = "rule"
        PROVE  /\ "statement" \in DOMAIN Last(f[i].exprs) <=> "statement" \in DOMAIN Last(r[i].exprs)
               /\ "statement" \in DOMAIN Last(f[i].exprs) => Last(f[i].exprs) = Last(r[i].exprs)
               /\ Applies(r[i].exprs, a, r) => Applies(f[i].exprs, a, f)
               /\ Applies(f[i].exprs, a, f) /\ ~Applies(r[i].exprs, a, r) => IsTerminal(Last(f[i].exprs))
    <2>1. PICK e, g : e = f[i].exprs /\ g = r[i].exprs
      OBVIOUS
    <2>2. PICK k \in Nat \ {0} :
             /\ DOMAIN e = 1..k /\ DOMAIN g = 1..k
             /\ Last(e) = e[k] /\ Last(g) = g[k]
             /\ \A j \in 1..k : e[j] \in Expressions /\ g[j] \in Expressions /\ SameExpr(e[j], g[j])
             /\ (\E j \in 1..k : "test" \in DOMAIN e[j]) => Denying(e) /\ Denying(g)
      BY <1>3, <2>1, SameRule
    <2>3. k \in Nat /\ k \in 1..k
      OBVIOUS
    <2>4. /\ Applies(g, a, r) => Applies(e, a, f)
          /\ Applies(e, a, f) /\ ~Applies(g, a, r) => IsTerminal(Last(e))
      BY <2>2, <2>3, RuleApplies
    <2>5. /\ "statement" \in DOMAIN e[k] <=> "statement" \in DOMAIN g[k]
          /\ "statement" \in DOMAIN e[k] => e[k] = g[k]
      BY <2>2, <2>3, SameTests
    <2>6. QED
      BY <2>1, <2>2, <2>4, <2>5
  <1>4. ASSUME NEW i \in Hits(r, a)
        PROVE  i \in Hits(f, a) /\ Last(f[i].exprs).statement = Last(r[i].exprs).statement
    <2>1. /\ i \in 1..Len(f) /\ f[i].kind = "rule"
          /\ Applies(r[i].exprs, a, r) /\ "statement" \in DOMAIN Last(r[i].exprs)
      BY <1>1, <1>2, <1>4 DEF Hits
    <2>2. /\ Applies(f[i].exprs, a, f) /\ "statement" \in DOMAIN Last(f[i].exprs)
          /\ Last(f[i].exprs) = Last(r[i].exprs)
      BY <1>3, <2>1
    <2>3. QED
      BY <1>1, <2>1, <2>2 DEF Hits
  <1>5. ASSUME NEW i \in Hits(f, a), i \notin Hits(r, a)
        PROVE  Last(f[i].exprs).statement \in {"drop", "reject"}
    <2>1. /\ i \in 1..Len(f) /\ f[i].kind = "rule" /\ r[i].kind = "rule"
          /\ Applies(f[i].exprs, a, f) /\ "statement" \in DOMAIN Last(f[i].exprs)
      BY <1>1, <1>2, <1>5 DEF Hits
    <2>2. "statement" \in DOMAIN Last(r[i].exprs)
      BY <1>3, <2>1
    <2>3. ~Applies(r[i].exprs, a, r)
      BY <1>1, <1>5, <2>1, <2>2 DEF Hits
    <2>4. IsTerminal(Last(f[i].exprs))
      BY <1>3, <2>1, <2>3
    <2>5. QED
      BY <2>4 DEF IsTerminal
  <1>6. QED
    BY <1>4, <1>5

(* The first of the rules that apply either applied under review or denies. *)
LEMMA StricterOutcome ==
  ASSUME NEW f, NEW r, IsRuleset(f), IsRuleset(r), SameReview(f, r), NEW a, Stricter(f, r, a)
  PROVE  Outcome(r, a) = Outcome(f, a) \/ Outcome(f, a) \in {"drop", "reject"}
  <1>1. /\ Hits(r, a) \subseteq Hits(f, a)
        /\ \A i \in Hits(r, a) : Last(f[i].exprs).statement = Last(r[i].exprs).statement
        /\ \A i \in Hits(f, a) \ Hits(r, a) : Last(f[i].exprs).statement \in {"drop", "reject"}
    BY StricterHits
  <1>2. CASE Hits(f, a) = {}
    <2>1. Hits(r, a) = {}
      BY <1>1, <1>2
    <2>2. QED
      BY <1>2, <2>1, OutcomeOf
  <1>3. CASE Hits(f, a) # {}
    <2>1. PICK i \in Hits(f, a) : /\ \A j \in Hits(f, a) : i =< j
                                  /\ Outcome(f, a) = Last(f[i].exprs).statement
      BY <1>3, OutcomeOf
    <2>2. CASE i \notin Hits(r, a)
      BY <1>1, <2>1, <2>2
    <2>3. CASE i \in Hits(r, a)
      <3>1. PICK m \in Hits(r, a) : /\ \A j \in Hits(r, a) : m =< j
                                    /\ Outcome(r, a) = Last(r[m].exprs).statement
        BY <2>3, OutcomeOf
      <3>2. i =< m /\ m =< i
        BY <1>1, <2>1, <2>3, <3>1
      <3>3. i \in Nat /\ m \in Nat
        BY DEF Hits, IsRuleset
      <3>4. i = m
        BY <3>2, <3>3
      <3>5. QED
        BY <1>1, <2>1, <2>3, <3>1, <3>4
    <2>4. QED
      BY <2>2, <2>3
  <1>4. QED
    BY <1>2, <1>3

(* Membership unchanged: the same rules apply.                             *)
LEMMA SameOutcome ==
  ASSUME NEW f, NEW r, IsRuleset(f), IsRuleset(r), SameReview(f, r), NEW a,
         Stricter(f, r, a), Stricter(r, f, a)
  PROVE  Outcome(r, a) = Outcome(f, a)
  <1>1. SameReview(r, f)
    BY ReviewSymmetric
  <1>2. /\ Hits(r, a) \subseteq Hits(f, a)
        /\ \A i \in Hits(r, a) : Last(f[i].exprs).statement = Last(r[i].exprs).statement
    BY StricterHits
  <1>3. Hits(f, a) \subseteq Hits(r, a)
    BY <1>1, StricterHits
  <1>4. Hits(f, a) = Hits(r, a)
    BY <1>2, <1>3
  <1>5. CASE Hits(f, a) = {}
    BY <1>4, <1>5, OutcomeOf
  <1>6. CASE Hits(f, a) # {}
    <2>1. PICK i \in Hits(f, a) : /\ \A j \in Hits(f, a) : i =< j
                                  /\ Outcome(f, a) = Last(f[i].exprs).statement
      BY <1>6, OutcomeOf
    <2>2. PICK m \in Hits(r, a) : /\ \A j \in Hits(r, a) : m =< j
                                  /\ Outcome(r, a) = Last(r[m].exprs).statement
      BY <1>4, <1>6, OutcomeOf
    <2>3. i =< m /\ m =< i
      BY <1>4, <2>1, <2>2
    <2>4. i \in Nat /\ m \in Nat
      BY DEF Hits, IsRuleset
    <2>5. i = m
      BY <2>3, <2>4
    <2>6. QED
      BY <1>2, <1>4, <2>1, <2>2, <2>5
  <1>7. QED
    BY <1>5, <1>6

LEMMA GuardHolds == GuardInv => ReviewStillHolds
  <1>1. SUFFICES ASSUME IsRuleset(firewall), IsRuleset(reviewed),
                        Fingerprint(firewall) # Refusal, Fingerprint(firewall) = Fingerprint(reviewed),
                        NEW a \in Addresses
                 PROVE  \/ Outcome(reviewed, a) = Outcome(firewall, a)
                        \/ a \in Members(firewall) \ Members(reviewed) /\ Outcome(firewall, a) \in {"drop", "reject"}
                        \/ a \in Members(reviewed) \ Members(firewall) /\ Outcome(reviewed, a) \in {"drop", "reject"}
    BY DEF GuardInv, ReviewStillHolds
  <1>2. SameReview(firewall, reviewed)
    BY <1>1, EqualFingerprints
  <1>3. SameReview(reviewed, firewall)
    BY <1>1, <1>2, ReviewSymmetric
  <1>4. CASE a \in Members(firewall) <=> a \in Members(reviewed)
    <2>1. Stricter(firewall, reviewed, a) /\ Stricter(reviewed, firewall, a)
      BY <1>4 DEF Stricter
    <2>2. QED
      BY <1>1, <1>2, <2>1, SameOutcome
  <1>5. CASE a \in Members(firewall) \ Members(reviewed)
    <2>1. Stricter(firewall, reviewed, a)
      BY <1>5 DEF Stricter
    <2>2. QED
      BY <1>1, <1>2, <1>5, <2>1, StricterOutcome
  <1>6. CASE a \in Members(reviewed) \ Members(firewall)
    <2>1. Stricter(reviewed, firewall, a)
      BY <1>6 DEF Stricter
    <2>2. QED
      BY <1>1, <1>3, <1>6, <2>1, StricterOutcome
  <1>7. QED
    BY <1>4, <1>5, <1>6

(* The objects of a ruleset.                                               *)
LEMMA RulesetObjects ==
  ASSUME NEW rules, IsRuleset(rules)
  PROVE  /\ Len(rules) \in Nat /\ Len(rules) >= 2 /\ DOMAIN rules = 1..Len(rules)
         /\ \A i \in 1..Len(rules) : rules[i] \in SetObjects \cup RuleObjects \cup OtherObjects
         /\ rules[1] \in SetObjects
         /\ \A i \in 2..Len(rules) : rules[i] \in RuleObjects \cup OtherObjects
         /\ \A i \in 1..Len(rules) : i # 1 => rules[i] \in RuleObjects \cup OtherObjects
  <1>1. Len(rules) \in Nat /\ Len(rules) >= 2 /\ DOMAIN rules = 1..Len(rules)
    BY DEF IsRuleset
  <1>2. rules[1] \in SetObjects /\ \A i \in 2..Len(rules) : rules[i] \in RuleObjects \cup OtherObjects
    BY DEF IsRuleset
  <1>3. \A i \in 1..Len(rules) : i # 1 => i \in 2..Len(rules)
    BY <1>1
  <1>4. QED
    BY <1>1, <1>2, <1>3

LEMMA IsRulesetWhen ==
  ASSUME NEW n \in Nat, n >= 2, NEW rules, DOMAIN rules = 1..n,
         rules = [i \in 1..n |-> rules[i]], rules[1] \in SetObjects,
         \A i \in 2..n : rules[i] \in RuleObjects \cup OtherObjects
  PROVE  IsRuleset(rules)
  <1>1. \A i \in 1..n : i = 1 \/ i \in 2..n
    OBVIOUS
  <1>2. \A i \in 1..n : rules[i] \in SetObjects \cup RuleObjects \cup OtherObjects
    BY <1>1
  <1>3. PICK S : S = SetObjects \cup RuleObjects \cup OtherObjects
    OBVIOUS
  <1>4. rules \in [1..n -> S]
    BY <1>2, <1>3
  <1>5. rules \in Seq(S) /\ Len(rules) = n
    BY <1>4
  <1>6. QED
    BY <1>3, <1>5 DEF IsRuleset

LEMMA RuleOfShape ==
  ASSUME NEW exprs \in RuleShapes
  PROVE  RuleObject(exprs) \in RuleObjects
  BY NetworkGuardAssumption DEF RuleObject, RuleObjects

LEMMA SetOf ==
  ASSUME NEW members \in SUBSET (Addresses \cup OddMembers), NEW layout \in SetLayouts \cup {"plain"}
  PROVE  SetObject(members, layout) \in SetObjects
  BY DEF SetObject, SetObjects

LEMMA FirstRuleset ==
  ASSUME NEW s \in SetObjects, NEW o \in RuleObjects
  PROVE  IsRuleset(<<s, o>>)
  <1>1. PICK rules : rules = <<s, o>>
    OBVIOUS
  <1>2. /\ DOMAIN rules = 1..2 /\ rules[1] = s /\ rules[2] = o
        /\ rules = [i \in 1..2 |-> rules[i]]
    BY <1>1
  <1>3. \A i \in 2..2 : rules[i] \in RuleObjects \cup OtherObjects
    BY <1>2
  <1>4. rules[1] \in SetObjects /\ 2 \in Nat /\ 2 >= 2
    BY <1>2
  <1>5. IsRuleset(rules)
    <2>1. PICK n \in Nat : n = 2 /\ n >= 2
      BY <1>4
    <2>2. QED
      BY <1>2, <1>3, <1>4, <2>1, IsRulesetWhen
  <1>6. QED
    BY <1>1, <1>5

LEMMA MembersChanged ==
  ASSUME NEW rules, IsRuleset(rules), NEW s \in SetObjects
  PROVE  IsRuleset([rules EXCEPT ![1] = s])
  <1>1. PICK n \in Nat : n = Len(rules) /\ n >= 2 /\ DOMAIN rules = 1..n
    BY RulesetObjects
  <1>2. PICK next : next = [rules EXCEPT ![1] = s]
    OBVIOUS
  <1>a. 1 \in 1..n
    BY <1>1
  <1>b. DOMAIN next = 1..n /\ next[1] = s
    BY <1>1, <1>2, <1>a
  <1>3. DOMAIN next = 1..n /\ next = [i \in 1..n |-> next[i]] /\ next[1] = s
    <2>1. next = [i \in 1..n |-> IF i = 1 THEN s ELSE rules[i]]
      BY <1>1, <1>2
    <2>2. QED
      BY <1>b, <2>1
  <1>4. \A i \in 2..n : next[i] = rules[i]
    BY <1>1, <1>2
  <1>5. \A i \in 2..n : next[i] \in RuleObjects \cup OtherObjects
    BY <1>1, <1>4, RulesetObjects
  <1>6. IsRuleset(next)
    BY <1>1, <1>3, <1>5, IsRulesetWhen
  <1>7. QED
    BY <1>2, <1>6

LEMMA ObjectAdded ==
  ASSUME NEW rules, IsRuleset(rules), NEW o \in RuleObjects \cup OtherObjects
  PROVE  IsRuleset(Append(rules, o))
  <1>1. PICK n \in Nat : n = Len(rules) /\ n >= 2
    BY RulesetObjects
  <1>2. PICK S : rules \in Seq(S) /\ o \in S
    BY DEF IsRuleset
  <1>3. PICK next : next = Append(rules, o)
    OBVIOUS
  <1>4. next \in Seq(S) /\ Len(next) = n + 1
    BY <1>1, <1>2, <1>3
  <1>5. DOMAIN next = 1..(n + 1) /\ next = [i \in 1..(n + 1) |-> next[i]]
    BY <1>4
  <1>6. next[n + 1] = o /\ \A i \in 1..n : next[i] = rules[i]
    BY <1>1, <1>2, <1>3
  <1>7. next[1] \in SetObjects
    BY <1>1, <1>6, RulesetObjects
  <1>8. ASSUME NEW i \in 2..(n + 1)
        PROVE  next[i] \in RuleObjects \cup OtherObjects
    <2>1. CASE i = n + 1
      BY <1>6, <2>1
    <2>2. CASE i # n + 1
      <3>1. i \in 1..n /\ i \in 2..n
        BY <2>2
      <3>2. QED
        BY <1>1, <1>6, <3>1, RulesetObjects
    <2>3. QED
      BY <2>1, <2>2
  <1>9. n + 1 \in Nat /\ n + 1 >= 2
    BY <1>1
  <1>10. IsRuleset(next)
    BY <1>5, <1>7, <1>8, <1>9, IsRulesetWhen
  <1>11. QED
    BY <1>3, <1>10

LEMMA Concatenated ==
  ASSUME NEW S, NEW s \in Seq(S), NEW t \in Seq(S)
  PROVE  /\ s \o t \in Seq(S) /\ Len(s \o t) = Len(s) + Len(t)
         /\ \A i \in 1..Len(s) : (s \o t)[i] = s[i]
         /\ \A i \in (Len(s) + 1)..(Len(s) + Len(t)) : (s \o t)[i] = t[i - Len(s)]
  OBVIOUS

LEMMA RulePutFirst ==
  ASSUME NEW rules, IsRuleset(rules), NEW o \in RuleObjects
  PROVE  IsRuleset(<<rules[1], o>> \o Tail(rules))
  <1>1. PICK n \in Nat : n = Len(rules) /\ n >= 2
    BY RulesetObjects
  <1>2. PICK S : rules \in Seq(S) /\ o \in S /\ rules[1] \in S
    <2>1. rules[1] \in SetObjects
      BY RulesetObjects
    <2>2. QED
      BY <2>1 DEF IsRuleset
  <1>3. PICK rest : rest = Tail(rules)
    OBVIOUS
  <1>4. rest \in Seq(S) /\ Len(rest) = n - 1 /\ \A i \in 1..(n - 1) : rest[i] = rules[i + 1]
    BY <1>1, <1>2, <1>3
  <1>5. PICK head : head = <<rules[1], o>>
    OBVIOUS
  <1>6. head \in Seq(S) /\ Len(head) = 2 /\ head[1] = rules[1] /\ head[2] = o
    BY <1>2, <1>5
  <1>7. PICK next : next = head \o rest
    OBVIOUS
  <1>a. /\ next \in Seq(S) /\ Len(next) = Len(head) + Len(rest)
        /\ \A i \in 1..Len(head) : next[i] = head[i]
        /\ \A i \in (Len(head) + 1)..(Len(head) + Len(rest)) : next[i] = rest[i - Len(head)]
    BY <1>4, <1>6, <1>7, Concatenated
  <1>b. Len(head) = 2 /\ Len(head) + 1 = 3 /\ Len(head) + Len(rest) = n + 1
    BY <1>1, <1>4, <1>6
  <1>8. next \in Seq(S) /\ Len(next) = n + 1
    BY <1>a, <1>b
  <1>9. DOMAIN next = 1..(n + 1) /\ next = [i \in 1..(n + 1) |-> next[i]]
    BY <1>8
  <1>10. next[1] = rules[1] /\ next[2] = o /\ \A i \in 3..(n + 1) : next[i] = rest[i - 2]
    <2>1. 1 \in 1..2 /\ 2 \in 1..2
      OBVIOUS
    <2>2. next[1] = head[1] /\ next[2] = head[2]
      BY <1>a, <1>b, <2>1
    <2>3. \A i \in 3..(n + 1) : next[i] = rest[i - 2]
      BY <1>a, <1>b
    <2>4. QED
      BY <1>6, <2>2, <2>3
  <1>11. ASSUME NEW i \in 2..(n + 1)
         PROVE  next[i] \in RuleObjects \cup OtherObjects
    <2>1. CASE i = 2
      BY <1>10, <2>1
    <2>2. CASE i # 2
      <3>1. i \in 3..(n + 1) /\ i - 2 \in 1..(n - 1) /\ (i - 2) + 1 = i - 1 /\ i - 1 \in 2..n
        BY <2>2
      <3>2. next[i] = rules[i - 1]
        BY <1>4, <1>10, <3>1
      <3>3. QED
        BY <1>1, <3>1, <3>2, RulesetObjects
    <2>3. QED
      BY <2>1, <2>2
  <1>12. n + 1 \in Nat /\ n + 1 >= 2 /\ next[1] \in SetObjects
    BY <1>1, <1>10, RulesetObjects
  <1>13. IsRuleset(next)
    BY <1>9, <1>11, <1>12, IsRulesetWhen
  <1>14. QED
    BY <1>3, <1>5, <1>7, <1>13

LEMMA LastRemoved ==
  ASSUME NEW rules, IsRuleset(rules), Len(rules) > 2
  PROVE  IsRuleset(Front(rules))
  <1>1. PICK n \in Nat : n = Len(rules) /\ n > 2
    BY RulesetObjects
  <1>2. PICK S : rules \in Seq(S)
    BY DEF IsRuleset
  <1>3. PICK next : next = SubSeq(rules, 1, n - 1)
    OBVIOUS
  <1>4. Front(rules) = next
    BY <1>1, <1>3 DEF Front
  <1>5. next \in Seq(S) /\ Len(next) = n - 1 /\ \A i \in 1..(n - 1) : next[i] = rules[i]
    BY <1>1, <1>2, <1>3
  <1>6. DOMAIN next = 1..(n - 1) /\ next = [i \in 1..(n - 1) |-> next[i]]
    BY <1>5
  <1>7. n - 1 \in Nat /\ n - 1 >= 2 /\ 1 \in 1..(n - 1) /\ \A i \in 2..(n - 1) : i \in 2..n /\ i \in 1..(n - 1)
    BY <1>1
  <1>8. next[1] \in SetObjects
    BY <1>5, <1>7, RulesetObjects
  <1>9. \A i \in 2..(n - 1) : next[i] \in RuleObjects \cup OtherObjects
    BY <1>1, <1>5, <1>7, RulesetObjects
  <1>10. IsRuleset(next)
    BY <1>6, <1>7, <1>8, <1>9, IsRulesetWhen
  <1>11. QED
    BY <1>4, <1>10

LEMMA PacketsCounted ==
  ASSUME NEW rules, IsRuleset(rules), NEW i \in 1..Len(rules), rules[i].kind = "rule",
         NEW k \in DOMAIN rules[i].exprs, IsCounter(rules[i].exprs[k])
  PROVE  IsRuleset([rules EXCEPT ![i].exprs[k].packets = @ + 1])
  <1>1. PICK n \in Nat : n = Len(rules) /\ n >= 2 /\ DOMAIN rules = 1..n
    BY RulesetObjects
  <1>2. /\ rules[i] \in RuleObjects /\ rules[i].exprs \in Seq(Expressions)
        /\ Len(rules[i].exprs) \in Nat \ {0} /\ DOMAIN rules[i].exprs = 1..Len(rules[i].exprs) /\ i # 1
    <2>1. rules[i].kind # "set"
      OBVIOUS
    <2>2. QED
      BY <2>1, ObjectShape
  <1>3. PICK x : x = rules[i].exprs[k]
    OBVIOUS
  <1>4. x \in Expressions
    BY <1>2, <1>3
  <1>5. x \in [packets : Nat]
    BY <1>3, <1>4, ExprShape
  <1>6. PICK y : y = [x EXCEPT !.packets = @ + 1]
    OBVIOUS
  <1>7. y \in [packets : Nat]
    BY <1>5, <1>6
  <1>8. y \in Expressions
    BY <1>7 DEF Expressions
  <1>9. PICK e : e = [rules[i].exprs EXCEPT ![k] = y]
    OBVIOUS
  <1>10. e \in Seq(Expressions) /\ Len(e) = Len(rules[i].exprs)
    BY <1>2, <1>8, <1>9
  <1>11. e # <<>>
    BY <1>2, <1>10
  <1>12. PICK o : o = [rules[i] EXCEPT !.exprs = e]
    OBVIOUS
  <1>13. o \in RuleObjects
    BY <1>2, <1>10, <1>11, <1>12 DEF RuleObjects
  <1>14. PICK next : next = [rules EXCEPT ![i] = o]
    OBVIOUS
  <1>15. [rules EXCEPT ![i].exprs[k].packets = @ + 1] = next
    BY <1>3, <1>6, <1>9, <1>12, <1>14
  <1>16. DOMAIN next = 1..n /\ next = [j \in 1..n |-> next[j]] /\ next[i] = o
    BY <1>1, <1>14
  <1>17. \A j \in 1..n : j # i => next[j] = rules[j]
    BY <1>1, <1>14
  <1>18. next[1] \in SetObjects
    BY <1>1, <1>2, <1>17, RulesetObjects
  <1>19. \A j \in 2..n : next[j] \in RuleObjects \cup OtherObjects
    <2>1. \A j \in 2..n : j \in 1..n /\ rules[j] \in RuleObjects \cup OtherObjects
      BY <1>1, RulesetObjects
    <2>2. QED
      BY <1>13, <1>16, <1>17, <2>1
  <1>20. IsRuleset(next)
    BY <1>1, <1>16, <1>18, <1>19, IsRulesetWhen
  <1>21. QED
    BY <1>15, <1>20

LEMMA GuardStart == GuardInit => GuardInv
  <1>1. SUFFICES ASSUME GuardInit PROVE GuardInv
    OBVIOUS
  <1>2. PICK exprs \in RuleShapes, members \in SUBSET Addresses :
          firewall = <<SetObject(members, "plain"), RuleObject(exprs)>>
    BY <1>1 DEF GuardInit
  <1>3. SetObject(members, "plain") \in SetObjects /\ RuleObject(exprs) \in RuleObjects
    BY SetOf, RuleOfShape
  <1>4. IsRuleset(firewall)
    BY <1>2, <1>3, FirstRuleset
  <1>5. QED
    BY <1>1, <1>4 DEF GuardInv, GuardInit

LEMMA GuardStep == GuardInv /\ [GuardNext]_guardVars => GuardInv'
  <1>1. SUFFICES ASSUME IsRuleset(firewall), IsRuleset(reviewed), [GuardNext]_guardVars
                 PROVE  IsRuleset(firewall') /\ IsRuleset(reviewed')
    BY DEF GuardInv
  <1>2. CASE UNCHANGED guardVars
    BY <1>1, <1>2 DEF guardVars
  <1>3. CASE ChangeMembers
    <2>1. PICK members \in SUBSET (Addresses \cup OddMembers), layout \in SetLayouts :
            EditFirewall([firewall EXCEPT ![1] = SetObject(members, layout)])
      BY <1>3 DEF ChangeMembers
    <2>2. SetObject(members, layout) \in SetObjects
      BY SetOf
    <2>3. IsRuleset([firewall EXCEPT ![1] = SetObject(members, layout)])
      BY <1>1, <2>2, MembersChanged
    <2>4. QED
      BY <1>1, <2>1, <2>3 DEF EditFirewall
  <1>4. CASE CountPackets
    <2>1. PICK i \in {j \in DOMAIN firewall : firewall[j].kind = "rule"} : \E k \in DOMAIN firewall[i].exprs :
            /\ IsCounter(firewall[i].exprs[k])
            /\ EditFirewall([firewall EXCEPT ![i].exprs[k].packets = @ + 1])
      BY <1>4 DEF CountPackets
    <2>2. PICK k \in DOMAIN firewall[i].exprs :
            /\ IsCounter(firewall[i].exprs[k])
            /\ EditFirewall([firewall EXCEPT ![i].exprs[k].packets = @ + 1])
      BY <2>1
    <2>3. i \in 1..Len(firewall) /\ firewall[i].kind = "rule"
      BY <1>1, RulesetObjects
    <2>4. IsRuleset([firewall EXCEPT ![i].exprs[k].packets = @ + 1])
      BY <1>1, <2>2, <2>3, PacketsCounted
    <2>5. QED
      BY <1>1, <2>2, <2>4 DEF EditFirewall
  <1>5. CASE ChangeRules
    <2>1. ASSUME NEW exprs \in RuleShapes, EditFirewall(Append(firewall, RuleObject(exprs)))
          PROVE  IsRuleset(firewall') /\ IsRuleset(reviewed')
      <3>1. IsRuleset(Append(firewall, RuleObject(exprs)))
        BY <1>1, ObjectAdded, RuleOfShape
      <3>2. QED
        BY <1>1, <2>1, <3>1 DEF EditFirewall
    <2>2. ASSUME NEW exprs \in RuleShapes, EditFirewall(<<firewall[1], RuleObject(exprs)>> \o Tail(firewall))
          PROVE  IsRuleset(firewall') /\ IsRuleset(reviewed')
      <3>1. IsRuleset(<<firewall[1], RuleObject(exprs)>> \o Tail(firewall))
        BY <1>1, RulePutFirst, RuleOfShape
      <3>2. QED
        BY <1>1, <2>2, <3>1 DEF EditFirewall
    <2>3. ASSUME NEW o \in OtherObjects, EditFirewall(Append(firewall, o))
          PROVE  IsRuleset(firewall') /\ IsRuleset(reviewed')
      <3>1. IsRuleset(Append(firewall, o))
        BY <1>1, ObjectAdded
      <3>2. QED
        BY <1>1, <2>3, <3>1 DEF EditFirewall
    <2>4. ASSUME Len(firewall) > 2, EditFirewall(Front(firewall))
          PROVE  IsRuleset(firewall') /\ IsRuleset(reviewed')
      <3>1. IsRuleset(Front(firewall))
        BY <1>1, <2>4, LastRemoved
      <3>2. QED
        BY <1>1, <2>4, <3>1 DEF EditFirewall
    <2>5. QED
      BY <1>5, <2>1, <2>2, <2>3, <2>4 DEF ChangeRules
  <1>6. QED
    BY <1>1, <1>2, <1>3, <1>4, <1>5 DEF GuardNext

(* While the exporter's fingerprint of the firewall is the reviewed one    *)
(* (ruleset_fingerprint, terminal_set_snapshot), every address meets the   *)
(* fate it met under review, except that one newly enrolled may be denied  *)
(* and one taken out may be let through: whatever the addresses, the       *)
(* owner's rules and the number of edits.                                  *)
THEOREM ReviewHolds == GuardSpec => []ReviewStillHolds
  <1>1. GuardInit => GuardInv
    BY GuardStart
  <1>2. GuardInv /\ [GuardNext]_guardVars => GuardInv'
    BY GuardStep
  <1>3. GuardInv => ReviewStillHolds
    BY GuardHolds
  <1>4. QED
    BY <1>1, <1>2, <1>3, PTL DEF GuardSpec

-----------------------------------------------------------------------------
(* PagedReads: pages of a listing and pages of a feed.                     *)

-----------------------------------------------------------------------------
(* Reading page by page.  A place in an order is a one-to-one numbering of *)
(* a finite set, so every number up to its size is somebody's place.       *)

LEMMA SizeOfInitial ==
  ASSUME NEW n \in Nat
  PROVE  IsFiniteSet(1..n) /\ Cardinality(1..n) = n
  <1>1. 1 \in Int /\ n \in Int
    OBVIOUS
  <1>2. /\ IsFiniteSet(1..n)
        /\ Cardinality(1..n) = IF 1 > n THEN 0 ELSE n - 1 + 1
    BY <1>1, FS_Interval
  <1>3. QED
    BY <1>2

LEMMA ProperSubset ==
  ASSUME NEW S, IsFiniteSet(S), NEW T \in SUBSET S, NEW x \in S, x \notin T
  PROVE  /\ Cardinality(T) \in Nat /\ Cardinality(S) \in Nat
         /\ Cardinality(T) < Cardinality(S)
  <1>1. /\ IsFiniteSet(T) /\ Cardinality(T) =< Cardinality(S)
        /\ Cardinality(S) = Cardinality(T) => S = T
    BY FS_Subset
  <1>2. Cardinality(T) \in Nat /\ Cardinality(S) \in Nat
    BY <1>1, FS_CardinalityType
  <1>3. S # T
    OBVIOUS
  <1>4. QED
    BY <1>1, <1>2, <1>3

(* ORDER BY seq: each number of the set once, in increasing order.         *)
LEMMA AscendingIs ==
  ASSUME NEW S \in SUBSET Nat, IsFiniteSet(S)
  PROVE  /\ Cardinality(S) \in Nat
         /\ Ascending(S) \in Seq(S) /\ Len(Ascending(S)) = Cardinality(S)
         /\ \A i, j \in 1..Cardinality(S) : i < j => Ascending(S)[i] < Ascending(S)[j]
         /\ \A s \in S : \E i \in 1..Cardinality(S) : Ascending(S)[i] = s
  <1>1. PICK n \in Nat : n = Cardinality(S)
    BY FS_CardinalityType
  <1>2. PICK f : f = [s \in S |-> Cardinality({t \in S : t =< s})]
    OBVIOUS
  <1>3. ASSUME NEW s \in S
        PROVE  f[s] \in 1..n
    <2>1. PICK T : T = {t \in S : t =< s}
      OBVIOUS
    <2>2. T \in SUBSET S /\ s \in T
      BY <2>1
    <2>3. IsFiniteSet(T) /\ Cardinality(T) =< n /\ Cardinality(T) \in Nat
      BY <1>1, <2>2, FS_Subset, FS_CardinalityType
    <2>4. Cardinality(T) # 0
      BY <2>2, <2>3, FS_EmptySet
    <2>5. QED
      BY <1>2, <2>1, <2>3, <2>4
  <1>4. f \in [S -> 1..n]
    BY <1>2, <1>3
  <1>5. ASSUME NEW s \in S, NEW u \in S, s < u
        PROVE  f[s] < f[u]
    <2>1. PICK T : T = {t \in S : t =< s}
      OBVIOUS
    <2>2. PICK U : U = {t \in S : t =< u}
      OBVIOUS
    <2>3. s \in Nat /\ u \in Nat
      OBVIOUS
    <2>a. \A t \in S : t \in Nat /\ (t =< s => t =< u)
      BY <1>5, <2>3
    <2>b. u =< u /\ ~(u =< s)
      BY <1>5, <2>3
    <2>4. T \in SUBSET U /\ u \in U /\ u \notin T
      BY <2>1, <2>2, <2>a, <2>b
    <2>5. IsFiniteSet(U)
      BY <2>2, FS_Subset
    <2>6. Cardinality(T) < Cardinality(U)
      BY <2>4, <2>5, ProperSubset
    <2>7. QED
      BY <1>2, <2>1, <2>2, <2>6
  <1>6. \A s, u \in S : f[s] = f[u] => s = u
    <2>1. SUFFICES ASSUME NEW s \in S, NEW u \in S, f[s] = f[u]
                   PROVE  s = u
      OBVIOUS
    <2>2. s \in Nat /\ u \in Nat /\ f[s] \in Nat /\ f[u] \in Nat
      BY <1>4
    <2>3. ~(s < u) /\ ~(u < s)
      BY <1>5, <2>1, <2>2
    <2>4. QED
      BY <2>2, <2>3
  <1>7. \A k \in 1..n : \E s \in S : f[s] = k
    <2>1. f \in Injection(S, 1..n)
      BY <1>4, <1>6 DEF Injection, IsInjective
    <2>2. IsFiniteSet(1..n) /\ Cardinality(1..n) = n
      BY SizeOfInitial
    <2>3. f \in Surjection(S, 1..n)
      BY <1>1, <2>1, <2>2, FS_Injection
    <2>4. QED
      BY <2>3 DEF Surjection
  <1>8. PICK a : a = Ascending(S)
    OBVIOUS
  <1>9. a = [k \in 1..n |-> CHOOSE s \in S : Cardinality({t \in S : t =< s}) = k]
    BY <1>1, <1>8 DEF Ascending
  <1>10. \A k \in 1..n : a[k] \in S /\ f[a[k]] = k
    <2>1. SUFFICES ASSUME NEW k \in 1..n
                   PROVE  a[k] \in S /\ f[a[k]] = k
      OBVIOUS
    <2>2. \E s \in S : Cardinality({t \in S : t =< s}) = k
      BY <1>2, <1>7
    <2>3. a[k] = CHOOSE s \in S : Cardinality({t \in S : t =< s}) = k
      BY <1>9
    <2>4. a[k] \in S /\ Cardinality({t \in S : t =< a[k]}) = k
      BY <2>2, <2>3
    <2>5. QED
      BY <1>2, <2>4
  <1>11. a \in Seq(S) /\ Len(a) = n
    <2>1. a \in [1..n -> S]
      BY <1>9, <1>10
    <2>2. QED
      BY <2>1
  <1>12. ASSUME NEW i \in 1..n, NEW j \in 1..n, i < j
         PROVE  a[i] < a[j]
    <2>1. a[i] \in S /\ a[j] \in S /\ a[i] \in Nat /\ a[j] \in Nat /\ f[a[i]] = i /\ f[a[j]] = j
      BY <1>10
    <2>2. a[j] # a[i] /\ ~(a[j] < a[i])
      <3>1. a[j] < a[i] => j < i
        BY <1>5, <2>1
      <3>2. QED
        BY <1>12, <2>1, <3>1
    <2>3. QED
      BY <2>1, <2>2
  <1>13. ASSUME NEW s \in S
         PROVE  \E i \in 1..n : a[i] = s
    <2>1. f[s] \in 1..n
      BY <1>3
    <2>2. a[f[s]] \in S /\ f[a[f[s]]] = f[s]
      BY <1>10, <2>1
    <2>3. a[f[s]] = s
      BY <1>6, <2>2
    <2>4. QED
      BY <2>1, <2>3
  <1>14. QED
    BY <1>1, <1>8, <1>11, <1>12, <1>13

(* ORDER BY publish_generation DESC: each number of the set once.          *)
LEMMA DescendingIs ==
  ASSUME NEW S \in SUBSET Nat, IsFiniteSet(S)
  PROVE  /\ Cardinality(S) \in Nat
         /\ Descending(S) \in Seq(S) /\ Len(Descending(S)) = Cardinality(S)
         /\ \A i, j \in 1..Cardinality(S) : i # j => Descending(S)[i] # Descending(S)[j]
  <1>1. PICK n \in Nat : n = Cardinality(S)
    BY FS_CardinalityType
  <1>2. PICK f : f = [s \in S |-> Cardinality({t \in S : t >= s})]
    OBVIOUS
  <1>3. ASSUME NEW s \in S
        PROVE  f[s] \in 1..n
    <2>1. PICK T : T = {t \in S : t >= s}
      OBVIOUS
    <2>2. T \in SUBSET S /\ s \in T
      BY <2>1
    <2>3. IsFiniteSet(T) /\ Cardinality(T) =< n /\ Cardinality(T) \in Nat
      BY <1>1, <2>2, FS_Subset, FS_CardinalityType
    <2>4. Cardinality(T) # 0
      BY <2>2, <2>3, FS_EmptySet
    <2>5. QED
      BY <1>2, <2>1, <2>3, <2>4
  <1>4. f \in [S -> 1..n]
    BY <1>2, <1>3
  <1>5. ASSUME NEW s \in S, NEW u \in S, s < u
        PROVE  f[u] < f[s]
    <2>1. PICK T : T = {t \in S : t >= s}
      OBVIOUS
    <2>2. PICK U : U = {t \in S : t >= u}
      OBVIOUS
    <2>3. s \in Nat /\ u \in Nat
      OBVIOUS
    <2>a. \A t \in S : t \in Nat /\ (t >= u => t >= s)
      BY <1>5, <2>3
    <2>b. s >= s /\ ~(s >= u)
      BY <1>5, <2>3
    <2>4. U \in SUBSET T /\ s \in T /\ s \notin U
      BY <2>1, <2>2, <2>a, <2>b
    <2>5. IsFiniteSet(T)
      BY <2>1, FS_Subset
    <2>6. Cardinality(U) < Cardinality(T)
      BY <2>4, <2>5, ProperSubset
    <2>7. QED
      BY <1>2, <2>1, <2>2, <2>6
  <1>6. \A s, u \in S : f[s] = f[u] => s = u
    <2>1. SUFFICES ASSUME NEW s \in S, NEW u \in S, f[s] = f[u]
                   PROVE  s = u
      OBVIOUS
    <2>2. s \in Nat /\ u \in Nat /\ f[s] \in Nat /\ f[u] \in Nat
      BY <1>4
    <2>3. ~(s < u) /\ ~(u < s)
      BY <1>5, <2>1, <2>2
    <2>4. QED
      BY <2>2, <2>3
  <1>7. \A k \in 1..n : \E s \in S : f[s] = k
    <2>1. f \in Injection(S, 1..n)
      BY <1>4, <1>6 DEF Injection, IsInjective
    <2>2. IsFiniteSet(1..n) /\ Cardinality(1..n) = n
      BY SizeOfInitial
    <2>3. f \in Surjection(S, 1..n)
      BY <1>1, <2>1, <2>2, FS_Injection
    <2>4. QED
      BY <2>3 DEF Surjection
  <1>8. PICK a : a = Descending(S)
    OBVIOUS
  <1>9. a = [k \in 1..n |-> CHOOSE s \in S : Cardinality({t \in S : t >= s}) = k]
    BY <1>1, <1>8 DEF Descending
  <1>10. \A k \in 1..n : a[k] \in S /\ f[a[k]] = k
    <2>1. SUFFICES ASSUME NEW k \in 1..n
                   PROVE  a[k] \in S /\ f[a[k]] = k
      OBVIOUS
    <2>2. \E s \in S : Cardinality({t \in S : t >= s}) = k
      BY <1>2, <1>7
    <2>3. a[k] = CHOOSE s \in S : Cardinality({t \in S : t >= s}) = k
      BY <1>9
    <2>4. a[k] \in S /\ Cardinality({t \in S : t >= a[k]}) = k
      BY <2>2, <2>3
    <2>5. QED
      BY <1>2, <2>4
  <1>11. a \in Seq(S) /\ Len(a) = n
    <2>1. a \in [1..n -> S]
      BY <1>9, <1>10
    <2>2. QED
      BY <2>1
  <1>12. \A i, j \in 1..n : i # j => a[i] # a[j]
    BY <1>10
  <1>13. QED
    BY <1>1, <1>8, <1>11, <1>12

(* LIMIT: the least of two numbers, and how many pages there are.          *)
LEMMA MinOfTwo ==
  ASSUME NEW a \in Nat, NEW b \in Nat
  PROVE  Min({a, b}) = IF a =< b THEN a ELSE b
  <1>1. {a, b} \in SUBSET Nat /\ {a, b} # {}
    OBVIOUS
  <1>2. Min({a, b}) \in {a, b} /\ \A y \in {a, b} : Min({a, b}) =< y
    BY <1>1, MinOfNats
  <1>3. PICK m : m = Min({a, b})
    OBVIOUS
  <1>4. (m = a \/ m = b) /\ m =< a /\ m =< b
    BY <1>2, <1>3
  <1>5. m = IF a =< b THEN a ELSE b
    BY <1>4
  <1>6. QED
    BY <1>3, <1>5

LEMMA MaxOfTwo ==
  ASSUME NEW a \in Nat, NEW b \in Nat
  PROVE  Max({a, b}) = IF a >= b THEN a ELSE b
  <1>1. {a, b} \in SUBSET Int /\ {a, b} # {} /\ a + b \in Int /\ \A x \in {a, b} : x =< a + b
    OBVIOUS
  <1>2. Max({a, b}) \in {a, b} /\ \A y \in {a, b} : y =< Max({a, b})
    <2>1. PICK n \in Int : n = a + b
      OBVIOUS
    <2>2. QED
      BY <1>1, <2>1, MaxOfBounded
  <1>3. PICK m : m = Max({a, b})
    OBVIOUS
  <1>4. (m = a \/ m = b) /\ a =< m /\ b =< m
    BY <1>2, <1>3
  <1>5. m = IF a >= b THEN a ELSE b
    BY <1>4
  <1>6. QED
    BY <1>3, <1>5

LEMMA PageCount ==
  ASSUME NEW n \in Nat, NEW p \in Nat \ {0}
  PROVE  /\ Max({1, (n + p - 1) \div p}) \in Nat \ {0}
         /\ Max({1, (n + p - 1) \div p}) * p >= n
  <1>1. PICK d : d = (n + p - 1) \div p
    OBVIOUS
  <1>2. n + p - 1 \in Nat
    OBVIOUS
  <1>3. d \in Nat /\ d * p =< n + p - 1 /\ n + p - 1 < (d + 1) * p
    BY <1>1, <1>2
  <1>4. d * p \in Nat /\ (d + 1) * p = d * p + p
    BY <1>3
  <1>5. d * p >= n
    BY <1>3, <1>4
  <1>6. Max({1, d}) = IF 1 >= d THEN 1 ELSE d
    BY <1>3, MaxOfTwo
  <1>7. CASE d = 0
    <2>1. n = 0
      BY <1>5, <1>7
    <2>2. QED
      BY <1>1, <1>6, <1>7, <2>1
  <1>8. CASE d # 0
    <2>1. Max({1, d}) = d
      BY <1>3, <1>6, <1>8
    <2>2. QED
      BY <1>1, <1>3, <1>5, <1>8, <2>1
  <1>9. QED
    BY <1>7, <1>8

-----------------------------------------------------------------------------
(* The list of cases.  The inductive invariant: what the client has is the *)
(* beginning of what it was promised, no case is promised twice, and while *)
(* the token is of this epoch the store still lists what was promised.     *)

ListRows == [case : ListedCases, state : CaseStates]
ListedItems == [generation : Nat, row : ListRows]
Tokens == [epoch : Nat, generation : Nat, filter : CaseStates \cup {AnyState}]
Listers == [token : Tokens, page : Nat, got : Seq(ListedItems), pages : Nat, want : Seq(ListedItems)]

Wanted(gs, token) ==
  [i \in 1..Len(Listing(gs, token)) |->
     [generation |-> Listing(gs, token)[i], row |-> gs[Listing(gs, token)[i]]]]

ListTyped == generations \in Seq(ListRows) /\ epoch \in Nat /\ lister \in Listers
CasesDiffer(items) ==
  \A i, j \in 1..Len(items) : i # j => items[i].row.case # items[j].row.case
ListPromised ==
  /\ lister.got = UpTo(lister.want, lister.page * PageRows)
  /\ CasesDiffer(lister.want)
  /\ lister.pages = PagesOf(lister.want) /\ lister.page =< lister.pages
TokenKept ==
  /\ lister.token.epoch =< epoch
  /\ lister.token.epoch = epoch => /\ lister.token.generation =< Len(generations)
                                   /\ lister.want = Wanted(generations, lister.token)
ListInv ==
  /\ ListTyped
  /\ lister.page = 0 => lister.got = <<>>
  /\ lister.page > 0 => ListPromised /\ TokenKept

LEMMA SubSeqIs ==
  ASSUME NEW S, NEW s \in Seq(S), NEW m \in Nat, m >= 1, NEW n \in Nat, n =< Len(s)
  PROVE  /\ SubSeq(s, m, n) \in Seq(S)
         /\ Len(SubSeq(s, m, n)) = IF m =< n THEN n - m + 1 ELSE 0
         /\ \A i \in 1..Len(SubSeq(s, m, n)) : SubSeq(s, m, n)[i] = s[m + i - 1]
  OBVIOUS

LEMMA SeqEqual ==
  ASSUME NEW S, NEW s \in Seq(S), NEW t \in Seq(S), Len(s) = Len(t),
         \A i \in 1..Len(s) : s[i] = t[i]
  PROVE  s = t
  OBVIOUS

LEMMA UpToIs ==
  ASSUME NEW S, NEW s \in Seq(S), NEW n \in Nat
  PROVE  /\ UpTo(s, n) \in Seq(S)
         /\ Len(UpTo(s, n)) = IF n =< Len(s) THEN n ELSE Len(s)
         /\ \A i \in 1..Len(UpTo(s, n)) : UpTo(s, n)[i] = s[i]
         /\ Len(s) =< n => UpTo(s, n) = s
  <1>1. PICK m : m = Min({n, Len(s)})
    OBVIOUS
  <1>2. Len(s) \in Nat
    OBVIOUS
  <1>3. m = (IF n =< Len(s) THEN n ELSE Len(s)) /\ m \in Nat /\ m =< Len(s)
    BY <1>1, <1>2, MinOfTwo
  <1>4. PICK t : t = SubSeq(s, 1, m)
    OBVIOUS
  <1>5. UpTo(s, n) = t
    BY <1>1, <1>4 DEF UpTo
  <1>6. t \in Seq(S) /\ Len(t) = m /\ \A i \in 1..Len(t) : t[i] = s[1 + i - 1]
    <2>1. 1 \in Nat /\ 1 >= 1
      OBVIOUS
    <2>2. /\ t \in Seq(S) /\ Len(t) = IF 1 =< m THEN m - 1 + 1 ELSE 0
          /\ \A i \in 1..Len(t) : t[i] = s[1 + i - 1]
      BY <1>3, <1>4, <2>1, SubSeqIs
    <2>3. QED
      BY <1>3, <2>2
  <1>7. \A i \in 1..Len(t) : t[i] = s[i]
    <2>1. \A i \in 1..Len(t) : 1 + i - 1 = i
      OBVIOUS
    <2>2. QED
      BY <1>6, <2>1
  <1>8. Len(s) =< n => t = s
    <2>1. Len(s) =< n => Len(t) = Len(s)
      BY <1>2, <1>3, <1>6
    <2>2. QED
      BY <1>6, <1>7, <2>1, SeqEqual
  <1>9. QED
    BY <1>3, <1>5, <1>6, <1>7, <1>8

(* The list a token stands for.                                            *)
LEMMA SelectedIs ==
  ASSUME NEW gs, NEW token \in Tokens
  PROVE  /\ token.generation \in Nat
         /\ Selected(gs, token) \in SUBSET Nat /\ Selected(gs, token) \in SUBSET (1..token.generation)
         /\ IsFiniteSet(Selected(gs, token))
  <1>1. token.generation \in Nat
    BY DEF Tokens
  <1>2. Selected(gs, token) \in SUBSET (1..token.generation)
    BY DEF Selected
  <1>3. IsFiniteSet(1..token.generation)
    BY <1>1, SizeOfInitial
  <1>4. IsFiniteSet(Selected(gs, token))
    BY <1>2, <1>3, FS_Subset
  <1>5. QED
    BY <1>1, <1>2, <1>4

LEMMA WantedIs ==
  ASSUME NEW gs \in Seq(ListRows), NEW token \in Tokens, token.generation =< Len(gs)
  PROVE  /\ Listing(gs, token) \in Seq(Nat) /\ Len(Wanted(gs, token)) = Len(Listing(gs, token))
         /\ Wanted(gs, token) \in Seq(ListedItems)
         /\ \A i \in 1..Len(Listing(gs, token)) :
              Wanted(gs, token)[i] = [generation |-> Listing(gs, token)[i], row |-> gs[Listing(gs, token)[i]]]
         /\ CasesDiffer(Wanted(gs, token))
  <1>1. PICK S : S = Selected(gs, token)
    OBVIOUS
  <1>2. PICK listing : listing = Listing(gs, token)
    OBVIOUS
  <1>3. PICK n \in Nat : n = token.generation
    BY SelectedIs
  <1>4. S \in SUBSET Nat /\ S \in SUBSET (1..n) /\ IsFiniteSet(S)
    BY <1>1, <1>3, SelectedIs
  <1>5. PICK c \in Nat : c = Cardinality(S)
    BY <1>4, FS_CardinalityType
  <1>6. /\ listing \in Seq(S) /\ Len(listing) = c
        /\ \A i, j \in 1..c : i # j => listing[i] # listing[j]
    BY <1>1, <1>2, <1>4, <1>5, DescendingIs DEF Listing
  <1>7. \A i \in 1..c : listing[i] \in S
    BY <1>6
  <1>8. listing \in Seq(Nat)
    <2>1. listing \in [1..c -> Nat]
      <3>1. listing \in [1..c -> S]
        BY <1>6
      <3>2. QED
        BY <1>4, <3>1
    <2>2. QED
      BY <2>1
  <1>9. PICK w : w = Wanted(gs, token)
    OBVIOUS
  <1>10. w = [i \in 1..c |-> [generation |-> listing[i], row |-> gs[listing[i]]]]
    BY <1>2, <1>6, <1>9 DEF Wanted
  <1>11. \A g \in S : g \in Nat /\ g \in 1..Len(gs) /\ gs[g] \in ListRows
    <2>1. \A g \in S : g \in Nat /\ g \in 1..Len(gs)
      BY <1>3, <1>4
    <2>2. \A g \in 1..Len(gs) : gs[g] \in ListRows
      OBVIOUS
    <2>3. QED
      BY <2>1, <2>2
  <1>12. \A i \in 1..c : w[i] = [generation |-> listing[i], row |-> gs[listing[i]]]
    BY <1>10
  <1>13. \A i \in 1..c : w[i] \in ListedItems
    <2>1. SUFFICES ASSUME NEW i \in 1..c
                   PROVE  w[i] \in ListedItems
      OBVIOUS
    <2>2. listing[i] \in Nat /\ gs[listing[i]] \in ListRows
      BY <1>7, <1>11
    <2>3. w[i] = [generation |-> listing[i], row |-> gs[listing[i]]]
      BY <1>12
    <2>4. QED
      BY <2>2, <2>3 DEF ListedItems
  <1>14. w \in Seq(ListedItems) /\ Len(w) = c
    <2>1. w \in [1..c -> ListedItems]
      BY <1>10, <1>13
    <2>2. QED
      BY <2>1
  <1>15. ASSUME NEW g \in S, NEW h \in S, g < h
         PROVE  gs[g].case # gs[h].case
    <2>1. h \in g + 1 .. token.generation
      BY <1>3, <1>4, <1>15
    <2>2. QED
      BY <1>1, <2>1 DEF Selected
  <1>16. ASSUME NEW i \in 1..c, NEW j \in 1..c, i # j
         PROVE  w[i].row.case # w[j].row.case
    <2>1. listing[i] \in S /\ listing[j] \in S /\ listing[i] # listing[j]
      BY <1>6, <1>7, <1>16
    <2>a. listing[i] \in Nat /\ listing[j] \in Nat
      BY <1>4, <2>1
    <2>2. listing[i] < listing[j] \/ listing[j] < listing[i]
      BY <2>1, <2>a
    <2>3. gs[listing[i]].case # gs[listing[j]].case
      BY <1>15, <2>1, <2>2
    <2>4. w[i].row = gs[listing[i]] /\ w[j].row = gs[listing[j]]
      <3>1. w[i] = [generation |-> listing[i], row |-> gs[listing[i]]]
        BY <1>12
      <3>2. w[j] = [generation |-> listing[j], row |-> gs[listing[j]]]
        BY <1>12
      <3>3. QED
        BY <3>1, <3>2
    <2>5. QED
      BY <2>3, <2>4
  <1>17. CasesDiffer(w)
    BY <1>14, <1>16 DEF CasesDiffer
  <1>18. QED
    BY <1>2, <1>6, <1>8, <1>9, <1>12, <1>14, <1>17

(* The list depends on nothing after the token's generation.               *)
LEMMA WantedSame ==
  ASSUME NEW gs, NEW hs, NEW token \in Tokens,
         \A g \in 1..token.generation : gs[g] = hs[g]
  PROVE  Wanted(gs, token) = Wanted(hs, token)
  <1>1. token.generation \in Nat
    BY SelectedIs
  <1>2. \A g \in 1..token.generation : \A h \in g + 1 .. token.generation : h \in 1..token.generation
    BY <1>1
  <1>3. Selected(gs, token) = Selected(hs, token)
    BY <1>2 DEF Selected
  <1>4. PICK S : S = Selected(gs, token)
    OBVIOUS
  <1>5. PICK listing : listing = Descending(S)
    OBVIOUS
  <1>6. Listing(gs, token) = listing /\ Listing(hs, token) = listing
    BY <1>3, <1>4, <1>5 DEF Listing
  <1>7. S \in SUBSET Nat /\ S \in SUBSET (1..token.generation) /\ IsFiniteSet(S)
    BY <1>4, SelectedIs
  <1>8. listing \in Seq(S)
    BY <1>5, <1>7, DescendingIs
  <1>9. \A i \in 1..Len(listing) : gs[listing[i]] = hs[listing[i]]
    <2>1. \A i \in 1..Len(listing) : listing[i] \in S
      BY <1>8
    <2>2. QED
      BY <1>7, <2>1
  <1>10. QED
    BY <1>6, <1>9 DEF Wanted

(* One page more.                                                          *)
LEMMA PageAdds ==
  ASSUME generations \in Seq(ListRows), NEW token \in Tokens, token.generation =< Len(generations),
         NEW place \in Nat, NEW next \in Nat, next = place + 1
  PROVE  /\ ListItems(token, next) \in Seq(ListedItems)
         /\ UpTo(Wanted(generations, token), place * PageRows) \o ListItems(token, next)
              = UpTo(Wanted(generations, token), next * PageRows)
  <1>1. PICK p \in Nat \ {0} : p = PageRows
    BY PagedReadsAssumption
  <1>2. PICK a \in Nat : a = place * p
    OBVIOUS
  <1>3. place * PageRows = a /\ next * PageRows = a + p /\ (next - 1) * PageRows = a
    <2>1. next * p = a + p
      BY <1>2
    <2>2. next - 1 = place
      OBVIOUS
    <2>3. QED
      BY <1>1, <1>2, <2>1, <2>2
  <1>4. PICK listing : listing = Listing(generations, token)
    OBVIOUS
  <1>5. PICK w : w = Wanted(generations, token)
    OBVIOUS
  <1>6. PICK c \in Nat : /\ c = Len(listing) /\ listing \in Seq(Nat) /\ Len(w) = c /\ w \in Seq(ListedItems)
                         /\ \A i \in 1..c : w[i] = [generation |-> listing[i], row |-> generations[listing[i]]]
    <2>1. /\ listing \in Seq(Nat) /\ Len(listing) \in Nat /\ w \in Seq(ListedItems) /\ Len(w) = Len(listing)
          /\ \A i \in 1..Len(listing) :
               w[i] = [generation |-> listing[i], row |-> generations[listing[i]]]
      BY <1>4, <1>5, WantedIs
    <2>2. QED
      BY <2>1
  <1>7. PICK m \in Nat : m = Min({a + p, c}) /\ m =< c /\ m = IF a + p =< c THEN a + p ELSE c
    <2>1. a + p \in Nat
      OBVIOUS
    <2>2. QED
      BY <2>1, MinOfTwo
  <1>a. PICK k \in Nat : k = a + 1 /\ k >= 1
    OBVIOUS
  <1>8. PICK numbers : numbers = SubSeq(listing, k, m)
    OBVIOUS
  <1>9. PageOf(listing, next) = numbers
    BY <1>3, <1>6, <1>7, <1>8, <1>a DEF PageOf
  <1>10. /\ numbers \in Seq(Nat) /\ Len(numbers) = (IF k =< m THEN m - k + 1 ELSE 0)
         /\ \A i \in 1..Len(numbers) : numbers[i] = listing[k + i - 1]
    <2>1. m =< Len(listing) /\ listing \in Seq(Nat)
      BY <1>6, <1>7
    <2>2. QED
      BY <1>8, <1>a, <2>1, SubSeqIs
  <1>11. PICK d \in Nat : d = Len(numbers) /\ d = IF a =< m THEN m - a ELSE 0
    <2>1. Len(numbers) = IF k =< m THEN m - k + 1 ELSE 0
      BY <1>10
    <2>2. Len(numbers) \in Nat /\ Len(numbers) = IF a =< m THEN m - a ELSE 0
      BY <1>a, <2>1
    <2>3. QED
      BY <2>2
  <1>12. PICK items : items = ListItems(token, next)
    OBVIOUS
  <1>13. items = [i \in 1..d |-> [generation |-> numbers[i], row |-> generations[numbers[i]]]]
    BY <1>4, <1>9, <1>11, <1>12 DEF ListItems, ListItem
  <1>14. ASSUME NEW i \in 1..d
         PROVE  a + i \in 1..c /\ items[i] = w[a + i]
    <2>1. a + i \in 1..c /\ k + i - 1 = a + i
      BY <1>7, <1>11, <1>a
    <2>2. numbers[i] = listing[a + i]
      BY <1>10, <1>11, <2>1
    <2>3. items[i] = [generation |-> numbers[i], row |-> generations[numbers[i]]]
      BY <1>13
    <2>4. QED
      BY <1>6, <2>1, <2>2, <2>3
  <1>15. \A i \in 1..c : w[i] \in ListedItems
    BY <1>6
  <1>16. items \in Seq(ListedItems) /\ Len(items) = d
    <2>1. \A i \in 1..d : items[i] \in ListedItems
      BY <1>14, <1>15
    <2>2. items \in [1..d -> ListedItems]
      BY <1>13, <2>1
    <2>3. QED
      BY <2>2
  <1>17. PICK s : s = UpTo(w, a)
    OBVIOUS
  <1>18. /\ s \in Seq(ListedItems) /\ Len(s) = (IF a =< c THEN a ELSE c)
         /\ \A i \in 1..Len(s) : s[i] = w[i]
    <2>1. w \in Seq(ListedItems) /\ Len(w) = c
      BY <1>6
    <2>2. /\ UpTo(w, a) \in Seq(ListedItems)
          /\ Len(UpTo(w, a)) = (IF a =< Len(w) THEN a ELSE Len(w))
          /\ \A i \in 1..Len(UpTo(w, a)) : UpTo(w, a)[i] = w[i]
      BY <2>1, UpToIs
    <2>3. QED
      BY <1>17, <2>1, <2>2
  <1>19. PICK t : t = UpTo(w, a + p)
    OBVIOUS
  <1>20. /\ t \in Seq(ListedItems) /\ Len(t) = m
         /\ \A i \in 1..Len(t) : t[i] = w[i]
    <2>1. a + p \in Nat
      OBVIOUS
    <2>2. QED
      BY <1>6, <1>7, <1>19, <2>1, UpToIs
  <1>21. PICK z : z = s \o items
    OBVIOUS
  <1>22. PICK l \in Nat : l = Len(s)
    BY <1>18
  <1>23. /\ z \in Seq(ListedItems) /\ Len(z) = l + d
         /\ \A i \in 1..l : z[i] = s[i]
         /\ \A i \in (l + 1)..(l + d) : z[i] = items[i - l]
    <2>1. s \in Seq(ListedItems) /\ items \in Seq(ListedItems) /\ Len(items) = d
      BY <1>16, <1>18
    <2>2. /\ s \o items \in Seq(ListedItems) /\ Len(s \o items) = Len(s) + Len(items)
          /\ \A i \in 1..Len(s) : (s \o items)[i] = s[i]
          /\ \A i \in (Len(s) + 1)..(Len(s) + Len(items)) : (s \o items)[i] = items[i - Len(s)]
      BY <2>1, Concatenated
    <2>3. QED
      BY <1>21, <1>22, <2>1, <2>2
  <1>24. l + d = m /\ (d > 0 => l = a)
    BY <1>7, <1>11, <1>18, <1>22
  <1>25. ASSUME NEW i \in 1..m
         PROVE  z[i] = t[i]
    <2>1. t[i] = w[i]
      BY <1>20
    <2>2. CASE i =< l
      <3>1. i \in 1..l
        BY <2>2
      <3>2. QED
        BY <1>18, <1>22, <1>23, <2>1, <3>1
    <2>3. CASE i > l
      <3>1. i \in (l + 1)..(l + d) /\ i - l \in 1..d /\ l = a /\ a + (i - l) = i
        BY <1>24, <2>3
      <3>2. z[i] = items[i - l]
        BY <1>23, <3>1
      <3>3. items[i - l] = w[a + (i - l)]
        BY <1>14, <3>1
      <3>4. QED
        BY <2>1, <3>1, <3>2, <3>3
    <2>4. QED
      BY <2>2, <2>3
  <1>26. z = t
    BY <1>20, <1>23, <1>24, <1>25, SeqEqual
  <1>27. QED
    BY <1>3, <1>5, <1>12, <1>16, <1>17, <1>19, <1>21, <1>26

LEMMA ListerShape ==
  ASSUME ListTyped
  PROVE  /\ lister.token \in Tokens /\ lister.page \in Nat /\ lister.pages \in Nat
         /\ lister.got \in Seq(ListedItems) /\ lister.want \in Seq(ListedItems)
         /\ lister.token.epoch \in Nat /\ lister.token.generation \in Nat
         /\ Len(generations) \in Nat /\ epoch \in Nat
  BY DEF ListTyped, Listers, Tokens

(* Nobody's list changes when a revision is published.                     *)
LEMMA PublishKeepsList ==
  ASSUME ListInv, NEW c \in ListedCases, NEW s \in CaseStates, PublishRevision(c, s)
  PROVE  ListInv'
  <1>1. PICK row : row = [case |-> c, state |-> s]
    OBVIOUS
  <1>2. row \in ListRows
    BY <1>1 DEF ListRows
  <1>3. generations' = Append(generations, row) /\ epoch' = epoch /\ lister' = lister
    BY <1>1 DEF PublishRevision
  <1>4. generations \in Seq(ListRows) /\ ListTyped
    BY DEF ListInv, ListTyped
  <1>5. /\ generations' \in Seq(ListRows) /\ Len(generations') = Len(generations) + 1
        /\ \A g \in 1..Len(generations) : generations'[g] = generations[g]
    BY <1>2, <1>3, <1>4
  <1>6. ListTyped'
    BY <1>3, <1>4, <1>5 DEF ListTyped
  <1>7. ListPromised => ListPromised'
    BY <1>3 DEF ListPromised
  <1>8. TokenKept => TokenKept'
    <2>1. SUFFICES ASSUME TokenKept, lister.token.epoch = epoch
                   PROVE  /\ lister.token.generation =< Len(generations')
                          /\ lister.want = Wanted(generations', lister.token)
      BY <1>3 DEF TokenKept
    <2>2. /\ lister.token.generation =< Len(generations)
          /\ lister.want = Wanted(generations, lister.token)
      BY <2>1 DEF TokenKept
    <2>3. lister.token \in Tokens /\ lister.token.generation \in Nat /\ Len(generations) \in Nat
      BY <1>4, ListerShape
    <2>4. 1..lister.token.generation \subseteq 1..Len(generations)
      BY <2>2, <2>3
    <2>5. \A g \in 1..lister.token.generation : generations[g] = generations'[g]
      BY <1>5, <2>4
    <2>6. Wanted(generations, lister.token) = Wanted(generations', lister.token)
      BY <2>3, <2>5, WantedSame
    <2>7. lister.token.generation =< Len(generations')
      BY <1>5, <2>2, <2>3
    <2>8. QED
      BY <2>2, <2>6, <2>7
  <1>9. QED
    BY <1>3, <1>6, <1>7, <1>8 DEF ListInv

(* A restore changes the epoch: no token given out before is of it.        *)
LEMMA RestoreKeepsList ==
  ASSUME ListInv, RestoreStore
  PROVE  ListInv'
  <1>1. epoch' = epoch + 1 /\ lister' = lister
    BY DEF RestoreStore
  <1>2. ListTyped /\ generations \in Seq(ListRows) /\ epoch \in Nat /\ lister.token.epoch \in Nat
    BY ListerShape DEF ListInv, ListTyped
  <1>3. generations' \in Seq(ListRows)
    <2>1. PICK g \in 0 .. Len(generations) : generations' = SubSeq(generations, 1, g)
      BY DEF RestoreStore
    <2>2. g \in Nat /\ g =< Len(generations) /\ 1 \in Nat /\ 1 >= 1
      BY <1>2
    <2>3. QED
      BY <1>2, <2>1, <2>2, SubSeqIs
  <1>4. ListTyped'
    BY <1>1, <1>2, <1>3 DEF ListTyped
  <1>5. ListPromised => ListPromised'
    BY <1>1 DEF ListPromised
  <1>6. TokenKept => TokenKept'
    <2>1. SUFFICES ASSUME TokenKept
                   PROVE  lister.token.epoch =< epoch' /\ lister.token.epoch # epoch'
      BY <1>1 DEF TokenKept
    <2>2. lister.token.epoch =< epoch
      BY <2>1 DEF TokenKept
    <2>3. QED
      BY <1>1, <1>2, <2>2
  <1>7. QED
    BY <1>1, <1>4, <1>5, <1>6 DEF ListInv

LEMMA NoListIs == NoList \in Listers /\ NoList.page = 0 /\ NoList.got = <<>>
  <1>1. <<>> \in Seq(ListedItems)
    OBVIOUS
  <1>2. NoToken \in Tokens
    BY DEF NoToken, Tokens
  <1>3. QED
    BY <1>1, <1>2 DEF NoList, Listers

LEMMA DroppedList ==
  ASSUME ListInv, lister' = NoList, UNCHANGED <<generations, epoch>>
  PROVE  ListInv'
  <1>1. ListTyped'
    BY NoListIs DEF ListInv, ListTyped
  <1>2. lister'.page = 0 /\ lister'.got = <<>>
    BY NoListIs
  <1>3. QED
    BY <1>1, <1>2 DEF ListInv

(* Number of pages and what the last of them completes.                    *)
LEMMA PagesOfIs ==
  ASSUME NEW S, NEW s \in Seq(S)
  PROVE  PagesOf(s) \in Nat \ {0} /\ PagesOf(s) * PageRows >= Len(s)
  <1>1. PICK p \in Nat \ {0} : p = PageRows
    BY PagedReadsAssumption
  <1>2. PICK n \in Nat : n = Len(s)
    OBVIOUS
  <1>3. PagesOf(s) = Max({1, (n + p - 1) \div p})
    BY <1>1, <1>2 DEF PagesOf
  <1>4. QED
    BY <1>1, <1>2, <1>3, PageCount

LEMMA FirstPageList ==
  ASSUME ListInv, NEW filter \in CaseStates \cup {AnyState}, FirstPage(filter)
  PROVE  ListInv'
  <1>1. PICK token : token = [epoch |-> epoch, generation |-> Len(generations), filter |-> filter]
    OBVIOUS
  <1>2. PICK listing : listing = Listing(generations, token)
    OBVIOUS
  <1>3. PICK w : w = Wanted(generations, token)
    OBVIOUS
  <1>4. PICK items : items = ListItems(token, 1)
    OBVIOUS
  <1>5. w = [i \in 1..Len(listing) |-> ListItem(listing[i])]
    BY <1>2, <1>3 DEF Wanted, ListItem
  <1>6. /\ lister' = [token |-> token, page |-> 1, got |-> items, pages |-> PagesOf(listing), want |-> w]
        /\ UNCHANGED <<generations, epoch>>
    BY <1>1, <1>2, <1>4, <1>5 DEF FirstPage
  <1>7. generations \in Seq(ListRows) /\ epoch \in Nat /\ Len(generations) \in Nat
    BY DEF ListInv, ListTyped
  <1>8. token \in Tokens /\ token.generation = Len(generations) /\ token.epoch = epoch
    BY <1>1, <1>7 DEF Tokens
  <1>9. token.generation =< Len(generations)
    BY <1>7, <1>8
  <1>10. listing \in Seq(Nat) /\ w \in Seq(ListedItems) /\ Len(w) = Len(listing) /\ CasesDiffer(w)
    BY <1>2, <1>3, <1>7, <1>8, <1>9, WantedIs
  <1>11. items \in Seq(ListedItems) /\ UpTo(w, 0 * PageRows) \o items = UpTo(w, 1 * PageRows)
    <2>1. 0 \in Nat /\ 1 \in Nat /\ 1 = 0 + 1
      OBVIOUS
    <2>2. QED
      BY <1>3, <1>4, <1>7, <1>8, <1>9, <2>1, PageAdds
  <1>12. items = UpTo(w, 1 * PageRows)
    <2>1. 0 * PageRows = 0
      BY PagedReadsAssumption
    <2>2. UpTo(w, 0) = <<>>
      <3>1. PICK t : t = UpTo(w, 0)
        OBVIOUS
      <3>2. 0 \in Nat /\ Len(w) \in Nat
        BY <1>10
      <3>3. t \in Seq(ListedItems) /\ Len(t) = IF 0 =< Len(w) THEN 0 ELSE Len(w)
        BY <1>10, <3>1, <3>2, UpToIs
      <3>4. t = <<>>
        BY <3>2, <3>3
      <3>5. QED
        BY <3>1, <3>4
    <2>3. <<>> \o items = items
      BY <1>11
    <2>4. QED
      BY <1>11, <2>1, <2>2, <2>3
  <1>13. PagesOf(listing) = PagesOf(w) /\ PagesOf(w) \in Nat \ {0}
    <2>1. PagesOf(listing) = PagesOf(w)
      BY <1>10 DEF PagesOf
    <2>2. PagesOf(w) \in Nat \ {0}
      BY <1>10, PagesOfIs
    <2>3. QED
      BY <2>1, <2>2
  <1>14. lister' \in Listers
    BY <1>6, <1>8, <1>10, <1>11, <1>13 DEF Listers
  <1>15. /\ lister'.token = token /\ lister'.page = 1 /\ lister'.got = items
         /\ lister'.pages = PagesOf(w) /\ lister'.want = w
    BY <1>6, <1>13
  <1>16. ListPromised'
    <2>1. 1 =< PagesOf(w)
      BY <1>13
    <2>2. QED
      BY <1>10, <1>12, <1>15, <2>1 DEF ListPromised
  <1>17. TokenKept'
    BY <1>3, <1>6, <1>7, <1>8, <1>9, <1>15 DEF TokenKept
  <1>18. ListTyped'
    BY <1>6, <1>7, <1>14 DEF ListTyped
  <1>19. lister'.page # 0
    BY <1>15
  <1>20. QED
    BY <1>16, <1>17, <1>18, <1>19 DEF ListInv

LEMMA FollowingPageList ==
  ASSUME ListInv, FollowingPage
  PROVE  ListInv'
  <1>1. CASE ~Honoured(lister.token)
    <2>1. lister' = NoList /\ UNCHANGED <<generations, epoch>>
      BY <1>1 DEF FollowingPage
    <2>2. QED
      BY <2>1, DroppedList
  <1>2. CASE Honoured(lister.token)
    <2>1. PICK token : token = lister.token
      OBVIOUS
    <2>2. PICK w : w = lister.want
      OBVIOUS
    <2>3. /\ ListTyped /\ lister \in Listers /\ generations \in Seq(ListRows)
          /\ token \in Tokens /\ w \in Seq(ListedItems) /\ lister.got \in Seq(ListedItems)
          /\ lister.page \in Nat /\ lister.pages \in Nat
      BY <2>1, <2>2, ListerShape DEF ListInv, ListTyped
    <2>4. PICK place \in Nat, next \in Nat : place = lister.page /\ next = place + 1
      BY <2>3
    <2>5. place >= 1 /\ next =< lister.pages
      BY <2>3, <2>4 DEF FollowingPage
    <2>6. ListPromised /\ TokenKept
      BY <2>4, <2>5 DEF ListInv
    <2>7. token.epoch = epoch /\ token.generation =< Len(generations) /\ w = Wanted(generations, token)
      BY <1>2, <2>1, <2>2, <2>6 DEF Honoured, TokenKept
    <2>8. PICK listing : listing = Listing(generations, token)
      OBVIOUS
    <2>9. PICK items : items = ListItems(token, next)
      OBVIOUS
    <2>10. items \in Seq(ListedItems) /\ UpTo(w, place * PageRows) \o items = UpTo(w, next * PageRows)
      BY <2>3, <2>4, <2>7, <2>9, PageAdds
    <2>11. PICK got : got = lister.got \o items
      OBVIOUS
    <2>12. got \in Seq(ListedItems) /\ got = UpTo(w, next * PageRows)
      <3>1. lister.got = UpTo(w, place * PageRows)
        BY <2>2, <2>4, <2>6 DEF ListPromised
      <3>2. got \in Seq(ListedItems)
        BY <2>3, <2>10, <2>11, Concatenated
      <3>3. QED
        BY <2>10, <2>11, <3>1, <3>2
    <2>13. PagesOf(listing) = PagesOf(w) /\ PagesOf(w) \in Nat \ {0} /\ PagesOf(w) = lister.pages
      <3>1. listing \in Seq(Nat) /\ Len(w) = Len(listing)
        BY <2>3, <2>7, <2>8, WantedIs
      <3>2. PagesOf(listing) = PagesOf(w)
        BY <3>1 DEF PagesOf
      <3>3. PagesOf(w) \in Nat \ {0}
        BY <2>3, PagesOfIs
      <3>4. PagesOf(w) = lister.pages
        BY <2>2, <2>6 DEF ListPromised
      <3>5. QED
        BY <3>2, <3>3, <3>4
    <2>14. PICK pages : pages = PagesOf(listing)
      OBVIOUS
    <2>15. /\ lister' = [lister EXCEPT !.page = next, !.got = got, !.pages = pages]
           /\ UNCHANGED <<generations, epoch>>
      BY <1>2, <2>1, <2>4, <2>8, <2>9, <2>11, <2>14 DEF FollowingPage
    <2>16. /\ lister' \in Listers /\ lister'.token = token /\ lister'.page = next /\ lister'.got = got
           /\ lister'.pages = pages /\ lister'.want = w
      BY <2>1, <2>2, <2>3, <2>12, <2>13, <2>14, <2>15 DEF Listers
    <2>17. ListPromised'
      <3>1. CasesDiffer(w)
        BY <2>2, <2>6 DEF ListPromised
      <3>2. QED
        BY <2>5, <2>12, <2>13, <2>14, <2>16, <3>1 DEF ListPromised
    <2>18. TokenKept'
      <3>1. epoch =< epoch
        BY <2>3 DEF ListTyped
      <3>2. QED
        BY <2>7, <2>15, <2>16, <3>1 DEF TokenKept
    <2>19. ListTyped'
      BY <2>3, <2>15, <2>16 DEF ListTyped
    <2>20. lister'.page # 0
      BY <2>4, <2>16
    <2>21. QED
      BY <2>17, <2>18, <2>19, <2>20 DEF ListInv
  <1>3. QED
    BY <1>1, <1>2

LEMMA ListStepInv ==
  ASSUME ListInv, ListStep
  PROVE  ListInv'
  <1>1. ASSUME BeginAgain
        PROVE  ListInv'
    <2>1. lister' = NoList /\ UNCHANGED <<generations, epoch>>
      BY <1>1 DEF BeginAgain
    <2>2. QED
      BY <2>1, DroppedList
  <1>2. QED
    BY <1>1, PublishKeepsList, FirstPageList, RestoreKeepsList, FollowingPageList DEF ListStep

LEMMA FeedKeepsList ==
  ASSUME ListInv, UNCHANGED <<generations, epoch, lister>>
  PROVE  ListInv'
  BY DEF ListInv, ListTyped, ListPromised, TokenKept

(* What the client of the list is promised.                                *)
LEMMA ListHolds ==
  ASSUME ListInv
  PROVE  /\ lister.page > 0 => lister.got = UpTo(lister.want, lister.page * PageRows)
         /\ \A i, j \in 1 .. Len(lister.got) : i # j => lister.got[i].row.case # lister.got[j].row.case
         /\ lister.page > 0 /\ lister.page = lister.pages => lister.got = lister.want
  <1>1. /\ lister.page \in Nat /\ lister.got \in Seq(ListedItems) /\ lister.want \in Seq(ListedItems)
    BY ListerShape DEF ListInv
  <1>2. CASE lister.page = 0
    <2>1. lister.got = <<>> /\ ~(lister.page > 0)
      BY <1>2 DEF ListInv
    <2>2. Len(lister.got) = 0
      BY <2>1
    <2>3. QED
      BY <2>1, <2>2
  <1>3. CASE lister.page # 0
    <2>1. ListPromised
      BY <1>1, <1>3 DEF ListInv
    <2>2. PICK w, got : w = lister.want /\ got = lister.got
      OBVIOUS
    <2>3. PICK n \in Nat : n = lister.page * PageRows
      BY <1>1, PagedReadsAssumption
    <2>4. w \in Seq(ListedItems) /\ got \in Seq(ListedItems) /\ got = UpTo(w, n) /\ CasesDiffer(w)
      BY <1>1, <2>1, <2>2, <2>3 DEF ListPromised
    <2>5. /\ Len(got) = (IF n =< Len(w) THEN n ELSE Len(w))
          /\ \A i \in 1..Len(got) : got[i] = w[i]
          /\ Len(w) =< n => got = w
      BY <2>4, UpToIs
    <2>6. \A i \in 1..Len(got) : i \in 1..Len(w)
      BY <2>4, <2>5
    <2>7. \A i, j \in 1..Len(got) : i # j => got[i].row.case # got[j].row.case
      BY <2>4, <2>5, <2>6 DEF CasesDiffer
    <2>8. lister.page = lister.pages => got = w
      <3>1. lister.page = lister.pages => n >= Len(w)
        <4>1. lister.pages = PagesOf(w)
          BY <2>1, <2>2 DEF ListPromised
        <4>2. PagesOf(w) * PageRows >= Len(w)
          BY <2>4, PagesOfIs
        <4>3. QED
          BY <2>3, <4>1, <4>2
      <3>2. QED
        BY <2>3, <2>4, <2>5, <3>1
    <2>9. QED
      BY <2>1, <2>2, <2>7, <2>8 DEF ListPromised
  <1>4. QED
    BY <1>2, <1>3

-----------------------------------------------------------------------------
(* The records of a source.  The inductive invariant: what was given is in *)
(* order and not beyond the cursor, and what is owed was given or is still *)
(* ahead of it, within the snapshot.                                       *)

Feeds == [snapshot : Nat \cup {-1}, after : Nat, got : Seq(Nat), more : BOOLEAN, owed : SUBSET Nat]
FeedTyped == high \in Nat /\ retained \in SUBSET (1..high) /\ reader \in Feeds
Increasing(s) == \A i, j \in 1..Len(s) : i < j => s[i] < s[j]
Reading(r) ==
  /\ r.owed \subseteq retained /\ \A s \in r.owed : s =< r.snapshot
  /\ Increasing(r.got) /\ \A i \in 1..Len(r.got) : r.got[i] =< r.after
  /\ \A s \in r.owed : s \in ToSet(r.got) \/ s > r.after
FeedInv ==
  /\ FeedTyped /\ Reading(reader)
  /\ ~reader.more => reader.owed \subseteq ToSet(reader.got)

LEMMA MemberOfSeq ==
  ASSUME NEW S, NEW s \in Seq(S)
  PROVE  \A x : x \in ToSet(s) <=> \E i \in 1..Len(s) : s[i] = x
  BY DEF ToSet

LEMMA RowsAhead ==
  ASSUME high \in Nat, retained \in SUBSET (1..high), NEW r \in Feeds
  PROVE  /\ {s \in Upto(r.snapshot) : s > r.after} \in SUBSET Nat
         /\ IsFiniteSet({s \in Upto(r.snapshot) : s > r.after})
         /\ IsFiniteSet(retained) /\ retained \in SUBSET Nat
  <1>1. IsFiniteSet(1..high) /\ 1..high \subseteq Nat
    BY SizeOfInitial
  <1>2. IsFiniteSet(retained) /\ retained \in SUBSET Nat
    BY <1>1, FS_Subset
  <1>3. {s \in Upto(r.snapshot) : s > r.after} \in SUBSET retained
    BY DEF Upto
  <1>4. QED
    BY <1>2, <1>3, FS_Subset

(* A keyset page.                                                          *)
LEMMA FeedPageSound ==
  ASSUME high \in Nat, retained \in SUBSET (1..high), NEW r \in Feeds, Reading(r)
  PROVE  /\ FeedPage(r) \in Feeds /\ Reading(FeedPage(r))
         /\ ~FeedPage(r).more => FeedPage(r).owed \subseteq ToSet(FeedPage(r).got)
  <1>1. PICK p \in Nat \ {0} : p = PageRows
    BY PagedReadsAssumption
  <1>2. PICK R : R = {s \in Upto(r.snapshot) : s > r.after}
    OBVIOUS
  <1>3. R \in SUBSET Nat /\ IsFiniteSet(R) /\ retained \in SUBSET Nat
    BY <1>2, RowsAhead
  <1>4. PICK c \in Nat : c = Cardinality(R)
    BY <1>3, FS_CardinalityType
  <1>5. PICK a : a = Ascending(R)
    OBVIOUS
  <1>6. /\ a \in Seq(R) /\ Len(a) = c
        /\ \A i, j \in 1..c : i < j => a[i] < a[j]
        /\ \A s \in R : \E i \in 1..c : a[i] = s
    BY <1>3, <1>4, <1>5, AscendingIs
  <1>7. \A i \in 1..c : a[i] \in R /\ a[i] \in Nat
    <2>1. \A i \in 1..c : a[i] \in R
      BY <1>6
    <2>2. QED
      BY <1>3, <2>1
  <1>8. PICK m \in Nat : m = (IF p =< c THEN p ELSE c) /\ m =< c
    OBVIOUS
  <1>9. PICK items : items = UpTo(a, p)
    OBVIOUS
  <1>10. items \in Seq(R) /\ Len(items) = m /\ \A i \in 1..m : items[i] = a[i]
    <2>1. p \in Nat
      OBVIOUS
    <2>2. /\ items \in Seq(R) /\ Len(items) = (IF p =< Len(a) THEN p ELSE Len(a))
          /\ \A i \in 1..Len(items) : items[i] = a[i]
      BY <1>6, <1>9, <2>1, UpToIs
    <2>3. QED
      BY <1>6, <1>8, <2>2
  <1>11. items \in Seq(Nat)
    <2>1. \A i \in 1..m : items[i] \in Nat /\ i \in 1..c
      BY <1>7, <1>8, <1>10
    <2>2. items = [i \in 1..m |-> items[i]]
      BY <1>10
    <2>3. items \in [1..m -> Nat]
      BY <2>1, <2>2
    <2>4. QED
      BY <2>3
  <1>12. PICK old : old = r.got
    OBVIOUS
  <1>13. PICK l \in Nat : old \in Seq(Nat) /\ l = Len(old)
    BY <1>12 DEF Feeds
  <1>14. PICK got : got = old \o items
    OBVIOUS
  <1>15. /\ got \in Seq(Nat) /\ Len(got) = l + m
         /\ \A i \in 1..l : got[i] = old[i]
         /\ \A i \in (l + 1)..(l + m) : got[i] = items[i - l]
    <2>1. /\ got \in Seq(Nat) /\ Len(got) = Len(old) + Len(items)
          /\ \A i \in 1..Len(old) : got[i] = old[i]
          /\ \A i \in (Len(old) + 1)..(Len(old) + Len(items)) : got[i] = items[i - Len(old)]
      BY <1>11, <1>13, <1>14, Concatenated
    <2>2. Len(items) = m /\ Len(old) = l
      BY <1>10, <1>13
    <2>3. QED
      BY <2>1, <2>2
  <1>16. \A i \in (l + 1)..(l + m) : i - l \in 1..m /\ i - l \in 1..c /\ got[i] = a[i - l]
    <2>1. \A i \in (l + 1)..(l + m) : i - l \in 1..m /\ i - l \in 1..c
      BY <1>8
    <2>2. QED
      BY <1>10, <1>15, <2>1
  <1>17. PICK after : after = IF items = <<>> THEN r.after ELSE Last(items)
    OBVIOUS
  <1>18. r.after \in Nat /\ r.snapshot \in Int /\ r.owed \in SUBSET Nat
    BY DEF Feeds
  <1>19. /\ m = 0 => after = r.after
         /\ m # 0 => after = a[m] /\ m \in 1..c
    <2>1. m = 0 => items = <<>>
      BY <1>10
    <2>2. m # 0 => items # <<>> /\ Last(items) = items[m] /\ m \in 1..m /\ m \in 1..c
      BY <1>8, <1>10 DEF Last
    <2>3. QED
      BY <1>10, <1>17, <2>1, <2>2
  <1>20. after \in Nat
    BY <1>7, <1>18, <1>19
  <1>21. PICK more \in BOOLEAN : more <=> c > p
    OBVIOUS
  <1>22. FeedPage(r) = [r EXCEPT !.got = got, !.after = after, !.more = more]
    <2>1. more = (Len(a) > PageRows)
      BY <1>1, <1>6, <1>21
    <2>2. QED
      BY <1>1, <1>2, <1>5, <1>9, <1>12, <1>14, <1>17, <2>1 DEF FeedPage
  <1>23. PICK q : q = FeedPage(r)
    OBVIOUS
  <1>24. /\ q \in Feeds /\ q.got = got /\ q.after = after /\ q.more = more
         /\ q.snapshot = r.snapshot /\ q.owed = r.owed
    BY <1>15, <1>20, <1>21, <1>22, <1>23 DEF Feeds
  <1>25. \A s \in R : s \in Nat /\ s > r.after
    BY <1>2, <1>3
  <1>26. \A i \in 1..l : old[i] \in Nat /\ old[i] =< r.after
    <2>1. \A i \in 1..l : old[i] \in Nat
      BY <1>13
    <2>2. \A i \in 1..l : old[i] =< r.after
      BY <1>12, <1>13 DEF Reading
    <2>3. QED
      BY <2>1, <2>2
  <1>27. Increasing(got)
    <2>1. SUFFICES ASSUME NEW i \in 1..(l + m), NEW j \in 1..(l + m), i < j
                   PROVE  got[i] < got[j]
      BY <1>15 DEF Increasing
    <2>2. CASE j =< l
      <3>1. i \in 1..l /\ j \in 1..l
        BY <2>1, <2>2
      <3>2. old[i] < old[j]
        BY <1>12, <1>13, <2>1, <3>1 DEF Reading, Increasing
      <3>3. QED
        BY <1>15, <3>1, <3>2
    <2>3. CASE i =< l /\ j > l
      <3>1. i \in 1..l /\ j \in (l + 1)..(l + m)
        BY <2>3
      <3>2. got[i] = old[i] /\ old[i] \in Nat /\ old[i] =< r.after
        BY <1>15, <1>26, <3>1
      <3>3. got[j] = a[j - l] /\ a[j - l] \in R
        BY <1>7, <1>16, <3>1
      <3>4. got[j] \in Nat /\ got[j] > r.after
        BY <1>25, <3>3
      <3>5. QED
        BY <1>18, <3>2, <3>4
    <2>4. CASE i > l
      <3>1. i \in (l + 1)..(l + m) /\ j \in (l + 1)..(l + m) /\ i - l < j - l
        BY <2>1, <2>4
      <3>2. /\ i - l \in 1..c /\ j - l \in 1..c
            /\ got[i] = a[i - l] /\ got[j] = a[j - l]
        BY <1>16, <3>1
      <3>3. QED
        BY <1>6, <3>1, <3>2
    <2>5. QED
      BY <2>2, <2>3, <2>4
  <1>28. ASSUME NEW i \in 1..(l + m)
         PROVE  got[i] =< after
    <2>1. CASE m = 0
      <3>1. i \in 1..l
        BY <2>1
      <3>2. QED
        BY <1>15, <1>19, <1>26, <2>1, <3>1
    <2>2. CASE m # 0 /\ i =< l
      <3>1. i \in 1..l
        BY <2>2
      <3>2. got[i] = old[i] /\ old[i] \in Nat /\ old[i] =< r.after
        BY <1>15, <1>26, <3>1
      <3>3. after \in R
        BY <1>7, <1>19, <2>2
      <3>4. after > r.after
        BY <1>25, <3>3
      <3>5. QED
        BY <1>18, <1>20, <3>2, <3>4
    <2>3. CASE m # 0 /\ i > l
      <3>1. i \in (l + 1)..(l + m)
        BY <2>3
      <3>2. PICK k \in 1..c : k = i - l /\ k =< m /\ got[i] = a[k]
        BY <1>16, <3>1
      <3>3. m \in 1..c /\ after = a[m]
        BY <1>19, <2>3
      <3>4. k < m => a[k] < a[m]
        BY <1>6, <3>3
      <3>5. a[k] \in Nat /\ a[m] \in Nat
        BY <1>7, <3>3
      <3>6. k = m \/ k < m
        BY <3>2
      <3>7. QED
        BY <3>2, <3>3, <3>4, <3>5, <3>6
    <2>4. QED
      BY <2>1, <2>2, <2>3
  <1>29. \A x : x \in ToSet(got) <=> \E i \in 1..(l + m) : got[i] = x
    <2>1. \A x : x \in ToSet(got) <=> \E i \in 1..Len(got) : got[i] = x
      BY <1>15, MemberOfSeq
    <2>2. Len(got) = l + m
      BY <1>15
    <2>3. QED
      BY <2>1, <2>2
  <1>30. \A x \in ToSet(old) : x \in ToSet(got)
    <2>1. SUFFICES ASSUME NEW x \in ToSet(old)
                   PROVE  x \in ToSet(got)
      OBVIOUS
    <2>2. PICK i \in 1..l : old[i] = x
      BY <1>13, MemberOfSeq
    <2>3. i \in 1..(l + m) /\ got[i] = x
      BY <1>15, <2>2
    <2>4. QED
      BY <1>29, <2>3
  <1>31. ASSUME NEW s \in r.owed, s \notin ToSet(old)
         PROVE  \E k \in 1..c : s = a[k] /\ (k =< m => s \in ToSet(got)) /\ (k > m => s > after)
    <2>1. s \in retained /\ s =< r.snapshot /\ s > r.after
      BY <1>12, <1>31 DEF Reading
    <2>2. s \in R
      BY <1>2, <2>1 DEF Upto
    <2>3. PICK k \in 1..c : a[k] = s
      BY <1>6, <2>2
    <2>4. ASSUME k =< m
          PROVE  s \in ToSet(got)
      <3>1. l + k \in (l + 1)..(l + m) /\ (l + k) - l = k /\ l + k \in 1..(l + m)
        BY <2>4
      <3>2. got[l + k] = a[k]
        BY <1>16, <3>1
      <3>3. QED
        BY <1>29, <2>3, <3>1, <3>2
    <2>5. ASSUME k > m
          PROVE  s > after
      <3>1. m # 0
        BY <1>8, <2>5
      <3>2. m \in 1..c /\ after = a[m] /\ m < k
        BY <1>19, <2>5, <3>1
      <3>3. a[m] < a[k] /\ a[m] \in Nat /\ a[k] \in Nat
        BY <1>6, <1>7, <3>2
      <3>4. QED
        BY <2>3, <3>2, <3>3
    <2>6. QED
      BY <2>3, <2>4, <2>5
  <1>32. \A s \in r.owed : s \in ToSet(got) \/ s > after
    <2>1. SUFFICES ASSUME NEW s \in r.owed, s \notin ToSet(got)
                   PROVE  s > after
      OBVIOUS
    <2>2. s \notin ToSet(old)
      BY <1>30, <2>1
    <2>3. PICK k \in 1..c : (k =< m => s \in ToSet(got)) /\ (k > m => s > after)
      BY <1>31, <2>2
    <2>4. k =< m \/ k > m
      OBVIOUS
    <2>5. QED
      BY <2>1, <2>3, <2>4
  <1>33. ~more => r.owed \subseteq ToSet(got)
    <2>1. SUFFICES ASSUME ~more, NEW s \in r.owed
                   PROVE  s \in ToSet(got)
      OBVIOUS
    <2>2. m = c
      <3>1. ~(c > p)
        BY <1>21, <2>1
      <3>2. QED
        BY <1>8, <3>1
    <2>3. CASE s \in ToSet(old)
      BY <1>30, <2>3
    <2>4. CASE s \notin ToSet(old)
      <3>1. PICK k \in 1..c : k =< m => s \in ToSet(got)
        BY <1>31, <2>4
      <3>2. k =< m
        BY <2>2
      <3>3. QED
        BY <3>1, <3>2
    <2>5. QED
      BY <2>3, <2>4
  <1>34. Reading(q)
    <2>1. q.owed \subseteq retained /\ \A s \in q.owed : s =< q.snapshot
      BY <1>24 DEF Reading
    <2>2. \A i \in 1..Len(got) : got[i] =< after
      BY <1>15, <1>28
    <2>3. QED
      BY <1>24, <1>27, <1>32, <2>1, <2>2 DEF Reading
  <1>35. ~q.more => q.owed \subseteq ToSet(q.got)
    BY <1>24, <1>33
  <1>36. QED
    BY <1>23, <1>24, <1>34, <1>35

LEMMA ReaderShape ==
  ASSUME FeedTyped
  PROVE  /\ reader.snapshot \in Nat \cup {-1} /\ reader.after \in Nat /\ reader.got \in Seq(Nat)
         /\ reader.more \in BOOLEAN /\ reader.owed \in SUBSET Nat
         /\ retained \in SUBSET Nat /\ high \in Nat
  <1>1. \A n \in 1..high : n \in Nat
    BY DEF FeedTyped
  <1>2. QED
    BY <1>1 DEF FeedTyped, Feeds

LEMMA NoFeedIs ==
  /\ NoFeed \in Feeds /\ NoFeed.owed = {} /\ NoFeed.got = <<>> /\ ~NoFeed.more /\ NoFeed.after = 0
  /\ NoFeed = [snapshot |-> -1, after |-> 0, got |-> <<>>, more |-> FALSE, owed |-> {}]
  <1>1. <<>> \in Seq(Nat)
    OBVIOUS
  <1>2. QED
    BY <1>1 DEF NoFeed, Feeds

LEMMA ClosedFeed ==
  ASSUME FeedInv, reader' = NoFeed, UNCHANGED <<retained, high>>
  PROVE  FeedInv'
  <1>1. FeedTyped'
    BY NoFeedIs DEF FeedInv, FeedTyped
  <1>2. Len(reader'.got) = 0 /\ reader'.owed = {}
    BY NoFeedIs
  <1>3. Reading(reader)'
    <2>1. \A i \in 1..Len(reader'.got) : FALSE
      BY <1>2
    <2>2. QED
      BY <1>2, <2>1 DEF Reading, Increasing
  <1>4. QED
    BY <1>1, <1>2, <1>3 DEF FeedInv

LEMMA ReceivedRow ==
  ASSUME FeedInv, ReceiveRow
  PROVE  FeedInv'
  <1>1. high' = high + 1 /\ retained' = retained \cup {high + 1} /\ reader' = reader
    BY DEF ReceiveRow
  <1>2. high \in Nat /\ retained \in SUBSET (1..high)
    BY DEF FeedInv, FeedTyped
  <1>3. high' \in Nat /\ retained' \in SUBSET (1..high')
    <2>1. \A n \in 1..high : n \in 1..(high + 1)
      BY <1>2
    <2>2. high + 1 \in 1..(high + 1) /\ high + 1 \in Nat
      BY <1>2
    <2>3. QED
      BY <1>1, <1>2, <2>1, <2>2
  <1>4. FeedTyped'
    BY <1>1, <1>3 DEF FeedInv, FeedTyped
  <1>5. Reading(reader)'
    BY <1>1 DEF FeedInv, Reading
  <1>6. QED
    BY <1>1, <1>4, <1>5 DEF FeedInv

LEMMA ExpiredRows ==
  ASSUME FeedInv, ExpireRows
  PROVE  FeedInv'
  <1>1. PICK gone : gone = Min(retained)
    OBVIOUS
  <1>2. PICK owed : owed = reader.owed \ {gone}
    OBVIOUS
  <1>3. /\ retained' = retained \ {gone} /\ high' = high
        /\ reader' = [reader EXCEPT !.owed = owed]
    BY <1>1, <1>2 DEF ExpireRows
  <1>4. FeedTyped /\ reader \in Feeds /\ owed \in SUBSET Nat
    BY <1>2, ReaderShape DEF FeedInv, FeedTyped
  <1>5. /\ reader' \in Feeds /\ reader'.owed = owed /\ reader'.got = reader.got
        /\ reader'.more = reader.more /\ reader'.after = reader.after /\ reader'.snapshot = reader.snapshot
    BY <1>3, <1>4 DEF Feeds
  <1>6. FeedTyped'
    BY <1>3, <1>4, <1>5 DEF FeedTyped
  <1>7. Reading(reader)'
    <2>1. reader'.owed \subseteq retained'
      BY <1>2, <1>3, <1>5 DEF FeedInv, Reading
    <2>2. \A s \in reader'.owed : s \in reader.owed
      BY <1>2, <1>5
    <2>3. QED
      BY <1>5, <2>1, <2>2 DEF FeedInv, Reading
  <1>8. ~reader'.more => reader'.owed \subseteq ToSet(reader'.got)
    BY <1>2, <1>5 DEF FeedInv
  <1>9. QED
    BY <1>6, <1>7, <1>8 DEF FeedInv

LEMMA PageGiven ==
  ASSUME FeedInv, NEW r \in Feeds, Reading(r), reader' = FeedPage(r), UNCHANGED <<retained, high>>
  PROVE  FeedInv'
  <1>1. high \in Nat /\ retained \in SUBSET (1..high)
    BY DEF FeedInv, FeedTyped
  <1>2. PICK q : q = FeedPage(r)
    OBVIOUS
  <1>3. q \in Feeds /\ Reading(q) /\ (~q.more => q.owed \subseteq ToSet(q.got))
    BY <1>1, <1>2, FeedPageSound
  <1>4. reader' = q
    BY <1>2
  <1>5. FeedTyped'
    BY <1>1, <1>3, <1>4 DEF FeedTyped
  <1>6. Reading(reader)'
    BY <1>3, <1>4 DEF Reading
  <1>7. QED
    BY <1>3, <1>4, <1>5, <1>6 DEF FeedInv

LEMMA OpenedFeed ==
  ASSUME FeedInv, OpenFeed
  PROVE  FeedInv'
  <1>1. high \in Nat /\ retained \in SUBSET (1..high) /\ retained \in SUBSET Nat
    BY ReaderShape DEF FeedInv, FeedTyped
  <1>2. PICK newest : newest = Max(retained \cup {0})
    OBVIOUS
  <1>3. newest \in Nat /\ \A s \in retained : s =< newest
    <2>1. PICK T : T = retained \cup {0}
      OBVIOUS
    <2>2. T \in SUBSET Int /\ T # {} /\ high \in Int /\ \A x \in T : x =< high
      BY <1>1, <2>1
    <2>3. Max(T) \in T /\ \A y \in T : y =< Max(T)
      BY <2>2, MaxOfBounded
    <2>4. newest \in T /\ \A y \in T : y =< newest
      BY <1>2, <2>1, <2>3
    <2>5. T \in SUBSET Nat /\ retained \subseteq T
      BY <1>1, <2>1
    <2>6. QED
      BY <2>4, <2>5
  <1>4. PICK r : r = [NoFeed EXCEPT !.snapshot = newest, !.owed = retained]
    OBVIOUS
  <1>5. /\ r \in Feeds /\ r.snapshot = newest /\ r.owed = retained /\ r.got = <<>> /\ r.after = 0
    BY <1>1, <1>3, <1>4, NoFeedIs DEF Feeds
  <1>6. Reading(r)
    <2>1. Len(r.got) = 0
      BY <1>5
    <2>2. \A i \in 1..Len(r.got) : FALSE
      BY <2>1
    <2>3. \A s \in retained : s > 0
      BY <1>1
    <2>4. QED
      BY <1>3, <1>5, <2>2, <2>3 DEF Reading, Increasing
  <1>7. reader' = FeedPage(r) /\ UNCHANGED <<retained, high>>
    BY <1>2, <1>4 DEF OpenFeed
  <1>8. QED
    BY <1>5, <1>6, <1>7, PageGiven

LEMMA FeedStepInv ==
  ASSUME FeedInv, FeedStep
  PROVE  FeedInv'
  <1>1. ASSUME NextFeedPage
        PROVE  FeedInv'
    <2>1. reader' = FeedPage(reader) /\ UNCHANGED <<retained, high>>
      BY <1>1 DEF NextFeedPage
    <2>2. reader \in Feeds /\ Reading(reader)
      BY DEF FeedInv, FeedTyped
    <2>3. QED
      BY <2>1, <2>2, PageGiven
  <1>2. ASSUME CloseFeed
        PROVE  FeedInv'
    <2>1. reader' = NoFeed /\ UNCHANGED <<retained, high>>
      BY <1>2 DEF CloseFeed
    <2>2. QED
      BY <2>1, ClosedFeed
  <1>3. QED
    BY <1>1, <1>2, ReceivedRow, ExpiredRows, OpenedFeed DEF FeedStep

PagedInv == ListInv /\ FeedInv

LEMMA PagedStart == PagedInit => PagedInv
  <1>1. SUFFICES ASSUME PagedInit PROVE PagedInv
    OBVIOUS
  <1>2. ListTyped
    <2>1. <<>> \in Seq(ListRows)
      OBVIOUS
    <2>2. QED
      BY <1>1, <2>1, NoListIs DEF PagedInit, ListTyped
  <1>3. lister.page = 0 /\ lister.got = <<>>
    BY <1>1, NoListIs DEF PagedInit
  <1>4. ListInv
    BY <1>2, <1>3 DEF ListInv
  <1>5. FeedTyped
    BY <1>1, NoFeedIs DEF PagedInit, FeedTyped
  <1>6. Len(reader.got) = 0 /\ reader.owed = {}
    BY <1>1, NoFeedIs DEF PagedInit
  <1>7. Reading(reader)
    <2>1. \A i \in 1..Len(reader.got) : FALSE
      BY <1>6
    <2>2. QED
      BY <1>6, <2>1 DEF Reading, Increasing
  <1>8. QED
    BY <1>4, <1>5, <1>6, <1>7 DEF PagedInv, FeedInv

LEMMA PagedStepInv == PagedInv /\ [PagedNext]_pagedVars => PagedInv'
  <1>1. SUFFICES ASSUME PagedInv, [PagedNext]_pagedVars PROVE PagedInv'
    OBVIOUS
  <1>2. ListInv /\ FeedInv
    BY <1>1 DEF PagedInv
  <1>3. ASSUME UNCHANGED <<retained, high, reader>>
        PROVE  FeedInv'
    BY <1>2, <1>3 DEF FeedInv, FeedTyped, Reading
  <1>4. CASE ListStep
    <2>1. UNCHANGED <<retained, high, reader>>
      BY <1>4 DEF ListStep, PublishRevision, FirstPage, RestoreStore, FollowingPage, BeginAgain
    <2>2. QED
      BY <1>2, <1>3, <1>4, <2>1, ListStepInv DEF PagedInv
  <1>5. CASE FeedStep
    <2>1. UNCHANGED <<generations, epoch, lister>>
      BY <1>5 DEF FeedStep, ReceiveRow, ExpireRows, OpenFeed, NextFeedPage, CloseFeed
    <2>2. QED
      BY <1>2, <1>5, <2>1, FeedKeepsList, FeedStepInv DEF PagedInv
  <1>6. CASE UNCHANGED pagedVars
    <2>1. UNCHANGED <<generations, epoch, lister>> /\ UNCHANGED <<retained, high, reader>>
      BY <1>6 DEF pagedVars
    <2>2. QED
      BY <1>2, <1>3, <2>1, FeedKeepsList DEF PagedInv
  <1>7. QED
    BY <1>1, <1>4, <1>5, <1>6 DEF PagedNext

LEMMA PagedHolds == PagedInv => PagesMakeOneList
  <1>1. SUFFICES ASSUME ListInv, FeedInv PROVE PagesMakeOneList
    BY DEF PagedInv
  <1>2. \A i, j \in 1 .. Len(reader.got) : i < j => reader.got[i] < reader.got[j]
    BY <1>1 DEF FeedInv, Reading, Increasing
  <1>3. ~reader.more => reader.owed \subseteq ToSet(reader.got)
    BY <1>1 DEF FeedInv
  <1>4. QED
    BY <1>1, <1>2, <1>3, ListHolds DEF PagesMakeOneList

(* The pages a client was given under one token make the list as it stood  *)
(* when the token was made, whatever is published or restored between two  *)
(* of them (list_cases, _snapshot), and keyset pages give every record     *)
(* that retention left alone, once and in order (`page` of the network and *)
(* HTTP stores): for any cases, filters, page size and number of pages.    *)
THEOREM PagedReadsSound == PagedSpec => []PagesMakeOneList
  <1>1. PagedInit => PagedInv
    BY PagedStart
  <1>2. PagedInv /\ [PagedNext]_pagedVars => PagedInv'
    BY PagedStepInv
  <1>3. PagedInv => PagesMakeOneList
    BY PagedHolds
  <1>4. QED
    BY <1>1, <1>2, <1>3, PTL DEF PagedSpec

-----------------------------------------------------------------------------
(* HttpAnalysis.  A record is around an hour when the analysis of the hour *)
(* reads it.                                                               *)
AroundHour(r, h) == h - HttpWindow =< HttpTime[r] /\ HttpTime[r] =< h + HttpHour + HttpWindow
AnalysedAround(h) == {r \in analysed : AroundHour(r, h)}

CaseRecords ==
  [revision : Nat, active : BOOLEAN, stale : BOOLEAN,
   rules : {v.rules : v \in Verdicts} \cup {{}}, evidence : {v.evidence : v \in Verdicts} \cup {{}}]
Intervals == [event : UNION {v.evidence : v \in Verdicts}, from : Nat, to : Nat]
HourStates == [dirty : BOOLEAN, coverage : {"none", "expired_context", "context_limit", "complete"}]
TickStates == [at : {"idle", "windows", "prune"}, now : Int, left : Int]

(* The intake: records are received once, those analysed are of the rows   *)
(* up to the cursor, and what the cursor passed is analysed or missing.    *)
IntakeTyped ==
  /\ clock \in Int /\ httpReceived \in Seq(HttpRecords)
  /\ httpTaken \in Nat /\ httpTaken =< Len(httpReceived) /\ httpMissing \in Int
ReceivedOnce ==
  \A i, j \in 1..Len(httpReceived) : i # j => httpReceived[i] # httpReceived[j]
AnalysedReceived ==
  /\ IsFiniteSet(analysed)
  /\ \A r \in analysed : \E i \in 1..httpTaken : httpReceived[i] = r
IntakeInv == IntakeTyped /\ ReceivedOnce /\ AnalysedReceived /\ NothingUncounted

(* The context: what left it was too old for the tick under way, or for    *)
(* any that is to come.                                                    *)
ContextTyped ==
  /\ clock \in Int /\ tick \in TickStates /\ analysed \in SUBSET HttpRecords
  /\ httpContext \in SUBSET HttpRecords /\ (tick.at # "idle" => tick.now =< clock)
TickNow == IF tick.at = "idle" THEN clock ELSE tick.now
LeftContext ==
  \A r \in analysed : r \notin httpContext => HttpTime[r] < TickNow - HttpRetention
ContextInv == ContextTyped /\ LeftContext /\ httpContext \subseteq analysed

(* The hours: one that is settled and complete was judged by all that is   *)
(* analysed around it.                                                     *)
SettledRight(h) ==
  hours[h].coverage = "complete" /\ ~hours[h].dirty =>
    httpCases[h].evidence = Verdict(AnalysedAround(h), h).evidence
HoursInv ==
  /\ hours \in [HttpHours -> HourStates] /\ httpCases \in [HttpHours -> CaseRecords]
  /\ \A h \in HttpHours : SettledRight(h)

(* The revisions of one case c, with its history hs and its intervals ms.  *)
CaseSound(c, hs, ms) ==
  /\ Len(hs) = c.revision /\ (c.revision > 0 => hs[c.revision] = c)
  /\ \A m \in ms : 1 =< m.from /\ m.from =< c.revision /\ m.to =< c.revision
  /\ \A e : e \in c.evidence <=> \E m \in ms : m.event = e /\ m.to = 0
  /\ \A k \in 1..Len(hs) : \A e :
       e \in hs[k].evidence <=> \E m \in ms : m.event = e /\ m.from =< k /\ (m.to = 0 \/ m.to >= k)
  /\ \A k \in 2..Len(hs) :
       hs[k].stale => hs[k - 1].active = hs[k].active /\ hs[k - 1].evidence = hs[k].evidence
CasesInv ==
  /\ httpCases \in [HttpHours -> CaseRecords] /\ history \in [HttpHours -> Seq(CaseRecords)]
  /\ membership \in [HttpHours -> SUBSET Intervals]
  /\ \A h \in HttpHours : CaseSound(httpCases[h], history[h], membership[h])

AnalysisInv == IntakeInv /\ ContextInv /\ HoursInv /\ CasesInv

(* The hours an event is put down for are those whose analysis reads it:   *)
(* a window is less than an hour, so no other hour is within its reach.    *)
LEMMA HoursReached ==
  ASSUME NEW r \in HttpRecords, NEW h \in HttpHours, AroundHour(r, h)
  PROVE  h \in HoursOf(r)
  <1>1. PICK H \in Nat \ {0}, W \in Nat, t \in Nat : H = HttpHour /\ W = HttpWindow /\ t = HttpTime[r] /\ W < H
    BY HttpAnalysisAssumption
  <1>2. PICK p \in Int : p = t \div H /\ p * H =< t /\ t < p * H + H
    BY Divided
  <1>3. h \in Int /\ h % H = 0
    BY <1>1, HttpAnalysisAssumption DEF HttpHours
  <1>4. PICK q \in Int : h = q * H
    BY <1>3, Divided
  <1>5. h - W =< t /\ t =< h + H + W
    BY <1>1 DEF AroundHour
  <1>6. PICK s \in Int : s = p * H
    OBVIOUS
  <1>7. q - p < 2
    <2>1. SUFFICES ASSUME q - p >= 2
                   PROVE  FALSE
      OBVIOUS
    <2>2. q * H >= p * H + 2 * H
      BY <2>1, WholeHours
    <2>3. QED
      BY <1>1, <1>2, <1>4, <1>5, <1>6, <2>2
  <1>8. p - q < 2
    <2>1. SUFFICES ASSUME p - q >= 2
                   PROVE  FALSE
      OBVIOUS
    <2>2. p * H >= q * H + 2 * H
      BY <2>1, WholeHours
    <2>3. QED
      BY <1>1, <1>2, <1>4, <1>5, <1>6, <2>2
  <1>9. HoursOf(r) = {s} \cup (IF t - s =< W THEN {s - H} ELSE {})
                          \cup (IF t - s >= H - W THEN {s + H} ELSE {})
    BY <1>1, <1>2, <1>6 DEF HoursOf
  <1>10. CASE q = p
    BY <1>4, <1>6, <1>9, <1>10
  <1>11. CASE q = p + 1
    <2>1. h = s + H
      <3>1. q * H = p * H + H
        BY <1>11
      <3>2. QED
        BY <1>4, <1>6, <3>1
    <2>2. t - s >= H - W
      BY <1>5, <2>1
    <2>3. QED
      BY <1>9, <2>1, <2>2
  <1>12. CASE q = p - 1
    <2>1. h = s - H
      <3>1. q * H = p * H - H
        BY <1>12
      <3>2. QED
        BY <1>4, <1>6, <3>1
    <2>2. t - s =< W
      BY <1>5, <2>1
    <2>3. QED
      BY <1>9, <2>1, <2>2
  <1>13. QED
    BY <1>7, <1>8, <1>10, <1>11, <1>12

(* What the correlator says of some records and an hour is the evidence of *)
(* the findings that touch the hour.                                       *)
LEMMA VerdictIs ==
  ASSUME NEW rows \in SUBSET HttpRecords, NEW h \in HttpHours
  PROVE  /\ Verdict(rows, h) \in Verdicts
         /\ Verdict(rows, h).evidence
              = UNION {f.evidence : f \in {f \in DetectWeb(rows) : \E s \in f.evidence : InHour(s, h)}}
  <1>1. ASSUME NEW rs, NEW g
        PROVE  /\ Judged(rs, g).rows = rs /\ Judged(rs, g).hour = g
               /\ Judged(rs, g).evidence
                    = UNION {f.evidence : f \in {f \in DetectWeb(rs) : \E s \in f.evidence : InHour(s, g)}}
    BY DEF Judged
  <1>2. Judged(rows, h) \in Verdicts
    BY DEF Verdicts
  <1>3. Judged(rows, h).rows = rows /\ Judged(rows, h).hour = h
    BY <1>1
  <1>4. Verdict(rows, h) \in Verdicts /\ Verdict(rows, h).rows = rows /\ Verdict(rows, h).hour = h
    BY <1>2, <1>3 DEF Verdict
  <1>5. ASSUME NEW u \in Verdicts, u.rows = rows, u.hour = h
        PROVE  u.evidence = UNION {f.evidence : f \in {f \in DetectWeb(rows) : \E s \in f.evidence : InHour(s, h)}}
    <2>1. PICK rs \in SUBSET HttpRecords, g \in HttpHours : u = Judged(rs, g)
      BY DEF Verdicts
    <2>2. rs = rows /\ g = h
      BY <1>1, <1>5, <2>1
    <2>3. QED
      BY <1>1, <2>1, <2>2
  <1>6. QED
    BY <1>4, <1>5

(* As many records as positions, when no record is in two positions.       *)
LEMMA AsManyRecords ==
  ASSUME NEW R, NEW s \in Seq(R), NEW P \in SUBSET (1..Len(s)),
         \A i, j \in 1..Len(s) : i # j => s[i] # s[j]
  PROVE  /\ IsFiniteSet(P) /\ IsFiniteSet({s[i] : i \in P})
         /\ Cardinality({s[i] : i \in P}) = Cardinality(P) /\ Cardinality(P) \in Nat
  <1>1. IsFiniteSet(P) /\ Cardinality(P) \in Nat
    <2>1. Len(s) \in Nat /\ IsFiniteSet(1..Len(s))
      BY FS_Interval
    <2>2. QED
      BY <2>1, FS_Subset, FS_CardinalityType
  <1>2. PICK T : T = {s[i] : i \in P}
    OBVIOUS
  <1>3. PICK f : f = [i \in P |-> s[i]]
    OBVIOUS
  <1>4. f \in Surjection(P, T)
    BY <1>2, <1>3 DEF Surjection
  <1>5. f \in Injection(P, T)
    <2>1. \A i, j \in P : i # j => f[i] # f[j]
      BY <1>3
    <2>2. QED
      BY <1>2, <1>3, <2>1 DEF Injection, IsInjective
  <1>6. IsFiniteSet(T) /\ Cardinality(T) = Cardinality(P)
    BY <1>1, <1>4, <1>5, FS_Surjection
  <1>7. QED
    BY <1>1, <1>2, <1>6

LEMMA UpcomingIs ==
  ASSUME IntakeTyped
  PROVE  /\ Page \in SUBSET ((httpTaken + 1)..Len(httpReceived))
         /\ Reaches \in Nat /\ httpTaken =< Reaches /\ Reaches =< Len(httpReceived)
         /\ \A i \in Page : i =< Reaches
         /\ \A i \in Page : httpReceived[i] \in HttpRecords
  <1>1. PICK n \in Nat, l \in Nat : n = httpTaken /\ l = Len(httpReceived) /\ n =< l
    BY DEF IntakeTyped
  <1>2. Page \in SUBSET ((n + 1)..l)
    BY <1>1 DEF Page, Upcoming
  <1>3. CASE Page = {}
    BY <1>1, <1>3 DEF Reaches
  <1>4. CASE Page # {}
    <2>1. Page \in SUBSET Int /\ l \in Int /\ \A x \in Page : x =< l
      BY <1>2
    <2>2. Max(Page) \in Page /\ \A y \in Page : y =< Max(Page)
      BY <1>4, <2>1, MaxOfBounded
    <2>3. Reaches \in Page /\ \A y \in Page : y =< Reaches
      BY <1>4, <2>2 DEF Reaches
    <2>4. Reaches \in (n + 1)..l
      BY <1>2, <2>3
    <2>5. Reaches \in Nat /\ n =< Reaches /\ Reaches =< l
      BY <2>4
    <2>6. \A i \in Page : httpReceived[i] \in HttpRecords
      BY <1>1, <1>2 DEF IntakeTyped
    <2>7. QED
      BY <1>1, <1>2, <2>3, <2>5, <2>6
  <1>5. QED
    BY <1>3, <1>4

LEMMA TakenIn ==
  ASSUME IntakeInv, HttpTakeIn
  PROVE  IntakeInv'
  <1>a. PICK A : A = analysed
    OBVIOUS
  <1>1. PICK n \in Nat, l \in Nat, s \in Seq(HttpRecords), x \in Int :
          n = httpTaken /\ l = Len(s) /\ s = httpReceived /\ x = httpMissing /\ n =< l
    BY DEF IntakeInv, IntakeTyped
  <1>2. PICK P : P = Page
    OBVIOUS
  <1>3. PICK end : end = IF CaughtUp THEN Len(httpReceived) ELSE Reaches
    OBVIOUS
  <1>4. P \in SUBSET ((n + 1)..l) /\ end \in Nat /\ n =< end /\ end =< l /\ \A i \in P : i =< end
    <2>1. /\ Page \in SUBSET ((httpTaken + 1)..Len(httpReceived))
          /\ Reaches \in Nat /\ httpTaken =< Reaches /\ Reaches =< Len(httpReceived)
          /\ \A i \in Page : i =< Reaches
      BY UpcomingIs DEF IntakeInv
    <2>2. CASE CaughtUp
      BY <1>1, <1>2, <1>3, <2>1, <2>2
    <2>3. CASE ~CaughtUp
      BY <1>1, <1>2, <1>3, <2>1, <2>3
    <2>4. QED
      BY <2>2, <2>3
  <1>5. PICK rows : rows = {s[i] : i \in P}
    OBVIOUS
  <1>6. /\ httpTaken' = end /\ httpMissing' = x + ((end - n) - Cardinality(P))
        /\ analysed' = A \cup rows /\ UNCHANGED <<clock, httpReceived>>
    BY <1>1, <1>2, <1>3, <1>5, <1>a DEF HttpTakeIn, Gaps
  <1>7. \A i, j \in 1..l : i # j => s[i] # s[j]
    BY <1>1 DEF IntakeInv, ReceivedOnce
  <1>8. /\ IsFiniteSet(P) /\ IsFiniteSet(rows) /\ Cardinality(rows) = Cardinality(P) /\ Cardinality(P) \in Nat
    <2>1. P \in SUBSET (1..Len(s))
      BY <1>1, <1>4
    <2>2. \A i, j \in 1..Len(s) : i # j => s[i] # s[j]
      BY <1>1, <1>7
    <2>3. QED
      BY <1>5, <2>1, <2>2, AsManyRecords
  <1>9. IsFiniteSet(A) /\ (\A r \in A : \E i \in 1..n : s[i] = r) /\ x + Cardinality(A) = n
    BY <1>1, <1>a DEF IntakeInv, AnalysedReceived, NothingUncounted
  <1>10. A \cap rows = {}
    <2>1. SUFFICES ASSUME NEW r \in A, r \in rows
                   PROVE  FALSE
      OBVIOUS
    <2>2. PICK i \in 1..n : s[i] = r
      BY <1>9
    <2>3. PICK j \in P : s[j] = r
      BY <1>5, <2>1
    <2>4. j \in 1..l /\ i \in 1..l /\ i # j
      BY <1>1, <1>4
    <2>5. QED
      BY <1>7, <2>2, <2>3, <2>4
  <1>11. /\ IsFiniteSet(A \cup rows)
         /\ Cardinality(A \cup rows) = Cardinality(A) + Cardinality(P) /\ Cardinality(A) \in Nat
    <2>1. /\ IsFiniteSet(A \cup rows)
          /\ Cardinality(A \cup rows) = Cardinality(A) + Cardinality(rows) - Cardinality(A \cap rows)
      BY <1>8, <1>9, FS_Union
    <2>2. Cardinality(A \cap rows) = 0
      BY <1>10, FS_EmptySet
    <2>3. Cardinality(A) \in Nat
      BY <1>9, FS_CardinalityType
    <2>4. QED
      BY <1>8, <2>1, <2>2, <2>3
  <1>12. \A r \in A \cup rows : \E i \in 1..end : s[i] = r
    <2>1. \A r \in A : \E i \in 1..end : s[i] = r
      <3>1. \A i \in 1..n : i \in 1..end
        BY <1>4
      <3>2. QED
        BY <1>9, <3>1
    <2>2. \A r \in rows : \E i \in 1..end : s[i] = r
      <3>1. \A i \in P : i \in 1..end
        BY <1>4
      <3>2. QED
        BY <1>5, <3>1
    <2>3. QED
      BY <2>1, <2>2
  <1>13. IntakeTyped'
    <2>1. x + ((end - n) - Cardinality(P)) \in Int
      BY <1>4, <1>8
    <2>2. QED
      BY <1>1, <1>4, <1>6, <2>1 DEF IntakeInv, IntakeTyped
  <1>14. ReceivedOnce'
    BY <1>6 DEF IntakeInv, ReceivedOnce
  <1>15. AnalysedReceived'
    BY <1>1, <1>6, <1>11, <1>12 DEF AnalysedReceived
  <1>16. NothingUncounted'
    <2>1. x + ((end - n) - Cardinality(P)) + (Cardinality(A) + Cardinality(P)) = end
      BY <1>4, <1>8, <1>9, <1>11
    <2>2. QED
      BY <1>6, <1>11, <2>1 DEF NothingUncounted
  <1>17. QED
    BY <1>13, <1>14, <1>15, <1>16 DEF IntakeInv

LEMMA ReceivedOneMore ==
  ASSUME IntakeInv, NEW r \in HttpRecords, Insert(r)
  PROVE  IntakeInv'
  <1>1. PICK n \in Nat, l \in Nat, s \in Seq(HttpRecords) :
          n = httpTaken /\ l = Len(s) /\ s = httpReceived /\ n =< l
    BY DEF IntakeInv, IntakeTyped
  <1>2. /\ httpReceived' = Append(s, r) /\ \A i \in 1..l : s[i] # r
        /\ UNCHANGED <<clock, httpTaken, httpMissing, analysed>>
    <2>1. r \notin ToSet(s)
      BY <1>1 DEF Insert
    <2>2. \A i \in 1..l : s[i] # r
      BY <1>1, <2>1 DEF ToSet
    <2>3. QED
      BY <1>1, <2>2 DEF Insert
  <1>3. PICK t : t = Append(s, r)
    OBVIOUS
  <1>4. /\ t \in Seq(HttpRecords) /\ Len(t) = l + 1 /\ t[l + 1] = r
        /\ \A i \in 1..l : t[i] = s[i]
    BY <1>1, <1>3
  <1>5. IntakeTyped'
    <2>1. n =< l + 1
      BY <1>1
    <2>2. QED
      BY <1>1, <1>2, <1>3, <1>4, <2>1 DEF IntakeInv, IntakeTyped
  <1>6. ReceivedOnce'
    <2>1. \A i, j \in 1..l : i # j => s[i] # s[j]
      BY <1>1 DEF IntakeInv, ReceivedOnce
    <2>2. \A i, j \in 1..(l + 1) : i # j => t[i] # t[j]
      <3>1. SUFFICES ASSUME NEW i \in 1..(l + 1), NEW j \in 1..(l + 1), i # j
                     PROVE  t[i] # t[j]
        OBVIOUS
      <3>2. CASE i \in 1..l /\ j \in 1..l
        BY <1>4, <2>1, <3>1, <3>2
      <3>3. CASE i = l + 1 /\ j \in 1..l
        BY <1>2, <1>4, <3>3
      <3>4. CASE i \in 1..l /\ j = l + 1
        BY <1>2, <1>4, <3>4
      <3>5. QED
        BY <3>1, <3>2, <3>3, <3>4
    <2>3. httpReceived' = t
      BY <1>2, <1>3
    <2>4. QED
      BY <1>4, <2>2, <2>3 DEF ReceivedOnce
  <1>7. AnalysedReceived'
    <2>1. IsFiniteSet(analysed) /\ \A q \in analysed : \E i \in 1..n : s[i] = q
      BY <1>1 DEF IntakeInv, AnalysedReceived
    <2>2. \A i \in 1..n : i \in 1..l
      BY <1>1
    <2>3. \A q \in analysed : \E i \in 1..n : t[i] = q
      BY <1>4, <2>1, <2>2
    <2>4. QED
      BY <1>1, <1>2, <1>3, <2>1, <2>3 DEF AnalysedReceived
  <1>8. NothingUncounted'
    BY <1>2 DEF IntakeInv, NothingUncounted
  <1>9. QED
    BY <1>5, <1>6, <1>7, <1>8 DEF IntakeInv

LEMMA IntakeStep ==
  ASSUME IntakeInv, [AnalysisNext]_analysisVars
  PROVE  IntakeInv'
  <1>1. CASE UNCHANGED <<httpReceived, httpTaken, httpMissing, analysed>> /\ clock' \in Int
    BY <1>1 DEF IntakeInv, IntakeTyped, ReceivedOnce, AnalysedReceived, NothingUncounted
  <1>2. CASE Elapse
    <2>1. clock \in Int
      BY DEF IntakeInv, IntakeTyped
    <2>2. clock' \in Int
      BY <1>2, <2>1 DEF Elapse
    <2>3. QED
      BY <1>1, <1>2, <2>2 DEF Elapse
  <1>3. CASE \E r \in HttpRecords : Insert(r)
    BY <1>3, ReceivedOneMore
  <1>4. CASE HttpTakeIn
    BY <1>4, TakenIn
  <1>5. CASE AnalyseHour \/ PruneContext \/ TickFails \/ UNCHANGED analysisVars
    <2>1. UNCHANGED <<clock, httpReceived, httpTaken, httpMissing, analysed>>
      BY <1>5 DEF AnalyseHour, PruneContext, TickFails, analysisVars
    <2>2. clock' \in Int
      BY <2>1 DEF IntakeInv, IntakeTyped
    <2>3. QED
      BY <1>1, <2>1, <2>2
  <1>6. QED
    BY <1>2, <1>3, <1>4, <1>5 DEF AnalysisNext, WorkerStep

(* The context.                                                            *)
LEMMA ContextTaken ==
  ASSUME IntakeInv, ContextInv, HttpTakeIn
  PROVE  ContextInv'
  <1>1. PICK rows : rows = {httpReceived[i] : i \in Page}
    OBVIOUS
  <1>2. rows \in SUBSET HttpRecords
    BY <1>1, UpcomingIs DEF IntakeInv
  <1>3. /\ httpContext' = httpContext \cup rows /\ analysed' = analysed \cup rows /\ clock' = clock
    BY <1>1 DEF HttpTakeIn
  <1>4. PICK at : at = IF CaughtUp THEN "windows" ELSE "prune"
    OBVIOUS
  <1>5. tick.at = "idle" /\ tick' = [at |-> at, now |-> clock, left |-> WindowLimit]
    BY <1>4 DEF HttpTakeIn
  <1>6. tick' \in TickStates /\ tick'.at # "idle" /\ tick'.now = clock /\ clock \in Int
    <2>1. at \in {"windows", "prune"} /\ clock \in Int /\ WindowLimit \in Int
      BY <1>4, HttpAnalysisAssumption DEF ContextInv, ContextTyped
    <2>2. QED
      BY <1>5, <2>1 DEF TickStates
  <1>7. TickNow = clock /\ TickNow' = clock
    BY <1>5, <1>6 DEF TickNow
  <1>8. ContextTyped'
    <2>1. clock =< clock
      BY <1>6
    <2>2. QED
      BY <1>2, <1>3, <1>6, <2>1 DEF ContextInv, ContextTyped
  <1>9. LeftContext'
    <2>1. \A r \in analysed : r \notin httpContext => HttpTime[r] < clock - HttpRetention
      BY <1>7 DEF ContextInv, LeftContext
    <2>2. QED
      BY <1>3, <1>7, <2>1 DEF LeftContext
  <1>10. (httpContext \subseteq analysed)'
    BY <1>3 DEF ContextInv
  <1>11. QED
    BY <1>8, <1>9, <1>10 DEF ContextInv

(* The clock does not go back, and a tick keeps the time it began with.    *)
LEMMA ContextLater ==
  ASSUME ContextInv, UNCHANGED <<analysed, httpContext>>, clock' \in Int, tick' \in TickStates,
         tick'.at # "idle" => tick'.now =< clock', TickNow' >= TickNow
  PROVE  ContextInv'
  <1>1. ContextTyped'
    BY DEF ContextInv, ContextTyped
  <1>2. TickNow \in Int /\ TickNow' \in Int
    BY <1>1 DEF ContextInv, ContextTyped, TickNow, TickStates
  <1>3. LeftContext'
    <2>1. PICK a \in Int, b \in Int, c \in Int : a = TickNow /\ b = TickNow' /\ c = HttpRetention /\ b >= a
      BY <1>2, HttpAnalysisAssumption
    <2>2. SUFFICES ASSUME NEW r \in analysed, r \notin httpContext
                   PROVE  HttpTime[r] < b - c
      BY <2>1 DEF LeftContext
    <2>3. HttpTime[r] < a - c
      BY <2>1, <2>2 DEF ContextInv, LeftContext
    <2>4. HttpTime[r] \in Int
      BY HttpAnalysisAssumption DEF ContextInv, ContextTyped
    <2>5. QED
      BY <2>1, <2>3, <2>4
  <1>4. QED
    BY <1>1, <1>3 DEF ContextInv

LEMMA ContextPruned ==
  ASSUME ContextInv, PruneContext
  PROVE  ContextInv'
  <1>1. /\ httpContext' = {r \in httpContext : HttpTime[r] >= tick.now - HttpRetention}
        /\ tick' = Sleeping /\ UNCHANGED <<clock, analysed>> /\ tick.at # "idle"
    BY DEF PruneContext
  <1>2. tick' \in TickStates /\ tick'.at = "idle"
    BY <1>1 DEF Sleeping, TickStates
  <1>3. PICK now \in Int, c \in Int, k \in Int : now = tick.now /\ c = HttpRetention /\ k = clock /\ now =< k
    BY <1>1, HttpAnalysisAssumption DEF ContextInv, ContextTyped, TickStates
  <1>4. TickNow = now /\ TickNow' = k
    BY <1>1, <1>2, <1>3 DEF TickNow
  <1>5. ContextTyped'
    BY <1>1, <1>2 DEF ContextInv, ContextTyped
  <1>6. LeftContext'
    <2>1. SUFFICES ASSUME NEW r \in analysed, r \notin httpContext'
                   PROVE  HttpTime[r] < k - c
      BY <1>1, <1>3, <1>4 DEF LeftContext
    <2>2. HttpTime[r] \in Int
      BY HttpAnalysisAssumption DEF ContextInv, ContextTyped
    <2>3. CASE r \in httpContext
      <3>1. ~(HttpTime[r] >= now - c)
        BY <1>1, <1>3, <2>1, <2>3
      <3>2. QED
        BY <1>3, <2>2, <3>1
    <2>4. CASE r \notin httpContext
      <3>1. HttpTime[r] < now - c
        BY <1>3, <1>4, <2>1, <2>4 DEF ContextInv, LeftContext
      <3>2. QED
        BY <1>3, <2>2, <3>1
    <2>5. QED
      BY <2>3, <2>4
  <1>7. (httpContext \subseteq analysed)'
    BY <1>1 DEF ContextInv
  <1>8. QED
    BY <1>5, <1>6, <1>7 DEF ContextInv

LEMMA ContextStep ==
  ASSUME IntakeInv, ContextInv, [AnalysisNext]_analysisVars
  PROVE  ContextInv'
  <1>1. PICK k \in Int, t \in TickStates : k = clock /\ t = tick /\ (t.at # "idle" => t.now =< k)
    BY DEF ContextInv, ContextTyped
  <1>2. TickNow = IF t.at = "idle" THEN k ELSE t.now
    BY <1>1 DEF TickNow
  <1>3. t.now \in Int /\ t.left \in Int
    BY DEF TickStates
  <1>4. CASE Elapse
    <2>1. clock' = k + 1 /\ tick' = t /\ UNCHANGED <<analysed, httpContext>>
      BY <1>1, <1>4 DEF Elapse
    <2>2. TickNow' = IF t.at = "idle" THEN k + 1 ELSE t.now
      BY <2>1 DEF TickNow
    <2>3. TickNow' >= TickNow /\ clock' \in Int /\ (t.at # "idle" => t.now =< clock')
      BY <1>1, <1>2, <1>3, <2>1, <2>2
    <2>4. QED
      BY <2>1, <2>3, ContextLater
  <1>5. CASE \E r \in HttpRecords : Insert(r)
    <2>1. UNCHANGED <<clock, tick, analysed, httpContext>>
      BY <1>5 DEF Insert
    <2>2. TickNow' = TickNow
      BY <2>1 DEF TickNow
    <2>3. TickNow \in Int
      BY <1>1, <1>2, <1>3
    <2>4. TickNow' >= TickNow
      BY <2>2, <2>3
    <2>5. QED
      BY <1>1, <2>1, <2>4, ContextLater
  <1>6. CASE HttpTakeIn
    BY <1>6, ContextTaken
  <1>7. CASE AnalyseHour
    <2>1. tick' = [t EXCEPT !.left = t.left - 1] /\ UNCHANGED <<clock, analysed, httpContext>>
      BY <1>1, <1>7 DEF AnalyseHour
    <2>2. tick' \in TickStates /\ tick'.at = t.at /\ tick'.now = t.now
      BY <1>3, <2>1 DEF TickStates
    <2>3. TickNow' = IF t.at = "idle" THEN k ELSE t.now
      BY <1>1, <2>1, <2>2 DEF TickNow
    <2>4. TickNow' >= TickNow
      BY <1>2, <1>3, <2>3
    <2>5. QED
      BY <1>1, <2>1, <2>2, <2>4, ContextLater
  <1>8. CASE PruneContext
    BY <1>8, ContextPruned
  <1>9. CASE TickFails
    <2>1. tick' = Sleeping /\ UNCHANGED <<clock, analysed, httpContext>> /\ t.at # "idle"
      BY <1>1, <1>9 DEF TickFails
    <2>2. tick' \in TickStates /\ tick'.at = "idle"
      BY <2>1 DEF Sleeping, TickStates
    <2>3. TickNow' = k
      BY <1>1, <2>1, <2>2 DEF TickNow
    <2>4. TickNow' >= TickNow
      BY <1>1, <1>2, <1>3, <2>1, <2>3
    <2>5. QED
      BY <1>1, <2>1, <2>2, <2>4, ContextLater
  <1>10. CASE UNCHANGED analysisVars
    <2>1. UNCHANGED <<clock, tick, analysed, httpContext>>
      BY <1>10 DEF analysisVars
    <2>2. TickNow' = TickNow
      BY <2>1 DEF TickNow
    <2>3. TickNow \in Int
      BY <1>1, <1>2, <1>3
    <2>4. TickNow' >= TickNow
      BY <2>2, <2>3
    <2>5. QED
      BY <1>1, <2>1, <2>4, ContextLater
  <1>11. QED
    BY <1>4, <1>5, <1>6, <1>7, <1>8, <1>9, <1>10 DEF AnalysisNext, WorkerStep

(* The next revision of a case: only a complete analysis changes what it   *)
(* says, and then it says what the context says.                           *)
LEMMA RecastIs ==
  ASSUME NEW h \in HttpHours, httpCases[h] \in CaseRecords, httpContext \in SUBSET HttpRecords
  PROVE  /\ Recast(h) \in CaseRecords
         /\ Recast(h) # httpCases[h] => Recast(h).revision = httpCases[h].revision + 1
         /\ Coverage(h) # "complete" => /\ Recast(h).evidence = httpCases[h].evidence
                                        /\ Recast(h).active = httpCases[h].active
         /\ Coverage(h) = "complete" => /\ Recast(h).evidence = Verdict(ContextOf(h), h).evidence
                                        /\ ~Recast(h).stale
  <1>1. PICK old \in CaseRecords : old = httpCases[h]
    OBVIOUS
  <1>2. PICK v \in Verdicts : v = Verdict(ContextOf(h), h)
    <2>1. ContextOf(h) \in SUBSET HttpRecords
      BY DEF ContextOf
    <2>2. QED
      BY <2>1, VerdictIs
  <1>3. PICK n \in Nat : n = old.revision + 1
    BY DEF CaseRecords
  <1>4. CASE Coverage(h) # "complete"
    <2>1. PICK b \in BOOLEAN : b = (old.revision # 0)
      OBVIOUS
    <2>2. PICK new : new = [old EXCEPT !.stale = b]
      OBVIOUS
    <2>3. new \in CaseRecords /\ new.evidence = old.evidence /\ new.active = old.active
      BY <2>2 DEF CaseRecords
    <2>4. Recast(h) = IF new = old THEN old ELSE [new EXCEPT !.revision = n]
      BY <1>1, <1>3, <1>4, <2>1, <2>2 DEF Recast
    <2>5. PICK next : next = [new EXCEPT !.revision = n]
      OBVIOUS
    <2>6. next \in CaseRecords /\ next.evidence = new.evidence /\ next.active = new.active /\ next.revision = n
      BY <2>3, <2>5 DEF CaseRecords
    <2>7. Recast(h) = IF new = old THEN old ELSE next
      BY <2>4, <2>5
    <2>8. QED
      BY <1>1, <1>3, <1>4, <2>3, <2>6, <2>7
  <1>5. CASE Coverage(h) = "complete"
    <2>1. PICK b \in BOOLEAN : b = (v.evidence # {})
      OBVIOUS
    <2>2. PICK new : new = [old EXCEPT !.stale = FALSE, !.active = b, !.rules = v.rules, !.evidence = v.evidence]
      OBVIOUS
    <2>3. v.rules \in {u.rules : u \in Verdicts} \cup {{}} /\ v.evidence \in {u.evidence : u \in Verdicts} \cup {{}}
      OBVIOUS
    <2>4. new \in CaseRecords /\ new.evidence = v.evidence /\ new.stale = FALSE
      BY <2>2, <2>3 DEF CaseRecords
    <2>5. Recast(h) = IF new = old THEN old ELSE [new EXCEPT !.revision = n]
      BY <1>1, <1>2, <1>3, <1>5, <2>1, <2>2 DEF Recast
    <2>6. PICK next : next = [new EXCEPT !.revision = n]
      OBVIOUS
    <2>7. next \in CaseRecords /\ next.evidence = new.evidence /\ next.stale = new.stale /\ next.revision = n
      BY <2>4, <2>6 DEF CaseRecords
    <2>8. Recast(h) = IF new = old THEN old ELSE next
      BY <2>5, <2>6
    <2>9. QED
      BY <1>1, <1>2, <1>3, <1>5, <2>4, <2>7, <2>8
  <1>6. QED
    BY <1>4, <1>5

(* The intervals after a complete analysis: those that the new evidence    *)
(* ends are closed with the revision before, those it begins are opened.   *)
Moved(ms, new) ==
  {IF m.to = 0 /\ m.event \notin new.evidence THEN [m EXCEPT !.to = new.revision - 1] ELSE m : m \in ms}
  \cup {[event |-> e, from |-> new.revision, to |-> 0] :
          e \in {e \in new.evidence : ~\E m \in ms : m.event = e /\ m.to = 0}}

(* M is ms with the open intervals outside E closed by n, and intervals    *)
(* opened for what E has besides.                                          *)
MovedTo(M, ms, E, n) ==
  /\ \A q \in M :
       \/ q \in ms /\ (q.to = 0 => q.event \in E)
       \/ \E m \in ms : m.to = 0 /\ m.event \notin E /\ q.event = m.event /\ q.from = m.from /\ q.to = n
       \/ q.event \in E /\ q.from = n + 1 /\ q.to = 0
  /\ \A m \in ms : m.to # 0 \/ m.event \in E => m \in M
  /\ \A m \in ms : m.to = 0 /\ m.event \notin E =>
       \E q \in M : q.event = m.event /\ q.from = m.from /\ q.to = n
  /\ \A e \in E : (~\E m \in ms : m.event = e /\ m.to = 0) =>
       \E q \in M : q.event = e /\ q.from = n + 1 /\ q.to = 0

LEMMA MovedIs ==
  ASSUME NEW ms \in SUBSET Intervals, NEW new \in CaseRecords, NEW n \in Nat, new.revision = n + 1
  PROVE  /\ Moved(ms, new) \in SUBSET Intervals
         /\ MovedTo(Moved(ms, new), ms, new.evidence, n)
  <1>1. PICK M : M = Moved(ms, new)
    OBVIOUS
  <1>2. PICK E : E = new.evidence
    OBVIOUS
  <1>3. PICK Open : Open = {e \in E : ~\E m \in ms : m.event = e /\ m.to = 0}
    OBVIOUS
  <1>4. \A q : q \in M <=> \/ \E m \in ms : q = IF m.to = 0 /\ m.event \notin E THEN [m EXCEPT !.to = n] ELSE m
                           \/ \E e \in Open : q = [event |-> e, from |-> n + 1, to |-> 0]
    <2>1. new.revision - 1 = n
      OBVIOUS
    <2>2. M = {IF m.to = 0 /\ m.event \notin E THEN [m EXCEPT !.to = n] ELSE m : m \in ms}
                \cup {[event |-> e, from |-> n + 1, to |-> 0] : e \in Open}
      BY <1>1, <1>2, <1>3, <2>1 DEF Moved
    <2>3. QED
      BY <2>2
  <1>5. \A m \in ms : /\ [m EXCEPT !.to = n] \in Intervals /\ [m EXCEPT !.to = n].event = m.event
                      /\ [m EXCEPT !.to = n].from = m.from /\ [m EXCEPT !.to = n].to = n
    BY DEF Intervals
  <1>6. \A e \in E : [event |-> e, from |-> n + 1, to |-> 0] \in Intervals
    <2>1. E \in {v.evidence : v \in Verdicts} \cup {{}}
      BY <1>2 DEF CaseRecords
    <2>2. \A e \in E : e \in UNION {v.evidence : v \in Verdicts}
      BY <2>1
    <2>3. QED
      BY <2>2 DEF Intervals
  <1>7. M \in SUBSET Intervals
    <2>1. SUFFICES ASSUME NEW q \in M
                   PROVE  q \in Intervals
      OBVIOUS
    <2>2. CASE \E e \in Open : q = [event |-> e, from |-> n + 1, to |-> 0]
      BY <1>3, <1>6, <2>2
    <2>3. CASE \E m \in ms : q = IF m.to = 0 /\ m.event \notin E THEN [m EXCEPT !.to = n] ELSE m
      BY <1>5, <2>3
    <2>4. QED
      BY <1>4, <2>1, <2>2, <2>3
  <1>8. ASSUME NEW q \in M
        PROVE  \/ q \in ms /\ (q.to = 0 => q.event \in E)
               \/ \E m \in ms : /\ m.to = 0 /\ m.event \notin E
                                /\ q.event = m.event /\ q.from = m.from /\ q.to = n
               \/ q.event \in E /\ q.from = n + 1 /\ q.to = 0
    <2>1. CASE \E e \in Open : q = [event |-> e, from |-> n + 1, to |-> 0]
      BY <1>3, <2>1
    <2>2. CASE \E m \in ms : q = IF m.to = 0 /\ m.event \notin E THEN [m EXCEPT !.to = n] ELSE m
      <3>1. PICK m \in ms : q = IF m.to = 0 /\ m.event \notin E THEN [m EXCEPT !.to = n] ELSE m
        BY <2>2
      <3>2. CASE m.to = 0 /\ m.event \notin E
        BY <1>5, <3>1, <3>2
      <3>3. CASE ~(m.to = 0 /\ m.event \notin E)
        BY <3>1, <3>3
      <3>4. QED
        BY <3>2, <3>3
    <2>3. QED
      BY <1>4, <2>1, <2>2
  <1>9. \A m \in ms : m.to # 0 \/ m.event \in E => m \in M
    BY <1>4
  <1>10. ASSUME NEW m \in ms, m.to = 0, m.event \notin E
         PROVE  \E q \in M : q.event = m.event /\ q.from = m.from /\ q.to = n
    <2>1. [m EXCEPT !.to = n] \in M
      BY <1>4, <1>10
    <2>2. QED
      BY <1>5, <2>1
  <1>11. ASSUME NEW e \in E, ~\E m \in ms : m.event = e /\ m.to = 0
         PROVE  \E q \in M : q.event = e /\ q.from = n + 1 /\ q.to = 0
    <2>1. e \in Open
      BY <1>3, <1>11
    <2>2. PICK q : q = [event |-> e, from |-> n + 1, to |-> 0]
      OBVIOUS
    <2>3. q \in M
      BY <1>4, <2>1, <2>2
    <2>4. q.event = e /\ q.from = n + 1 /\ q.to = 0
      BY <2>2
    <2>5. QED
      BY <2>3, <2>4
  <1>12. MovedTo(M, ms, E, n)
    BY <1>8, <1>9, <1>10, <1>11 DEF MovedTo
  <1>13. QED
    BY <1>1, <1>2, <1>7, <1>12

(* The intervals give back every revision before the new one, and the new  *)
(* one is what is open.                                                    *)
IntervalsGive(ms, n, hs, evidence) ==
  /\ \A m \in ms : 1 =< m.from /\ m.from =< n + 1 /\ m.to =< n
  /\ \A e : e \in evidence <=> \E m \in ms : m.event = e /\ m.to = 0
  /\ \A k \in 1..n : \A e :
       e \in hs[k].evidence <=> \E m \in ms : m.event = e /\ m.from =< k /\ (m.to = 0 \/ m.to >= k)

LEMMA MovedGives ==
  ASSUME NEW c \in CaseRecords, NEW hs \in Seq(CaseRecords), NEW ms \in SUBSET Intervals,
         CaseSound(c, hs, ms), NEW new \in CaseRecords, NEW n \in Nat, c.revision = n, new.revision = n + 1
  PROVE  IntervalsGive(Moved(ms, new), n, hs, new.evidence)
  <1>1. PICK M : M = Moved(ms, new)
    OBVIOUS
  <1>2. PICK E : E = new.evidence
    OBVIOUS
  <1>a. M \in SUBSET Intervals /\ MovedTo(M, ms, E, n)
    <2>1. Moved(ms, new) \in SUBSET Intervals /\ MovedTo(Moved(ms, new), ms, new.evidence, n)
      BY MovedIs
    <2>2. QED
      BY <1>1, <1>2, <2>1
  <1>3. /\ \A q \in M :
             \/ q \in ms /\ (q.to = 0 => q.event \in E)
             \/ \E m \in ms : m.to = 0 /\ m.event \notin E /\ q.event = m.event /\ q.from = m.from /\ q.to = n
             \/ q.event \in E /\ q.from = n + 1 /\ q.to = 0
        /\ \A m \in ms : m.to # 0 \/ m.event \in E => m \in M
        /\ \A m \in ms : m.to = 0 /\ m.event \notin E =>
             \E q \in M : q.event = m.event /\ q.from = m.from /\ q.to = n
        /\ \A e \in E : (~\E m \in ms : m.event = e /\ m.to = 0) =>
             \E q \in M : q.event = e /\ q.from = n + 1 /\ q.to = 0
    BY <1>a DEF MovedTo
  <1>4. /\ Len(hs) = n /\ \A m \in ms : m.from \in Nat /\ m.to \in Nat /\ 1 =< m.from /\ m.from =< n /\ m.to =< n
        /\ \A k \in 1..n : \A e :
             e \in hs[k].evidence <=> \E m \in ms : m.event = e /\ m.from =< k /\ (m.to = 0 \/ m.to >= k)
    BY DEF CaseSound, Intervals
  <1>5. ASSUME NEW q \in M
        PROVE  1 =< q.from /\ q.from =< n + 1 /\ q.to =< n
    <2>1. CASE q \in ms
      BY <1>4, <2>1
    <2>2. CASE \E m \in ms : m.to = 0 /\ q.from = m.from /\ q.to = n
      BY <1>4, <2>2
    <2>3. CASE q.from = n + 1 /\ q.to = 0
      BY <2>3
    <2>4. QED
      BY <1>3, <2>1, <2>2, <2>3
  <1>6. ASSUME NEW e \in E
        PROVE  \E q \in M : q.event = e /\ q.to = 0
    <2>1. CASE \E m \in ms : m.event = e /\ m.to = 0
      BY <1>3, <1>6, <2>1
    <2>2. CASE ~\E m \in ms : m.event = e /\ m.to = 0
      BY <1>3, <1>6, <2>2
    <2>3. QED
      BY <2>1, <2>2
  <1>7. ASSUME NEW q \in M, q.to = 0
        PROVE  q.event \in E
    <2>1. CASE q \in ms /\ (q.to = 0 => q.event \in E)
      BY <1>7, <2>1
    <2>2. CASE \E m \in ms : m.to = 0 /\ m.event \notin E /\ q.event = m.event /\ q.from = m.from /\ q.to = n
      <3>1. PICK m \in ms : q.to = n
        BY <2>2
      <3>2. n >= 1
        BY <1>4
      <3>3. QED
        BY <1>7, <3>1, <3>2
    <2>3. CASE q.event \in E
      BY <2>3
    <2>4. QED
      BY <1>3, <2>1, <2>2, <2>3
  <1>8. ASSUME NEW k \in 1..n, NEW e, NEW m \in ms, m.event = e, m.from =< k, m.to = 0 \/ m.to >= k
        PROVE  \E q \in M : q.event = e /\ q.from =< k /\ (q.to = 0 \/ q.to >= k)
    <2>1. CASE m.to # 0 \/ m.event \in E
      BY <1>3, <1>8, <2>1
    <2>2. CASE m.to = 0 /\ m.event \notin E
      <3>1. PICK q \in M : q.event = m.event /\ q.from = m.from /\ q.to = n
        BY <1>3, <2>2
      <3>2. q.to >= k
        BY <3>1
      <3>3. QED
        BY <1>8, <3>1, <3>2
    <2>3. QED
      BY <2>1, <2>2
  <1>9. ASSUME NEW k \in 1..n, NEW e, NEW q \in M, q.event = e, q.from =< k, q.to = 0 \/ q.to >= k
        PROVE  \E m \in ms : m.event = e /\ m.from =< k /\ (m.to = 0 \/ m.to >= k)
    <2>1. CASE q \in ms
      BY <1>9, <2>1
    <2>2. CASE \E m \in ms : m.to = 0 /\ q.event = m.event /\ q.from = m.from
      BY <1>9, <2>2
    <2>3. CASE q.from = n + 1
      BY <1>9, <2>3
    <2>4. QED
      BY <1>3, <2>1, <2>2, <2>3
  <1>10. \A k \in 1..n : \A e :
           e \in hs[k].evidence <=> \E q \in M : q.event = e /\ q.from =< k /\ (q.to = 0 \/ q.to >= k)
    <2>1. ASSUME NEW k \in 1..n, NEW e
          PROVE  (\E m \in ms : m.event = e /\ m.from =< k /\ (m.to = 0 \/ m.to >= k))
                   <=> (\E q \in M : q.event = e /\ q.from =< k /\ (q.to = 0 \/ q.to >= k))
      BY <1>8, <1>9
    <2>2. ASSUME NEW k \in 1..n, NEW e
          PROVE  e \in hs[k].evidence <=> \E q \in M : q.event = e /\ q.from =< k /\ (q.to = 0 \/ q.to >= k)
      <3>1. e \in hs[k].evidence <=> \E m \in ms : m.event = e /\ m.from =< k /\ (m.to = 0 \/ m.to >= k)
        BY <1>4
      <3>2. QED
        BY <2>1, <3>1
    <2>3. QED
      BY <2>2
  <1>11. QED
    BY <1>1, <1>2, <1>5, <1>6, <1>7, <1>10 DEF IntervalsGive

LEMMA RevisionSaved ==
  ASSUME NEW c \in CaseRecords, NEW hs \in Seq(CaseRecords), NEW ms \in SUBSET Intervals,
         CaseSound(c, hs, ms), NEW new \in CaseRecords, NEW n \in Nat, c.revision = n, new.revision = n + 1,
         new.stale => c.active = new.active /\ c.evidence = new.evidence,
         NEW after \in SUBSET Intervals, IntervalsGive(after, n, hs, new.evidence)
  PROVE  CaseSound(new, Append(hs, new), after)
  <1>1. PICK gs : gs = Append(hs, new)
    OBVIOUS
  <1>2. Len(hs) = n /\ (n > 0 => hs[n] = c)
    BY DEF CaseSound
  <1>3. gs \in Seq(CaseRecords) /\ Len(gs) = n + 1 /\ gs[n + 1] = new /\ \A k \in 1..n : gs[k] = hs[k]
    BY <1>1, <1>2
  <1>4. \A m \in after : m.from \in Nat /\ m.to \in Nat /\ 1 =< m.from /\ m.from =< n + 1 /\ m.to =< n
    BY DEF IntervalsGive, Intervals
  <1>5. \A m \in after : m.to =< n + 1
    BY <1>4
  <1>6. ASSUME NEW k \in 1..(n + 1), NEW e
        PROVE  e \in gs[k].evidence <=> \E m \in after : m.event = e /\ m.from =< k /\ (m.to = 0 \/ m.to >= k)
    <2>1. CASE k \in 1..n
      BY <1>3, <2>1 DEF IntervalsGive
    <2>2. CASE k = n + 1
      <3>1. \A m \in after : (m.from =< k /\ (m.to = 0 \/ m.to >= k)) <=> m.to = 0
        BY <1>4, <2>2
      <3>2. e \in new.evidence <=> \E m \in after : m.event = e /\ m.to = 0
        BY DEF IntervalsGive
      <3>3. QED
        BY <1>3, <2>2, <3>1, <3>2
    <2>3. QED
      BY <2>1, <2>2
  <1>7. ASSUME NEW k \in 2..(n + 1), gs[k].stale
        PROVE  gs[k - 1].active = gs[k].active /\ gs[k - 1].evidence = gs[k].evidence
    <2>1. CASE k \in 2..n
      <3>1. k \in 1..n /\ k - 1 \in 1..n
        BY <2>1
      <3>2. hs[k].stale => hs[k - 1].active = hs[k].active /\ hs[k - 1].evidence = hs[k].evidence
        BY <1>2, <2>1 DEF CaseSound
      <3>3. QED
        BY <1>3, <1>7, <3>1, <3>2
    <2>2. CASE k = n + 1
      <3>1. n > 0 /\ n \in 1..n /\ k - 1 = n
        BY <2>2
      <3>2. gs[k] = new /\ gs[k - 1] = c
        BY <1>2, <1>3, <2>2, <3>1
      <3>3. QED
        BY <1>7, <3>2
    <2>3. QED
      BY <2>1, <2>2
  <1>8. \A e : e \in new.evidence <=> \E m \in after : m.event = e /\ m.to = 0
    BY DEF IntervalsGive
  <1>9. /\ Len(gs) = new.revision /\ (new.revision > 0 => gs[new.revision] = new)
        /\ \A m \in after : 1 =< m.from /\ m.from =< new.revision /\ m.to =< new.revision
    BY <1>3, <1>4, <1>5
  <1>10. CaseSound(new, gs, after)
    BY <1>3, <1>6, <1>7, <1>8, <1>9 DEF CaseSound
  <1>11. QED
    BY <1>1, <1>10

LEMMA SameIntervals ==
  ASSUME NEW c \in CaseRecords, NEW hs \in Seq(CaseRecords), NEW ms \in SUBSET Intervals,
         CaseSound(c, hs, ms), NEW n \in Nat, c.revision = n
  PROVE  IntervalsGive(ms, n, hs, c.evidence)
  <1>1. \A m \in ms : m.from \in Nat /\ m.to \in Nat /\ 1 =< m.from /\ m.from =< n /\ m.to =< n
    BY DEF CaseSound, Intervals
  <1>2. \A m \in ms : 1 =< m.from /\ m.from =< n + 1 /\ m.to =< n
    BY <1>1
  <1>3. QED
    BY <1>2 DEF IntervalsGive, CaseSound

(* The analysis of one hour.                                               *)
LEMMA CaseRecast ==
  ASSUME CasesInv, ContextTyped, NEW h \in HttpHours, NEW new, new = Recast(h), new # httpCases[h],
         NEW after, after = IF Coverage(h) # "complete" THEN membership[h] ELSE Membership(h, new)
  PROVE  /\ new \in CaseRecords /\ after \in SUBSET Intervals
         /\ CaseSound(new, Append(history[h], new), after)
  <1>1. PICK c \in CaseRecords, hs \in Seq(CaseRecords), ms \in SUBSET Intervals :
          c = httpCases[h] /\ hs = history[h] /\ ms = membership[h]
    BY DEF CasesInv
  <1>2. CaseSound(c, hs, ms)
    BY <1>1 DEF CasesInv
  <1>3. PICK n \in Nat : c.revision = n
    BY DEF CaseRecords
  <1>4. /\ new \in CaseRecords /\ new.revision = n + 1
        /\ Coverage(h) # "complete" => new.evidence = c.evidence /\ new.active = c.active
        /\ Coverage(h) = "complete" => ~new.stale
    <2>1. httpCases[h] \in CaseRecords /\ httpContext \in SUBSET HttpRecords
      BY <1>1 DEF ContextTyped
    <2>2. /\ Recast(h) \in CaseRecords
          /\ Recast(h) # httpCases[h] => Recast(h).revision = httpCases[h].revision + 1
          /\ Coverage(h) # "complete" => /\ Recast(h).evidence = httpCases[h].evidence
                                         /\ Recast(h).active = httpCases[h].active
          /\ Coverage(h) = "complete" => ~Recast(h).stale
      BY <2>1, RecastIs
    <2>3. QED
      BY <1>1, <1>3, <2>2
  <1>5. new.stale => c.active = new.active /\ c.evidence = new.evidence
    BY <1>4
  <1>6. after \in SUBSET Intervals /\ IntervalsGive(after, n, hs, new.evidence)
    <2>1. CASE Coverage(h) # "complete"
      <3>1. after = ms /\ new.evidence = c.evidence
        BY <1>1, <1>4, <2>1
      <3>2. IntervalsGive(ms, n, hs, c.evidence)
        BY <1>2, <1>3, SameIntervals
      <3>3. QED
        BY <3>1, <3>2
    <2>2. CASE Coverage(h) = "complete"
      <3>1. after = Moved(ms, new)
        BY <1>1, <2>2 DEF Membership, Moved
      <3>2. Moved(ms, new) \in SUBSET Intervals
        BY <1>4, MovedIs
      <3>3. IntervalsGive(Moved(ms, new), n, hs, new.evidence)
        BY <1>2, <1>3, <1>4, MovedGives
      <3>4. QED
        BY <3>1, <3>2, <3>3
    <2>3. QED
      BY <2>1, <2>2
  <1>7. CaseSound(new, Append(hs, new), after)
    BY <1>2, <1>3, <1>4, <1>5, <1>6, RevisionSaved
  <1>8. QED
    BY <1>1, <1>4, <1>6, <1>7

LEMMA CasesAnalysed ==
  ASSUME CasesInv, ContextTyped, AnalyseHour
  PROVE  CasesInv'
  <1>1. PICK h \in HttpHours :
          \E new \in {Recast(h)} :
            IF new = httpCases[h] THEN UNCHANGED <<httpCases, history, membership, notice>>
            ELSE /\ httpCases' = [httpCases EXCEPT ![h] = new]
                 /\ history' = [history EXCEPT ![h] = Append(@, new)]
                 /\ membership' = IF Coverage(h) # "complete" THEN membership
                                  ELSE [membership EXCEPT ![h] = Membership(h, new)]
    BY DEF AnalyseHour
  <1>2. PICK new : new = Recast(h)
    OBVIOUS
  <1>3. CASE new = httpCases[h]
    BY <1>1, <1>2, <1>3 DEF CasesInv
  <1>4. CASE new # httpCases[h]
    <2>1. PICK after : after = IF Coverage(h) # "complete" THEN membership[h] ELSE Membership(h, new)
      OBVIOUS
    <2>2. PICK gs : gs = Append(history[h], new)
      OBVIOUS
    <2>3. /\ httpCases \in [HttpHours -> CaseRecords] /\ history \in [HttpHours -> Seq(CaseRecords)]
          /\ membership \in [HttpHours -> SUBSET Intervals]
          /\ \A g \in HttpHours : CaseSound(httpCases[g], history[g], membership[g])
      BY DEF CasesInv
    <2>4. /\ httpCases' = [httpCases EXCEPT ![h] = new] /\ history' = [history EXCEPT ![h] = gs]
          /\ membership' = [membership EXCEPT ![h] = after]
      <3>1. membership = [membership EXCEPT ![h] = membership[h]]
        BY <2>3
      <3>2. QED
        BY <1>1, <1>2, <1>4, <2>1, <2>2, <3>1
    <2>5. new \in CaseRecords /\ after \in SUBSET Intervals /\ CaseSound(new, gs, after)
      BY <1>2, <1>4, <2>1, <2>2, CaseRecast
    <2>6. gs \in Seq(CaseRecords)
      BY <2>2, <2>3, <2>5
    <2>7. /\ httpCases' \in [HttpHours -> CaseRecords] /\ history' \in [HttpHours -> Seq(CaseRecords)]
          /\ membership' \in [HttpHours -> SUBSET Intervals]
      BY <2>3, <2>4, <2>5, <2>6
    <2>8. ASSUME NEW g \in HttpHours
          PROVE  CaseSound(httpCases'[g], history'[g], membership'[g])
      <3>1. CASE g = h
        <4>1. httpCases'[g] = new /\ history'[g] = gs /\ membership'[g] = after
          BY <2>3, <2>4, <3>1
        <4>2. QED
          BY <2>5, <4>1
      <3>2. CASE g # h
        <4>1. httpCases'[g] = httpCases[g] /\ history'[g] = history[g] /\ membership'[g] = membership[g]
          BY <2>3, <2>4, <3>2
        <4>2. QED
          BY <2>3, <4>1
      <3>3. QED
        BY <3>1, <3>2
    <2>9. QED
      BY <2>7, <2>8 DEF CasesInv
  <1>5. QED
    BY <1>3, <1>4

(* A complete context is all that was analysed around the hour: what left  *)
(* it is older than any of that.                                           *)
LEMMA CompleteContext ==
  ASSUME ContextInv, NEW h \in HttpHours, tick.at # "idle", Coverage(h) = "complete"
  PROVE  ContextOf(h) = AnalysedAround(h)
  <1>1. PICK now \in Int, c \in Int, w \in Int, g \in Int :
          now = tick.now /\ c = HttpRetention /\ w = HttpWindow /\ g = h
    BY HttpAnalysisAssumption DEF ContextInv, ContextTyped, TickStates, HttpHours
  <1>2. ~(g - w < now - c)
    BY <1>1 DEF Coverage
  <1>3. TickNow = now
    BY <1>1 DEF TickNow
  <1>4. ASSUME NEW r \in analysed, AroundHour(r, h)
        PROVE  r \in httpContext
    <2>1. PICK t \in Int : t = HttpTime[r] /\ g - w =< t
      BY <1>1, <1>4, HttpAnalysisAssumption DEF AroundHour, ContextInv, ContextTyped
    <2>2. r \notin httpContext => t < now - c
      BY <1>1, <1>3, <2>1 DEF ContextInv, LeftContext
    <2>3. QED
      BY <1>2, <2>1, <2>2
  <1>5. ContextOf(h) = {r \in httpContext : AroundHour(r, h)}
    BY DEF ContextOf, AroundHour
  <1>6. httpContext \subseteq analysed
    BY DEF ContextInv
  <1>7. QED
    BY <1>4, <1>5, <1>6 DEF AnalysedAround

LEMMA HoursAnalysed ==
  ASSUME HoursInv, ContextInv, AnalyseHour
  PROVE  HoursInv'
  <1>1. PICK h \in HttpHours :
          /\ hours' = [hours EXCEPT ![h] = [dirty |-> FALSE, coverage |-> Coverage(h)]]
          /\ \E new \in {Recast(h)} :
               IF new = httpCases[h] THEN httpCases' = httpCases
               ELSE httpCases' = [httpCases EXCEPT ![h] = new]
    BY DEF AnalyseHour
  <1>2. PICK new : new = Recast(h)
    OBVIOUS
  <1>3. tick.at # "idle" /\ analysed' = analysed
    BY DEF AnalyseHour
  <1>4. /\ hours \in [HttpHours -> HourStates] /\ httpCases \in [HttpHours -> CaseRecords]
        /\ \A g \in HttpHours : SettledRight(g)
    BY DEF HoursInv
  <1>5. new \in CaseRecords /\ (Coverage(h) = "complete" => new.evidence = Verdict(ContextOf(h), h).evidence)
    <2>1. httpCases[h] \in CaseRecords /\ httpContext \in SUBSET HttpRecords
      BY <1>4 DEF ContextInv, ContextTyped
    <2>2. /\ Recast(h) \in CaseRecords
          /\ Coverage(h) = "complete" => Recast(h).evidence = Verdict(ContextOf(h), h).evidence
      BY <2>1, RecastIs
    <2>3. QED
      BY <1>2, <2>2
  <1>6. httpCases' = [httpCases EXCEPT ![h] = new]
    <2>1. CASE new = httpCases[h]
      BY <1>1, <1>2, <1>4, <2>1
    <2>2. CASE new # httpCases[h]
      BY <1>1, <1>2, <2>2
    <2>3. QED
      BY <2>1, <2>2
  <1>7. PICK cov : cov = Coverage(h)
    OBVIOUS
  <1>8. PICK st : st = [dirty |-> FALSE, coverage |-> cov]
    OBVIOUS
  <1>9. st \in HourStates /\ st.coverage = cov /\ st.dirty = FALSE
    BY <1>7, <1>8 DEF HourStates, Coverage
  <1>10. hours' = [hours EXCEPT ![h] = st]
    BY <1>1, <1>7, <1>8
  <1>11. hours' \in [HttpHours -> HourStates] /\ httpCases' \in [HttpHours -> CaseRecords]
    BY <1>4, <1>5, <1>6, <1>9, <1>10
  <1>12. \A g \in HttpHours : AnalysedAround(g)' = AnalysedAround(g)
    BY <1>3 DEF AnalysedAround
  <1>13. ASSUME NEW g \in HttpHours
         PROVE  SettledRight(g)'
    <2>1. CASE g = h
      <3>1. hours'[g] = st /\ httpCases'[g] = new
        BY <1>4, <1>6, <1>10, <2>1
      <3>2. cov = "complete" => new.evidence = Verdict(AnalysedAround(h), h).evidence
        BY <1>3, <1>5, <1>7, CompleteContext
      <3>3. AnalysedAround(g)' = AnalysedAround(h)
        BY <1>12, <2>1
      <3>4. QED
        BY <1>9, <2>1, <3>1, <3>2, <3>3 DEF SettledRight
    <2>2. CASE g # h
      <3>1. hours'[g] = hours[g] /\ httpCases'[g] = httpCases[g]
        BY <1>4, <1>6, <1>10, <2>2
      <3>2. SettledRight(g)
        BY <1>4
      <3>3. AnalysedAround(g)' = AnalysedAround(g)
        BY <1>12
      <3>4. QED
        BY <3>1, <3>2, <3>3 DEF SettledRight
    <2>3. QED
      BY <2>1, <2>2
  <1>14. QED
    BY <1>11, <1>13 DEF HoursInv

(* A record that is taken in is put down for every hour it is around.      *)
LEMMA HoursTaken ==
  ASSUME HoursInv, IntakeInv, HttpTakeIn
  PROVE  HoursInv'
  <1>1. PICK rows : rows = {httpReceived[i] : i \in Page}
    OBVIOUS
  <1>2. rows \in SUBSET HttpRecords
    BY <1>1, UpcomingIs DEF IntakeInv
  <1>3. /\ analysed' = analysed \cup rows /\ httpCases' = httpCases
        /\ hours' = [h \in HttpHours |-> IF \E r \in rows : h \in HoursOf(r)
                                         THEN [hours[h] EXCEPT !.dirty = TRUE] ELSE hours[h]]
    BY <1>1 DEF HttpTakeIn
  <1>4. /\ hours \in [HttpHours -> HourStates] /\ httpCases \in [HttpHours -> CaseRecords]
        /\ \A g \in HttpHours : SettledRight(g)
    BY DEF HoursInv
  <1>5. \A st \in HourStates : [st EXCEPT !.dirty = TRUE] \in HourStates /\ [st EXCEPT !.dirty = TRUE].dirty = TRUE
    BY DEF HourStates
  <1>6. hours' \in [HttpHours -> HourStates]
    BY <1>3, <1>4, <1>5
  <1>7. ASSUME NEW g \in HttpHours
        PROVE  SettledRight(g)'
    <2>1. CASE \E r \in rows : g \in HoursOf(r)
      <3>1. hours'[g] = [hours[g] EXCEPT !.dirty = TRUE]
        BY <1>3, <2>1
      <3>2. hours'[g].dirty = TRUE
        BY <1>4, <1>5, <3>1
      <3>3. QED
        BY <3>2 DEF SettledRight
    <2>2. CASE ~\E r \in rows : g \in HoursOf(r)
      <3>1. hours'[g] = hours[g]
        BY <1>3, <2>2
      <3>2. \A r \in rows : ~AroundHour(r, g)
        BY <1>2, <2>2, HoursReached
      <3>3. AnalysedAround(g)' = AnalysedAround(g)
        BY <1>3, <3>2 DEF AnalysedAround
      <3>4. SettledRight(g)
        BY <1>4
      <3>5. QED
        BY <1>3, <3>1, <3>3, <3>4 DEF SettledRight
    <2>3. QED
      BY <2>1, <2>2
  <1>8. QED
    BY <1>3, <1>4, <1>6, <1>7 DEF HoursInv

LEMMA HoursStep ==
  ASSUME HoursInv, IntakeInv, ContextInv, [AnalysisNext]_analysisVars
  PROVE  HoursInv'
  <1>1. CASE UNCHANGED <<analysed, hours, httpCases>>
    BY <1>1 DEF HoursInv, SettledRight, AnalysedAround
  <1>2. CASE HttpTakeIn
    BY <1>2, HoursTaken
  <1>3. CASE AnalyseHour
    BY <1>3, HoursAnalysed
  <1>4. CASE Elapse \/ (\E r \in HttpRecords : Insert(r)) \/ PruneContext \/ TickFails \/ UNCHANGED analysisVars
    <2>1. UNCHANGED <<analysed, hours, httpCases>>
      BY <1>4 DEF Elapse, Insert, PruneContext, TickFails, analysisVars
    <2>2. QED
      BY <1>1, <2>1
  <1>5. QED
    BY <1>2, <1>3, <1>4 DEF AnalysisNext, WorkerStep

LEMMA CasesStep ==
  ASSUME CasesInv, ContextInv, [AnalysisNext]_analysisVars
  PROVE  CasesInv'
  <1>1. CASE UNCHANGED <<httpCases, history, membership>>
    BY <1>1 DEF CasesInv
  <1>2. CASE AnalyseHour
    BY <1>2, CasesAnalysed DEF ContextInv
  <1>3. CASE \/ Elapse \/ (\E r \in HttpRecords : Insert(r)) \/ HttpTakeIn \/ PruneContext \/ TickFails
             \/ UNCHANGED analysisVars
    <2>1. UNCHANGED <<httpCases, history, membership>>
      BY <1>3 DEF Elapse, Insert, HttpTakeIn, PruneContext, TickFails, analysisVars
    <2>2. QED
      BY <1>1, <2>1
  <1>4. QED
    BY <1>2, <1>3 DEF AnalysisNext, WorkerStep

LEMMA AnalysisStarts ==
  ASSUME AnalysisInit
  PROVE  AnalysisInv
  <1>1. IntakeInv
    <2>1. clock = 0 /\ httpReceived = <<>> /\ httpTaken = 0 /\ httpMissing = 0 /\ analysed = {}
      BY DEF AnalysisInit
    <2>2. Len(httpReceived) = 0 /\ httpReceived \in Seq(HttpRecords)
      BY <2>1
    <2>3. Cardinality(analysed) = 0 /\ IsFiniteSet(analysed)
      BY <2>1, FS_EmptySet
    <2>4. IntakeTyped /\ ReceivedOnce
      BY <2>1, <2>2 DEF IntakeTyped, ReceivedOnce
    <2>5. AnalysedReceived /\ NothingUncounted
      BY <2>1, <2>3 DEF AnalysedReceived, NothingUncounted
    <2>6. QED
      BY <2>4, <2>5 DEF IntakeInv
  <1>2. ContextInv
    BY DEF AnalysisInit, Sleeping, ContextInv, ContextTyped, LeftContext, TickStates
  <1>3. NoHttpCase \in CaseRecords /\ NoHttpCase.evidence = {} /\ NoHttpCase.revision = 0
    BY DEF NoHttpCase, CaseRecords
  <1>4. HoursInv
    <2>1. PICK st : st = [dirty |-> FALSE, coverage |-> "none"]
      OBVIOUS
    <2>2. st \in HourStates /\ st.coverage # "complete"
      BY <2>1 DEF HourStates
    <2>3. hours = [h \in HttpHours |-> st] /\ httpCases = [h \in HttpHours |-> NoHttpCase]
      BY <2>1 DEF AnalysisInit
    <2>4. \A h \in HttpHours : hours[h].coverage # "complete"
      BY <2>2, <2>3
    <2>5. QED
      BY <1>3, <2>2, <2>3, <2>4 DEF HoursInv, SettledRight
  <1>5. CasesInv
    <2>1. PICK c \in CaseRecords : c = NoHttpCase /\ c.evidence = {} /\ c.revision = 0
      BY <1>3
    <2>a. <<>> \in Seq(CaseRecords) /\ Len(<<>>) = 0
      OBVIOUS
    <2>2. PICK hs \in Seq(CaseRecords) : hs = <<>> /\ Len(hs) = 0
      BY <2>a
    <2>3. PICK ms \in SUBSET Intervals : ms = {}
      OBVIOUS
    <2>4. CaseSound(c, hs, ms)
      BY <2>1, <2>2, <2>3 DEF CaseSound
    <2>5. /\ httpCases = [h \in HttpHours |-> c] /\ history = [h \in HttpHours |-> hs]
          /\ membership = [h \in HttpHours |-> ms]
      BY <2>1, <2>2, <2>3 DEF AnalysisInit
    <2>6. QED
      BY <2>4, <2>5 DEF CasesInv
  <1>6. QED
    BY <1>1, <1>2, <1>4, <1>5 DEF AnalysisInv

LEMMA AnalysisHolds ==
  ASSUME AnalysisInv
  PROVE  HttpCasesAreTrue
  <1>1. NothingUncounted
    BY DEF AnalysisInv, IntakeInv
  <1>2. RevisionsReproduce
    <2>1. SUFFICES ASSUME NEW h \in HttpHours, NEW k \in DOMAIN history[h]
                   PROVE  {m.event : m \in {m \in membership[h] : m.from =< k /\ (m.to = 0 \/ m.to >= k)}}
                            = history[h][k].evidence
      BY DEF RevisionsReproduce
    <2>2. history[h] \in Seq(CaseRecords) /\ CaseSound(httpCases[h], history[h], membership[h])
      BY DEF AnalysisInv, CasesInv
    <2>3. k \in 1..Len(history[h])
      BY <2>2
    <2>4. \A e : e \in history[h][k].evidence <=>
            \E m \in membership[h] : m.event = e /\ m.from =< k /\ (m.to = 0 \/ m.to >= k)
      BY <2>2, <2>3 DEF CaseSound
    <2>5. QED
      BY <2>4
  <1>3. CompleteCasesAreRight
    <2>1. SUFFICES ASSUME NEW h \in HttpHours, hours[h].coverage = "complete", ~hours[h].dirty
                   PROVE  httpCases[h].evidence
                            = UNION {f.evidence : f \in {f \in DetectWeb(AnalysedAround(h)) :
                                                           \E s \in f.evidence : InHour(s, h)}}
      BY DEF CompleteCasesAreRight, AnalysedAround, AroundHour
    <2>2. httpCases[h].evidence = Verdict(AnalysedAround(h), h).evidence
      BY <2>1 DEF AnalysisInv, HoursInv, SettledRight
    <2>3. AnalysedAround(h) \in SUBSET HttpRecords
      BY DEF AnalysisInv, ContextInv, ContextTyped, AnalysedAround
    <2>4. QED
      BY <2>2, <2>3, VerdictIs
  <1>4. StaleNeverClears
    <2>1. SUFFICES ASSUME NEW h \in HttpHours, NEW k \in 2..Len(history[h]), history[h][k].stale
                   PROVE  /\ history[h][k - 1].active = history[h][k].active
                          /\ history[h][k - 1].evidence = history[h][k].evidence
      BY DEF StaleNeverClears
    <2>2. CaseSound(httpCases[h], history[h], membership[h])
      BY DEF AnalysisInv, CasesInv
    <2>3. QED
      BY <2>1, <2>2 DEF CaseSound
  <1>5. QED
    BY <1>1, <1>2, <1>3, <1>4 DEF HttpCasesAreTrue

(* Whatever the records, their times and the rules, and whenever they      *)
(* arrive, expire, or the worker fails (intake, analyze_window, _save_case *)
(* and the retention of http_incidents.py): every record the cursor passed *)
(* is analysed or counted as missing; the intervals give back the evidence *)
(* of every revision; a settled, complete hour was judged by all the       *)
(* records that were ever analysed around it; a stale revision clears      *)
(* nothing.                                                                *)
THEOREM HttpAnalysisSound == AnalysisSpec => []HttpCasesAreTrue
  <1>1. AnalysisInit => AnalysisInv
    BY AnalysisStarts
  <1>2. AnalysisInv /\ [AnalysisNext]_analysisVars => AnalysisInv'
    BY IntakeStep, ContextStep, HoursStep, CasesStep DEF AnalysisInv
  <1>3. AnalysisInv => HttpCasesAreTrue
    BY AnalysisHolds
  <1>4. QED
    BY <1>1, <1>2, <1>3, PTL DEF AnalysisSpec

-----------------------------------------------------------------------------
(* SocWorkflow: the groups of a batch, one for each dedup key.             *)
GroupRecords == UNION {{AlertGroups(b)[k] : k \in DOMAIN AlertGroups(b)} : b \in Batches}

LEMMA PlacesAre ==
  ASSUME NEW b \in Batches
  PROVE  /\ IsFiniteSet(AlertPlaces(b)) /\ Len(b) \in Nat /\ DOMAIN b = 1..Len(b)
         /\ \A p \in AlertPlaces(b) : p[1] \in DOMAIN b /\ p[1] \in Nat /\ p[2] \in Nat /\ p = <<p[1], p[2]>>
  <1>1. b \in Seq(ToSet(b)) /\ \A k \in DOMAIN b : b[k].alerts \in Seq(ToSet(b[k].alerts))
    BY SocWorkflowAssumption
  <1>2. Len(b) \in Nat /\ DOMAIN b = 1..Len(b)
    BY <1>1
  <1>3. PICK n \in Nat : n = Len(b) /\ DOMAIN b = 1..n
    BY <1>2
  <1>4. PICK parts : parts = [k \in 1..n |-> {k} \X DOMAIN b[k].alerts]
    OBVIOUS
  <1>5. \A k \in 1..n : IsFiniteSet(parts[k]) /\ DOMAIN b[k].alerts \in SUBSET Nat
    <2>1. SUFFICES ASSUME NEW k \in 1..n
                   PROVE  IsFiniteSet(parts[k]) /\ DOMAIN b[k].alerts \in SUBSET Nat
      OBVIOUS
    <2>2. PICK m \in Nat : DOMAIN b[k].alerts = 1..m
      BY <1>1, <1>3
    <2>3. IsFiniteSet(1..m) /\ IsFiniteSet({k})
      BY SizeOfInitial, FS_Singleton
    <2>4. IsFiniteSet({k} \X (1..m))
      BY <2>3, FS_Product
    <2>5. parts[k] = {k} \X (1..m)
      BY <1>4, <2>2
    <2>6. 1..m \in SUBSET Nat
      OBVIOUS
    <2>7. QED
      BY <2>2, <2>4, <2>5, <2>6
  <1>6. AlertPlaces(b) = UNION {parts[k] : k \in 1..n}
    BY <1>3, <1>4 DEF AlertPlaces
  <1>7. IsFiniteSet({parts[k] : k \in 1..n})
    <2>1. PICK T : T = {parts[k] : k \in 1..n}
      OBVIOUS
    <2>2. parts \in Surjection(1..n, T)
      BY <1>4, <2>1 DEF Surjection
    <2>3. IsFiniteSet(1..n)
      BY SizeOfInitial
    <2>4. QED
      BY <2>1, <2>2, <2>3, FS_Surjection
  <1>8. IsFiniteSet(AlertPlaces(b))
    <2>1. \A T \in {parts[k] : k \in 1..n} : IsFiniteSet(T)
      BY <1>5
    <2>2. QED
      BY <1>6, <1>7, <2>1, FS_UNION
  <1>9. ASSUME NEW p \in AlertPlaces(b)
        PROVE  p[1] \in DOMAIN b /\ p[1] \in Nat /\ p[2] \in Nat /\ p = <<p[1], p[2]>>
    <2>1. PICK k \in 1..n : p \in {k} \X DOMAIN b[k].alerts
      BY <1>4, <1>6
    <2>2. p[1] = k /\ p[2] \in DOMAIN b[k].alerts /\ p = <<p[1], p[2]>>
      BY <2>1
    <2>3. QED
      BY <1>3, <1>5, <2>2
  <1>10. QED
    BY <1>2, <1>8, <1>9

(* Every key has a first alert, and one only.                              *)
LEMMA FirstOfKey ==
  ASSUME NEW b \in Batches, NEW p \in AlertPlaces(b)
  PROVE  \E q \in Firsts(b) : AlertAt(b, q).key = AlertAt(b, p).key
  <1>1. PICK M : M = {q \in AlertPlaces(b) : AlertAt(b, q).key = AlertAt(b, p).key}
    OBVIOUS
  <1>2. \A q \in M : q \in AlertPlaces(b) /\ q[1] \in Nat /\ q[2] \in Nat
    BY <1>1, PlacesAre
  <1>3. PICK K : K = {q[1] : q \in M}
    OBVIOUS
  <1>4. PICK k \in K : \A j \in K : k =< j
    <2>1. K \in SUBSET Nat /\ K # {}
      BY <1>1, <1>2, <1>3
    <2>2. QED
      BY <2>1, LeastNat
  <1>5. PICK J : J = {q[2] : q \in {r \in M : r[1] = k}}
    OBVIOUS
  <1>6. PICK j \in J : \A i \in J : j =< i
    <2>1. J \in SUBSET Nat /\ J # {}
      BY <1>2, <1>3, <1>4, <1>5
    <2>2. QED
      BY <2>1, LeastNat
  <1>7. PICK q \in M : q[1] = k /\ q[2] = j
    BY <1>5, <1>6
  <1>8. ASSUME NEW r \in M
        PROVE  NotAfter(q, r)
    <2>1. k \in Nat /\ j \in Nat /\ r[1] \in Nat /\ r[2] \in Nat /\ k =< r[1]
      BY <1>2, <1>3, <1>4, <1>7
    <2>2. r[1] = k => j =< r[2]
      BY <1>5, <1>6
    <2>3. q[1] < r[1] \/ (q[1] = r[1] /\ q[2] =< r[2])
      BY <1>7, <2>1, <2>2
    <2>4. QED
      BY <2>3 DEF NotAfter
  <1>9. q \in AlertPlaces(b) /\ AlertAt(b, q).key = AlertAt(b, p).key
    BY <1>1
  <1>10. \A r \in AlertPlaces(b) : AlertAt(b, r).key = AlertAt(b, q).key => NotAfter(q, r)
    BY <1>1, <1>8, <1>9
  <1>11. QED
    BY <1>9, <1>10 DEF Firsts

LEMMA OrderOfPlaces ==
  ASSUME NEW b \in Batches, NEW p \in AlertPlaces(b), NEW q \in AlertPlaces(b)
  PROVE  /\ NotAfter(p, p) /\ (NotAfter(p, q) \/ NotAfter(q, p))
         /\ NotAfter(p, q) /\ NotAfter(q, p) => p = q
         /\ \A r \in AlertPlaces(b) : NotAfter(r, p) /\ NotAfter(p, q) => NotAfter(r, q)
  <1>1. p[1] \in Nat /\ p[2] \in Nat /\ q[1] \in Nat /\ q[2] \in Nat /\ p = <<p[1], p[2]>> /\ q = <<q[1], q[2]>>
    BY PlacesAre
  <1>2. NotAfter(p, p) /\ (NotAfter(p, q) \/ NotAfter(q, p))
    BY <1>1 DEF NotAfter
  <1>3. NotAfter(p, q) /\ NotAfter(q, p) => p = q
    <2>1. NotAfter(p, q) /\ NotAfter(q, p) => p[1] = q[1] /\ p[2] = q[2]
      BY <1>1 DEF NotAfter
    <2>2. QED
      BY <1>1, <2>1
  <1>4. ASSUME NEW r \in AlertPlaces(b), NotAfter(r, p), NotAfter(p, q)
        PROVE  NotAfter(r, q)
    <2>1. r[1] \in Nat /\ r[2] \in Nat
      BY PlacesAre
    <2>2. QED
      BY <1>1, <1>4, <2>1 DEF NotAfter
  <1>5. QED
    BY <1>2, <1>3, <1>4

(* The k-th first alert.                                                   *)
LEMMA FirstsInOrder ==
  ASSUME NEW b \in Batches
  PROVE  /\ Cardinality(Firsts(b)) \in Nat
         /\ \A k \in 1..Cardinality(Firsts(b)) : \E p \in Firsts(b) : Cardinality({q \in Firsts(b) : NotAfter(q, p)}) = k
         /\ \A p \in Firsts(b) : Cardinality({q \in Firsts(b) : NotAfter(q, p)}) \in 1..Cardinality(Firsts(b))
         /\ \A p, r \in Firsts(b) :
              Cardinality({q \in Firsts(b) : NotAfter(q, p)}) = Cardinality({q \in Firsts(b) : NotAfter(q, r)}) => p = r
  <1>1. PICK S : S = Firsts(b)
    OBVIOUS
  <1>2. S \in SUBSET AlertPlaces(b) /\ IsFiniteSet(S)
    <2>1. S \in SUBSET AlertPlaces(b)
      BY <1>1 DEF Firsts
    <2>2. QED
      BY <2>1, PlacesAre, FS_Subset
  <1>3. PICK n \in Nat : n = Cardinality(S)
    BY <1>2, FS_CardinalityType
  <1>4. PICK f : f = [s \in S |-> Cardinality({t \in S : NotAfter(t, s)})]
    OBVIOUS
  <1>5. ASSUME NEW s \in S
        PROVE  f[s] \in 1..n
    <2>1. PICK T : T = {t \in S : NotAfter(t, s)}
      OBVIOUS
    <2>2. NotAfter(s, s)
      BY <1>2, OrderOfPlaces
    <2>3. T \in SUBSET S /\ s \in T
      BY <2>1, <2>2
    <2>4. IsFiniteSet(T) /\ Cardinality(T) =< n /\ Cardinality(T) \in Nat
      BY <1>2, <1>3, <2>3, FS_Subset, FS_CardinalityType
    <2>5. Cardinality(T) # 0
      BY <2>3, <2>4, FS_EmptySet
    <2>6. QED
      BY <1>4, <2>1, <2>4, <2>5
  <1>6. f \in [S -> 1..n]
    BY <1>4, <1>5
  <1>7. ASSUME NEW s \in S, NEW u \in S, ~NotAfter(u, s)
        PROVE  f[s] < f[u]
    <2>1. PICK T : T = {t \in S : NotAfter(t, s)}
      OBVIOUS
    <2>2. PICK U : U = {t \in S : NotAfter(t, u)}
      OBVIOUS
    <2>3. NotAfter(u, u) /\ NotAfter(s, u)
      BY <1>2, <1>7, OrderOfPlaces
    <2>4. \A t \in S : NotAfter(t, s) => NotAfter(t, u)
      BY <1>2, <2>3, OrderOfPlaces
    <2>5. T \in SUBSET U /\ u \in U /\ u \notin T
      BY <1>7, <2>1, <2>2, <2>3, <2>4
    <2>6. IsFiniteSet(U)
      BY <1>2, <2>2, FS_Subset
    <2>7. Cardinality(T) < Cardinality(U)
      BY <2>5, <2>6, ProperSubset
    <2>8. QED
      BY <1>4, <2>1, <2>2, <2>7
  <1>8. \A s, u \in S : f[s] = f[u] => s = u
    <2>1. SUFFICES ASSUME NEW s \in S, NEW u \in S, f[s] = f[u]
                   PROVE  s = u
      OBVIOUS
    <2>2. f[s] \in Nat /\ f[u] \in Nat
      BY <1>6
    <2>3. NotAfter(u, s) /\ NotAfter(s, u)
      BY <1>7, <2>1, <2>2
    <2>4. QED
      BY <1>2, <2>3, OrderOfPlaces
  <1>9. \A k \in 1..n : \E s \in S : f[s] = k
    <2>1. f \in Injection(S, 1..n)
      BY <1>6, <1>8 DEF Injection, IsInjective
    <2>2. IsFiniteSet(1..n) /\ Cardinality(1..n) = n
      BY SizeOfInitial
    <2>3. f \in Surjection(S, 1..n)
      BY <1>3, <2>1, <2>2, FS_Injection
    <2>4. QED
      BY <2>3 DEF Surjection
  <1>10. /\ \A k \in 1..n : \E p \in S : Cardinality({q \in S : NotAfter(q, p)}) = k
         /\ \A p \in S : Cardinality({q \in S : NotAfter(q, p)}) \in 1..n
         /\ \A p, r \in S : Cardinality({q \in S : NotAfter(q, p)}) = Cardinality({q \in S : NotAfter(q, r)}) => p = r
    BY <1>4, <1>5, <1>8, <1>9
  <1>11. QED
    BY <1>1, <1>3, <1>10

LEMMA GroupIs ==
  ASSUME NEW b, NEW key
  PROVE  /\ Group(b, key).key = key
         /\ Group(b, key).evidence = {p[1] : p \in {p \in AlertPlaces(b) : AlertAt(b, p).key = key}}
  BY DEF Group

LEMMA AlertGroupsAre ==
  ASSUME NEW b \in Batches
  PROVE  /\ AlertGroups(b) \in Seq(GroupRecords)
         /\ \A i, j \in 1..Len(AlertGroups(b)) : i # j => AlertGroups(b)[i].key # AlertGroups(b)[j].key
         /\ \A i \in 1..Len(AlertGroups(b)) : \E p \in AlertPlaces(b) : AlertGroups(b)[i].key = AlertAt(b, p).key
         /\ \A p \in AlertPlaces(b) : \E i \in 1..Len(AlertGroups(b)) : AlertGroups(b)[i].key = AlertAt(b, p).key
         /\ \A i \in 1..Len(AlertGroups(b)) : AlertGroups(b)[i].evidence \subseteq DOMAIN b
  <1>1. PICK gs : gs = AlertGroups(b)
    OBVIOUS
  <1>2. PICK n \in Nat : n = Cardinality(Firsts(b))
    BY FirstsInOrder
  <1>3. PICK first : first = [k \in 1..n |-> CHOOSE p \in Firsts(b) : Cardinality({q \in Firsts(b) : NotAfter(q, p)}) = k]
    OBVIOUS
  <1>4. \A k \in 1..n : first[k] \in Firsts(b) /\ Cardinality({q \in Firsts(b) : NotAfter(q, first[k])}) = k
    <2>1. SUFFICES ASSUME NEW k \in 1..n
                   PROVE  first[k] \in Firsts(b) /\ Cardinality({q \in Firsts(b) : NotAfter(q, first[k])}) = k
      OBVIOUS
    <2>2. \E p \in Firsts(b) : Cardinality({q \in Firsts(b) : NotAfter(q, p)}) = k
      BY <1>2, FirstsInOrder
    <2>3. first[k] = CHOOSE p \in Firsts(b) : Cardinality({q \in Firsts(b) : NotAfter(q, p)}) = k
      BY <1>3
    <2>4. QED
      BY <2>2, <2>3
  <1>5. gs = [k \in 1..n |-> Group(b, AlertAt(b, first[k]).key)]
    BY <1>1, <1>2, <1>3 DEF AlertGroups
  <1>6. \A k \in 1..n : gs[k] \in GroupRecords
    <2>1. DOMAIN gs = 1..n
      BY <1>5
    <2>2. \A k \in DOMAIN AlertGroups(b) : AlertGroups(b)[k] \in GroupRecords
      BY DEF GroupRecords
    <2>3. QED
      BY <1>1, <2>1, <2>2
  <1>7. gs \in Seq(GroupRecords) /\ Len(gs) = n
    <2>1. gs \in [1..n -> GroupRecords]
      BY <1>5, <1>6
    <2>2. QED
      BY <2>1
  <1>8. \A k \in 1..n : gs[k].key = AlertAt(b, first[k]).key
    BY <1>5, GroupIs
  <1>9. Firsts(b) \in SUBSET AlertPlaces(b)
    BY DEF Firsts
  <1>10. \A i, j \in 1..n : i # j => gs[i].key # gs[j].key
    <2>1. SUFFICES ASSUME NEW i \in 1..n, NEW j \in 1..n, gs[i].key = gs[j].key
                   PROVE  i = j
      OBVIOUS
    <2>2. PICK p \in Firsts(b), q \in Firsts(b) : p = first[i] /\ q = first[j] /\ AlertAt(b, p).key = AlertAt(b, q).key
      BY <1>4, <1>8, <2>1
    <2>3. NotAfter(p, q) /\ NotAfter(q, p)
      BY <2>2 DEF Firsts
    <2>4. p = q
      BY <1>9, <2>3, OrderOfPlaces
    <2>5. QED
      BY <1>4, <2>2, <2>4
  <1>11. \A i \in 1..n : \E p \in AlertPlaces(b) : gs[i].key = AlertAt(b, p).key
    BY <1>4, <1>8, <1>9
  <1>12. ASSUME NEW p \in AlertPlaces(b)
         PROVE  \E i \in 1..n : gs[i].key = AlertAt(b, p).key
    <2>1. PICK q \in Firsts(b) : AlertAt(b, q).key = AlertAt(b, p).key
      BY FirstOfKey
    <2>2. PICK i \in 1..n : i = Cardinality({r \in Firsts(b) : NotAfter(r, q)})
      BY <1>2, FirstsInOrder
    <2>3. first[i] = q
      BY <1>4, <2>2, FirstsInOrder
    <2>4. QED
      BY <1>8, <2>1, <2>3
  <1>13. \A i \in 1..n : gs[i].evidence \subseteq DOMAIN b
    <2>1. SUFFICES ASSUME NEW i \in 1..n
                   PROVE  gs[i].evidence \subseteq DOMAIN b
      OBVIOUS
    <2>2. PICK key : gs[i] = Group(b, key)
      BY <1>5
    <2>3. Group(b, key).evidence = {p[1] : p \in {p \in AlertPlaces(b) : AlertAt(b, p).key = key}}
      BY GroupIs
    <2>4. QED
      BY <2>2, <2>3, PlacesAre
  <1>14. QED
    BY <1>1, <1>7, <1>10, <1>11, <1>12, <1>13

(* The inductive invariant.  What a flow must record is in the chain or    *)
(* among the entries its handler still has to record, and never twice.     *)
EventKinds == {"flow.started", "task.started", "step.ran", "tool.called", "agent.run", "plan.created",
               "policy.decision", "flow.status_changed"}
Abouts == {0} \cup {g.key : g \in GroupRecords}
EventRecords == [kind : EventKinds, about : Abouts]
EntryRecords == [id : Nat, kind : EventKinds, flow : Nat, about : Abouts, prev : Nat]
FlowRecords == [status : {"running", "completed", "waiting_for_approval"}, batch : Batches]
HandlerRecords ==
  [at : {"idle", "ingest", "groups", "map", "plan"}, flow : Nat, groups : Seq(GroupRecords),
   events : Seq(EventRecords), step : {"none", "prev", "number", "append"}, prev : Nat, waiting : BOOLEAN]

Has(sv, f, kind, x) == \E o \in sv : o.flow = f /\ o.kind = kind /\ o.about = x
Tells(e, f, kind, x) == e.flow = f /\ e.kind = kind /\ e.about = x

Never(ch, ev, f, kind, x) ==
  (\A k \in 1..Len(ch) : ~Tells(ch[k], f, kind, x)) /\ (\A i \in 1..Len(ev) : ev[i] # Event(kind, x))
Once(ch, ev, f, kind, x) ==
  \/ /\ \E k \in 1..Len(ch) : Tells(ch[k], f, kind, x) /\ \A j \in 1..Len(ch) : Tells(ch[j], f, kind, x) => j = k
     /\ \A i \in 1..Len(ev) : ev[i] # Event(kind, x)
  \/ /\ \A k \in 1..Len(ch) : ~Tells(ch[k], f, kind, x)
     /\ \E i \in 1..Len(ev) : ev[i] = Event(kind, x) /\ \A j \in 1..Len(ev) : ev[j] = Event(kind, x) => j = i
InOrder(ch, ev, f, x) ==
  \/ \E j, k \in 1..Len(ch) : j < k /\ Tells(ch[j], f, "plan.created", x) /\ Tells(ch[k], f, "policy.decision", x)
  \/ \E j \in 1..Len(ch), i \in 1..Len(ev) :
       Tells(ch[j], f, "plan.created", x) /\ ev[i] = Event("policy.decision", x)
  \/ \E i, j \in 1..Len(ev) : i < j /\ ev[i] = Event("plan.created", x) /\ ev[j] = Event("policy.decision", x)

(* What is saved and recorded of a flow agrees, at any time.               *)
Whole(f, ev, ch, sv) ==
  /\ \A x : Has(sv, f, "group", x) <=> \E o \in sv : o.flow = f /\ o.kind = "alert" /\ x \in o.with
  /\ \A x : Has(sv, f, "agent_run", x) => Once(ch, ev, f, "agent.run", x)
  /\ \A x : ~Has(sv, f, "agent_run", x) => Never(ch, ev, f, "agent.run", x)
  /\ \A o \in sv : o.flow = f /\ o.kind = "incident" =>
       o.with # {} /\ \A x \in o.with : Has(sv, f, "evidence", x)
  /\ \A x : Has(sv, f, "plan", x) => InOrder(ch, ev, f, x)

(* The groups that are left have other keys than those triaged.            *)
Ahead(at, f, gs, sv) ==
  /\ \A i, j \in 1..Len(gs) : i # j => gs[i].key # gs[j].key
  /\ \A x : Has(sv, f, "group", x) => Has(sv, f, "agent_run", x) \/ \E i \in 1..Len(gs) : gs[i].key = x
  /\ at = "groups" => \A i \in 1..Len(gs) : ~Has(sv, f, "agent_run", gs[i].key)
  /\ at \in {"map", "plan"} => /\ Len(gs) > 0 /\ Has(sv, f, "agent_run", gs[1].key)
                               /\ \A i \in 2..Len(gs) : ~Has(sv, f, "agent_run", gs[i].key)
  /\ \A i \in 1..Len(gs) : \A x \in gs[i].evidence : Has(sv, f, "evidence", x)

EndsRight(f, status, sv) ==
  /\ \A x : Has(sv, f, "group", x) => Has(sv, f, "agent_run", x)
  /\ status = "waiting_for_approval" <=> \E x : Has(sv, f, "plan", x)

Progress(c, status, sv) ==
  /\ c.at = "ingest" => status = "running" /\ c.waiting = FALSE /\ \A o \in sv : o.flow # c.flow
  /\ c.at \in {"groups", "map", "plan"} =>
       /\ status = "running" /\ (c.waiting = TRUE <=> \E x : Has(sv, c.flow, "plan", x))
       /\ Ahead(c.at, c.flow, c.groups, sv)
  /\ c.at = "idle" => status # "running" /\ EndsRight(c.flow, status, sv)

HandlerInv(c, fl, ch, sv) ==
  /\ c.flow \in 0..Len(fl) /\ (c.step \in {"number", "append"} => Len(c.events) > 0)
  /\ c.flow = 0 => c.at = "idle" /\ Len(c.events) = 0
  /\ c.flow # 0 => Whole(c.flow, c.events, ch, sv) /\ Progress(c, fl[c.flow].status, sv)
FlowInv(f, fl, ch, sv) ==
  fl[f].status # "running" => Whole(f, <<>>, ch, sv) /\ EndsRight(f, fl[f].status, sv)

SocTyped ==
  /\ chain \in Seq(EntryRecords) /\ counter \in Nat /\ flows \in Seq(FlowRecords)
  /\ handler \in [Handlers -> HandlerRecords]
  /\ \A o \in saved : o.flow \in 1..Len(flows)
  /\ \A k \in 1..Len(chain) : chain[k].flow \in 1..Len(flows)
OwnFlows ==
  \A g, h \in Handlers : g # h /\ handler[g].flow = handler[h].flow => handler[g].flow = 0
SocInv ==
  /\ SocTyped /\ OwnFlows
  /\ \A h \in Handlers : HandlerInv(handler[h], flows, chain, saved)
  /\ \A f \in 1..Len(flows) : (\A h \in Handlers : handler[h].flow # f) => FlowInv(f, flows, chain, saved)

(* Steps of another flow's handler.                                        *)
SameObjects(f, sv, after) == \A o : o.flow = f => (o \in sv <=> o \in after)

LEMMA HasSame ==
  ASSUME NEW f, NEW sv, NEW after, SameObjects(f, sv, after), NEW kind, NEW x
  PROVE  Has(sv, f, kind, x) <=> Has(after, f, kind, x)
  BY DEF SameObjects, Has

(* An entry that tells something else changes neither.                     *)
LEMMA OtherEntry ==
  ASSUME NEW ch \in Seq(EntryRecords), NEW e \in EntryRecords, NEW ev, NEW f, NEW kind, NEW x,
         ~Tells(e, f, kind, x)
  PROVE  /\ Never(ch, ev, f, kind, x) => Never(Append(ch, e), ev, f, kind, x)
         /\ Once(ch, ev, f, kind, x) => Once(Append(ch, e), ev, f, kind, x)
  <1>1. PICK l \in Nat : l = Len(ch)
    OBVIOUS
  <1>2. PICK t : t = Append(ch, e)
    OBVIOUS
  <1>3. Len(t) = l + 1 /\ t[l + 1] = e /\ \A k \in 1..l : t[k] = ch[k]
    BY <1>1, <1>2
  <1>4. \A k \in 1..Len(t) : k \in 1..l \/ k = l + 1
    BY <1>3
  <1>5. \A k \in 1..l : k \in 1..Len(t)
    BY <1>3
  <1>6. \A k \in 1..Len(t) : Tells(t[k], f, kind, x) => k \in 1..l /\ Tells(ch[k], f, kind, x)
    BY <1>3, <1>4
  <1>7. \A k \in 1..l : Tells(ch[k], f, kind, x) => Tells(t[k], f, kind, x)
    BY <1>3
  <1>8. Never(ch, ev, f, kind, x) => Never(t, ev, f, kind, x)
    BY <1>1, <1>6 DEF Never
  <1>9. ASSUME Once(ch, ev, f, kind, x)
        PROVE  Once(t, ev, f, kind, x)
    <2>1. CASE /\ \E k \in 1..l : Tells(ch[k], f, kind, x) /\ \A j \in 1..l : Tells(ch[j], f, kind, x) => j = k
               /\ \A i \in 1..Len(ev) : ev[i] # Event(kind, x)
      <3>1. PICK k \in 1..l : Tells(ch[k], f, kind, x) /\ \A j \in 1..l : Tells(ch[j], f, kind, x) => j = k
        BY <2>1
      <3>2. k \in 1..Len(t) /\ Tells(t[k], f, kind, x)
        BY <1>5, <1>7, <3>1
      <3>3. \A j \in 1..Len(t) : Tells(t[j], f, kind, x) => j = k
        BY <1>6, <3>1
      <3>4. QED
        BY <2>1, <3>2, <3>3 DEF Once
    <2>2. CASE /\ \A k \in 1..l : ~Tells(ch[k], f, kind, x)
               /\ \E i \in 1..Len(ev) : ev[i] = Event(kind, x) /\ \A j \in 1..Len(ev) : ev[j] = Event(kind, x) => j = i
      <3>1. \A k \in 1..Len(t) : ~Tells(t[k], f, kind, x)
        BY <1>6, <2>2
      <3>2. QED
        BY <2>2, <3>1 DEF Once
    <2>3. QED
      BY <1>1, <1>9, <2>1, <2>2 DEF Once
  <1>10. QED
    BY <1>2, <1>8, <1>9

LEMMA OrderKept ==
  ASSUME NEW ch \in Seq(EntryRecords), NEW e \in EntryRecords, NEW ev, NEW f, NEW x, InOrder(ch, ev, f, x)
  PROVE  InOrder(Append(ch, e), ev, f, x)
  <1>1. PICK l \in Nat : l = Len(ch)
    OBVIOUS
  <1>2. PICK t : t = Append(ch, e)
    OBVIOUS
  <1>3. \A k \in 1..l : t[k] = ch[k] /\ k \in 1..Len(t)
    BY <1>1, <1>2
  <1>4. InOrder(t, ev, f, x)
    BY <1>1, <1>3 DEF InOrder
  <1>5. QED
    BY <1>2, <1>4

LEMMA WholeElsewhere ==
  ASSUME NEW f, NEW ev, NEW ch \in Seq(EntryRecords), NEW sv, NEW after, SameObjects(f, sv, after),
         NEW longer, longer = ch \/ \E e \in EntryRecords : e.flow # f /\ longer = Append(ch, e),
         Whole(f, ev, ch, sv)
  PROVE  Whole(f, ev, longer, after)
  <1>1. \A kind, x : Has(sv, f, kind, x) <=> Has(after, f, kind, x)
    BY HasSame
  <1>2. \A o : o.flow = f => (o \in sv <=> o \in after)
    BY DEF SameObjects
  <1>3. \A x : (Never(ch, ev, f, "agent.run", x) => Never(longer, ev, f, "agent.run", x))
               /\ (Once(ch, ev, f, "agent.run", x) => Once(longer, ev, f, "agent.run", x))
               /\ (InOrder(ch, ev, f, x) => InOrder(longer, ev, f, x))
    <2>1. CASE longer = ch
      BY <2>1
    <2>2. CASE \E e \in EntryRecords : e.flow # f /\ longer = Append(ch, e)
      <3>1. PICK e \in EntryRecords : e.flow # f /\ longer = Append(ch, e)
        BY <2>2
      <3>2. \A x : ~Tells(e, f, "agent.run", x)
        BY <3>1 DEF Tells
      <3>3. \A x : (Never(ch, ev, f, "agent.run", x) => Never(Append(ch, e), ev, f, "agent.run", x))
                   /\ (Once(ch, ev, f, "agent.run", x) => Once(Append(ch, e), ev, f, "agent.run", x))
        BY <3>2, OtherEntry
      <3>4. \A x : InOrder(ch, ev, f, x) => InOrder(Append(ch, e), ev, f, x)
        BY OrderKept
      <3>5. QED
        BY <3>1, <3>3, <3>4
    <2>3. QED
      BY <2>1, <2>2
  <1>4. \A x : Has(after, f, "group", x) <=> \E o \in after : o.flow = f /\ o.kind = "alert" /\ x \in o.with
    BY <1>1, <1>2 DEF Whole
  <1>5. \A x : Has(after, f, "agent_run", x) => Once(longer, ev, f, "agent.run", x)
    BY <1>1, <1>3 DEF Whole
  <1>6. \A x : ~Has(after, f, "agent_run", x) => Never(longer, ev, f, "agent.run", x)
    BY <1>1, <1>3 DEF Whole
  <1>7. \A o \in after : o.flow = f /\ o.kind = "incident" =>
          o.with # {} /\ \A x \in o.with : Has(after, f, "evidence", x)
    BY <1>1, <1>2 DEF Whole
  <1>8. \A x : Has(after, f, "plan", x) => InOrder(longer, ev, f, x)
    BY <1>1, <1>3 DEF Whole
  <1>9. QED
    BY <1>4, <1>5, <1>6, <1>7, <1>8 DEF Whole

LEMMA EndsElsewhere ==
  ASSUME NEW f, NEW sv, NEW after, SameObjects(f, sv, after), NEW status, EndsRight(f, status, sv)
  PROVE  EndsRight(f, status, after)
  <1>1. \A kind, x : Has(sv, f, kind, x) <=> Has(after, f, kind, x)
    BY HasSame
  <1>2. QED
    BY <1>1 DEF EndsRight

LEMMA ProgressElsewhere ==
  ASSUME NEW c, NEW sv, NEW after, SameObjects(c.flow, sv, after), NEW status, Progress(c, status, sv)
  PROVE  Progress(c, status, after)
  <1>1. \A kind, x : Has(sv, c.flow, kind, x) <=> Has(after, c.flow, kind, x)
    BY HasSame
  <1>2. \A o \in after : o.flow = c.flow => o \in sv
    BY DEF SameObjects
  <1>3. c.at = "ingest" => status = "running" /\ c.waiting = FALSE /\ \A o \in after : o.flow # c.flow
    BY <1>2 DEF Progress
  <1>4. Ahead(c.at, c.flow, c.groups, sv) => Ahead(c.at, c.flow, c.groups, after)
    BY <1>1 DEF Ahead
  <1>5. c.at \in {"groups", "map", "plan"} =>
          /\ status = "running" /\ (c.waiting = TRUE <=> \E x : Has(after, c.flow, "plan", x))
          /\ Ahead(c.at, c.flow, c.groups, after)
    BY <1>1, <1>4 DEF Progress
  <1>6. c.at = "idle" => status # "running" /\ EndsRight(c.flow, status, after)
    BY EndsElsewhere DEF Progress
  <1>7. QED
    BY <1>3, <1>5, <1>6 DEF Progress

(* Recording an entry moves it from what is to come into the chain.        *)
LEMMA EntryMoves ==
  ASSUME NEW ch \in Seq(EntryRecords), NEW ev \in Seq(EventRecords), Len(ev) > 0, NEW f,
         NEW e \in EntryRecords, e.flow = f, e.kind = ev[1].kind, e.about = ev[1].about
  PROVE  /\ \A kind, x : /\ Never(ch, ev, f, kind, x) => Never(Append(ch, e), Tail(ev), f, kind, x)
                         /\ Once(ch, ev, f, kind, x) => Once(Append(ch, e), Tail(ev), f, kind, x)
         /\ \A x : InOrder(ch, ev, f, x) => InOrder(Append(ch, e), Tail(ev), f, x)
  <1>1. PICK l \in Nat, m \in Nat : l = Len(ch) /\ m = Len(ev) /\ m > 0
    OBVIOUS
  <1>2. PICK t : t = Append(ch, e)
    OBVIOUS
  <1>3. PICK v : v = Tail(ev)
    OBVIOUS
  <1>4. Len(t) = l + 1 /\ t[l + 1] = e /\ \A k \in 1..l : t[k] = ch[k]
    BY <1>1, <1>2
  <1>5. Len(v) = m - 1 /\ \A i \in 1..(m - 1) : v[i] = ev[i + 1]
    BY <1>1, <1>3
  <1>6. \A kind, x : Tells(e, f, kind, x) <=> ev[1] = Event(kind, x)
    <2>1. ev[1] \in EventRecords
      BY <1>1
    <2>2. QED
      BY <2>1 DEF Tells, Event, EventRecords
  <1>7. \A k \in 1..Len(t) : (k \in 1..l /\ t[k] = ch[k]) \/ (k = l + 1 /\ t[k] = e)
    BY <1>4
  <1>8. (\A k \in 1..l : k \in 1..Len(t)) /\ l + 1 \in 1..Len(t)
    BY <1>4
  <1>9. (\A i \in 1..Len(v) : i + 1 \in 2..m /\ v[i] = ev[i + 1]) /\ (\A i \in 2..m : i - 1 \in 1..Len(v) /\ v[i - 1] = ev[i])
    <2>1. \A i \in 1..Len(v) : i + 1 \in 2..m /\ v[i] = ev[i + 1]
      BY <1>5
    <2>2. \A i \in 2..m : i - 1 \in 1..(m - 1) /\ (i - 1) + 1 = i
      BY <1>1
    <2>3. \A i \in 2..m : i - 1 \in 1..Len(v) /\ v[i - 1] = ev[i]
      BY <1>5, <2>2
    <2>4. QED
      BY <2>1, <2>3
  <1>10. 1 \in 1..m /\ \A i \in 2..m : i \in 1..m /\ i # 1
    BY <1>1
  <1>11. ASSUME NEW kind, NEW x, Never(ch, ev, f, kind, x)
         PROVE  Never(t, v, f, kind, x)
    <2>1. (\A k \in 1..l : ~Tells(ch[k], f, kind, x)) /\ (\A i \in 1..m : ev[i] # Event(kind, x))
      BY <1>1, <1>11 DEF Never
    <2>2. ~Tells(e, f, kind, x)
      BY <1>6, <1>10, <2>1
    <2>3. \A k \in 1..Len(t) : ~Tells(t[k], f, kind, x)
      BY <1>7, <2>1, <2>2
    <2>4. \A i \in 1..Len(v) : v[i] # Event(kind, x)
      BY <1>9, <1>10, <2>1
    <2>5. QED
      BY <2>3, <2>4 DEF Never
  <1>12. ASSUME NEW kind, NEW x, Once(ch, ev, f, kind, x)
         PROVE  Once(t, v, f, kind, x)
    <2>1. CASE /\ \E k \in 1..l : Tells(ch[k], f, kind, x) /\ \A j \in 1..l : Tells(ch[j], f, kind, x) => j = k
               /\ \A i \in 1..m : ev[i] # Event(kind, x)
      <3>1. PICK k \in 1..l : Tells(ch[k], f, kind, x) /\ \A j \in 1..l : Tells(ch[j], f, kind, x) => j = k
        BY <2>1
      <3>2. ~Tells(e, f, kind, x)
        BY <1>6, <1>10, <2>1
      <3>3. k \in 1..Len(t) /\ Tells(t[k], f, kind, x)
        BY <1>4, <1>8, <3>1
      <3>4. \A j \in 1..Len(t) : Tells(t[j], f, kind, x) => j = k
        BY <1>7, <3>1, <3>2
      <3>a. \A i \in 1..m : ev[i] # Event(kind, x)
        BY <2>1
      <3>5. \A i \in 1..Len(v) : v[i] # Event(kind, x)
        BY <1>9, <1>10, <3>a
      <3>6. QED
        BY <3>3, <3>4, <3>5 DEF Once
    <2>2. CASE /\ \A k \in 1..l : ~Tells(ch[k], f, kind, x)
               /\ \E i \in 1..m : ev[i] = Event(kind, x) /\ \A j \in 1..m : ev[j] = Event(kind, x) => j = i
      <3>1. PICK i \in 1..m : ev[i] = Event(kind, x) /\ \A j \in 1..m : ev[j] = Event(kind, x) => j = i
        BY <2>2
      <3>2. CASE i = 1
        <4>1. Tells(e, f, kind, x)
          BY <1>6, <3>1, <3>2
        <4>2. l + 1 \in 1..Len(t) /\ Tells(t[l + 1], f, kind, x)
          BY <1>4, <1>8, <4>1
        <4>3. \A j \in 1..Len(t) : Tells(t[j], f, kind, x) => j = l + 1
          BY <1>7, <2>2
        <4>4. \A j \in 1..Len(v) : v[j] # Event(kind, x)
          BY <1>9, <1>10, <3>1, <3>2
        <4>5. QED
          BY <4>2, <4>3, <4>4 DEF Once
      <3>3. CASE i # 1
        <4>1. i \in 2..m
          BY <3>3
        <4>2. ~Tells(e, f, kind, x)
          BY <1>6, <1>10, <3>1, <3>3
        <4>3. \A k \in 1..Len(t) : ~Tells(t[k], f, kind, x)
          BY <1>7, <2>2, <4>2
        <4>4. i - 1 \in 1..Len(v) /\ v[i - 1] = Event(kind, x)
          BY <1>9, <3>1, <4>1
        <4>5. ASSUME NEW j \in 1..Len(v), v[j] = Event(kind, x)
              PROVE  j = i - 1
          <5>1. j + 1 \in 1..m /\ ev[j + 1] = Event(kind, x)
            BY <1>9, <1>10, <4>5
          <5>2. j + 1 = i
            BY <3>1, <5>1
          <5>3. j \in Nat
            BY <1>5
          <5>4. QED
            BY <5>2, <5>3
        <4>6. QED
          BY <4>3, <4>4, <4>5 DEF Once
      <3>4. QED
        BY <3>2, <3>3
    <2>3. QED
      BY <1>1, <1>12, <2>1, <2>2 DEF Once
  <1>13. ASSUME NEW x, InOrder(ch, ev, f, x)
         PROVE  InOrder(t, v, f, x)
    <2>1. CASE \E j, k \in 1..l : j < k /\ Tells(ch[j], f, "plan.created", x) /\ Tells(ch[k], f, "policy.decision", x)
      BY <1>4, <1>8, <2>1 DEF InOrder
    <2>2. CASE \E j \in 1..l, i \in 1..m : Tells(ch[j], f, "plan.created", x) /\ ev[i] = Event("policy.decision", x)
      <3>1. PICK j \in 1..l, i \in 1..m : Tells(ch[j], f, "plan.created", x) /\ ev[i] = Event("policy.decision", x)
        BY <2>2
      <3>2. j \in 1..Len(t) /\ Tells(t[j], f, "plan.created", x) /\ j < l + 1
        BY <1>4, <1>8, <3>1
      <3>3. CASE i = 1
        <4>1. l + 1 \in 1..Len(t) /\ Tells(t[l + 1], f, "policy.decision", x)
          BY <1>4, <1>6, <1>8, <3>1, <3>3
        <4>2. QED
          BY <3>2, <4>1 DEF InOrder
      <3>4. CASE i # 1
        <4>1. i \in 2..m
          BY <3>4
        <4>2. i - 1 \in 1..Len(v) /\ v[i - 1] = Event("policy.decision", x)
          BY <1>9, <3>1, <4>1
        <4>3. QED
          BY <3>2, <4>2 DEF InOrder
      <3>5. QED
        BY <3>3, <3>4
    <2>3. CASE \E i, j \in 1..m : i < j /\ ev[i] = Event("plan.created", x) /\ ev[j] = Event("policy.decision", x)
      <3>1. PICK i \in 1..m, j \in 1..m : i < j /\ ev[i] = Event("plan.created", x) /\ ev[j] = Event("policy.decision", x)
        BY <2>3
      <3>2. j \in 2..m
        BY <3>1
      <3>3. j - 1 \in 1..Len(v) /\ v[j - 1] = Event("policy.decision", x)
        BY <1>9, <3>1, <3>2
      <3>4. CASE i = 1
        <4>1. l + 1 \in 1..Len(t) /\ Tells(t[l + 1], f, "plan.created", x)
          BY <1>4, <1>6, <1>8, <3>1, <3>4
        <4>2. QED
          BY <3>3, <4>1 DEF InOrder
      <3>5. CASE i # 1
        <4>1. i \in 2..m
          BY <3>5
        <4>2. i - 1 \in 1..Len(v) /\ v[i - 1] = Event("plan.created", x)
          BY <1>9, <3>1, <4>1
        <4>3. i - 1 < j - 1
          BY <3>1
        <4>4. QED
          BY <3>3, <4>2, <4>3 DEF InOrder
      <3>6. QED
        BY <3>4, <3>5
    <2>4. QED
      BY <1>1, <1>13, <2>1, <2>2, <2>3 DEF InOrder
  <1>14. QED
    BY <1>2, <1>3, <1>11, <1>12, <1>13

(* A step of one handler: what remains to be shown is about its own flow.  *)
LEMMA SocOneStep ==
  ASSUME SocInv, NEW h \in Handlers, NEW d \in HandlerRecords, handler' = [handler EXCEPT ![h] = d],
         SocTyped', NEW f, d.flow = f \/ (d.flow = 0 /\ handler[h].flow = f),
         handler[h].flow = f \/ f = Len(flows) + 1,
         \A g \in 1..Len(flows) : g # f => flows'[g] = flows[g],
         Len(flows') >= Len(flows), \A g \in 1..Len(flows') : g \in 1..Len(flows) \/ g = f,
         \A g : g # f => SameObjects(g, saved, saved'),
         chain' = chain \/ \E e \in EntryRecords : e.flow = f /\ chain' = Append(chain, e),
         HandlerInv(d, flows', chain', saved'),
         handler[h].flow # d.flow /\ handler[h].flow # 0 => FlowInv(handler[h].flow, flows', chain', saved')
  PROVE  SocInv'
  <1>1. /\ handler \in [Handlers -> HandlerRecords] /\ Len(flows) \in Nat /\ Len(flows') \in Nat
        /\ chain \in Seq(EntryRecords)
    BY DEF SocInv, SocTyped
  <1>2. handler'[h] = d /\ \A g \in Handlers : g # h => handler'[g] = handler[g]
    BY <1>1
  <1>3. \A g \in Handlers : handler[g].flow \in 0..Len(flows)
    BY DEF SocInv, HandlerInv
  <1>4. \A g \in Handlers : g # h /\ handler[g].flow # 0 => handler[g].flow # f
    <2>1. SUFFICES ASSUME NEW g \in Handlers, g # h, handler[g].flow # 0, handler[g].flow = f
                   PROVE  FALSE
      OBVIOUS
    <2>2. CASE handler[h].flow = f
      BY <2>1, <2>2 DEF SocInv, OwnFlows
    <2>3. CASE f = Len(flows) + 1
      BY <1>1, <1>3, <2>1, <2>3
    <2>4. QED
      BY <2>2, <2>3
  <1>5. OwnFlows'
    <2>1. SUFFICES ASSUME NEW g \in Handlers, NEW k \in Handlers, g # k, handler'[g].flow = handler'[k].flow
                   PROVE  handler'[g].flow = 0
      BY DEF OwnFlows
    <2>2. CASE g # h /\ k # h
      BY <1>2, <2>1, <2>2 DEF SocInv, OwnFlows
    <2>3. CASE g = h
      <3>1. k # h /\ handler[k].flow = d.flow
        BY <1>2, <2>1, <2>3
      <3>2. d.flow = 0
        BY <1>4, <3>1
      <3>3. QED
        BY <1>2, <2>3, <3>2
    <2>4. CASE k = h
      <3>1. g # h /\ handler[g].flow = d.flow
        BY <1>2, <2>1, <2>4
      <3>2. d.flow = 0
        BY <1>4, <3>1
      <3>3. QED
        BY <1>2, <3>1, <3>2
    <2>5. QED
      BY <2>2, <2>3, <2>4
  <1>6. \A g : g # f => (chain' = chain \/ \E e \in EntryRecords : e.flow # g /\ chain' = Append(chain, e))
    OBVIOUS
  <1>7. ASSUME NEW g \in Handlers
        PROVE  HandlerInv(handler'[g], flows', chain', saved')
    <2>1. CASE g = h
      BY <1>2, <2>1
    <2>2. CASE g # h
      <3>1. PICK c : c = handler[g]
        OBVIOUS
      <3>2. handler'[g] = c /\ HandlerInv(c, flows, chain, saved)
        BY <1>2, <2>2, <3>1 DEF SocInv
      <3>3. c.flow \in 0..Len(flows')
        <4>1. c.flow \in 0..Len(flows)
          BY <1>3, <3>1
        <4>2. QED
          BY <1>1, <4>1
      <3>4. CASE c.flow = 0
        BY <3>2, <3>3, <3>4 DEF HandlerInv
      <3>5. CASE c.flow # 0
        <4>1. c.flow # f /\ c.flow \in 1..Len(flows)
          BY <1>1, <1>3, <1>4, <2>2, <3>1, <3>5
        <4>2. flows'[c.flow] = flows[c.flow] /\ SameObjects(c.flow, saved, saved')
          BY <4>1
        <4>3. Whole(c.flow, c.events, chain, saved) /\ Progress(c, flows[c.flow].status, saved)
          BY <3>2, <3>5 DEF HandlerInv
        <4>4. chain' = chain \/ \E e \in EntryRecords : e.flow # c.flow /\ chain' = Append(chain, e)
          BY <1>6, <4>1
        <4>5. Whole(c.flow, c.events, chain', saved')
          BY <1>1, <4>2, <4>3, <4>4, WholeElsewhere
        <4>6. Progress(c, flows[c.flow].status, saved')
          BY <4>2, <4>3, ProgressElsewhere
        <4>7. QED
          BY <3>2, <3>3, <3>5, <4>2, <4>5, <4>6 DEF HandlerInv
      <3>6. QED
        BY <3>4, <3>5
    <2>3. QED
      BY <2>1, <2>2
  <1>8. ASSUME NEW k \in 1..Len(flows'), \A g \in Handlers : handler'[g].flow # k
        PROVE  FlowInv(k, flows', chain', saved')
    <2>1. d.flow # k /\ k # 0
      BY <1>2, <1>8
    <2>2. CASE handler[h].flow = k
      BY <2>1, <2>2
    <2>3. CASE handler[h].flow # k
      <3>1. k # f
        BY <2>1, <2>3
      <3>2. k \in 1..Len(flows)
        BY <3>1
      <3>3. \A g \in Handlers : handler[g].flow # k
        BY <1>2, <1>8, <2>3
      <3>4. FlowInv(k, flows, chain, saved)
        BY <3>2, <3>3 DEF SocInv
      <3>5. flows'[k] = flows[k] /\ SameObjects(k, saved, saved')
        BY <3>1, <3>2
      <3>6. chain' = chain \/ \E e \in EntryRecords : e.flow # k /\ chain' = Append(chain, e)
        BY <1>6, <3>1
      <3>7. Whole(k, <<>>, chain, saved) => Whole(k, <<>>, chain', saved')
        BY <1>1, <3>5, <3>6, WholeElsewhere
      <3>8. EndsRight(k, flows[k].status, saved) => EndsRight(k, flows[k].status, saved')
        BY <3>5, EndsElsewhere
      <3>9. QED
        BY <3>4, <3>5, <3>7, <3>8 DEF FlowInv
    <2>4. QED
      BY <2>2, <2>3
  <1>9. QED
    BY <1>5, <1>7, <1>8 DEF SocInv

(* The entries of a stage.                                                 *)
Quiet(ev) == \A i \in 1..Len(ev) : ev[i].kind # "agent.run"

LEMMA EventIs ==
  ASSUME NEW kind, NEW x
  PROVE  /\ Event(kind, x).kind = kind /\ Event(kind, x).about = x
         /\ kind \in EventKinds /\ x \in Abouts => Event(kind, x) \in EventRecords
         /\ \A k, y : Event(kind, x) = Event(k, y) => k = kind /\ y = x
  BY DEF Event, EventRecords

LEMMA JoinedEvents ==
  ASSUME NEW s \in Seq(EventRecords), NEW t \in Seq(EventRecords)
  PROVE  /\ s \o t \in Seq(EventRecords) /\ Len(s \o t) = Len(s) + Len(t)
         /\ \A i \in 1..Len(s) : (s \o t)[i] = s[i]
         /\ \A i \in 1..Len(t) : (s \o t)[Len(s) + i] = t[i]
         /\ \A i \in 1..Len(s \o t) : i \in 1..Len(s) \/ (i - Len(s) \in 1..Len(t) /\ (s \o t)[i] = t[i - Len(s)])
  <1>1. PICK l \in Nat, m \in Nat : l = Len(s) /\ m = Len(t)
    OBVIOUS
  <1>2. PICK u : u = s \o t
    OBVIOUS
  <1>3. u \in Seq(EventRecords) /\ Len(u) = l + m
    BY <1>1, <1>2
  <1>4. \A i \in 1..l : u[i] = s[i]
    BY <1>1, <1>2
  <1>5. \A i \in 1..m : u[l + i] = t[i]
    BY <1>1, <1>2
  <1>6. \A i \in 1..Len(u) : i \in 1..l \/ (i - l \in 1..m /\ u[i] = t[i - l])
    <2>1. SUFFICES ASSUME NEW i \in 1..(l + m), i \notin 1..l
                   PROVE  i - l \in 1..m /\ u[i] = t[i - l]
      BY <1>3
    <2>2. PICK j \in Nat : j = i - l /\ j \in 1..m /\ i = l + j
      BY <2>1
    <2>3. u[l + j] = t[j]
      BY <1>5, <2>2
    <2>4. QED
      BY <2>2, <2>3
  <1>7. QED
    BY <1>1, <1>2, <1>3, <1>4, <1>5, <1>6

LEMMA QuietTogether ==
  ASSUME NEW s \in Seq(EventRecords), NEW t \in Seq(EventRecords), Quiet(s), Quiet(t)
  PROVE  Quiet(s \o t)
  <1>1. PICK u : u = s \o t
    OBVIOUS
  <1>2. \A i \in 1..Len(u) : i \in 1..Len(s) \/ (i - Len(s) \in 1..Len(t) /\ u[i] = t[i - Len(s)])
    BY <1>1, JoinedEvents
  <1>3. \A i \in 1..Len(s) : u[i] = s[i]
    BY <1>1, JoinedEvents
  <1>4. \A i \in 1..Len(u) : u[i].kind # "agent.run"
    BY <1>2, <1>3 DEF Quiet
  <1>5. QED
    BY <1>1, <1>4 DEF Quiet

LEMMA OneEvent ==
  ASSUME NEW e \in EventRecords
  PROVE  /\ <<e>> \in Seq(EventRecords) /\ Len(<<e>>) = 1 /\ <<e>>[1] = e
         /\ e.kind # "agent.run" => Quiet(<<e>>)
  <1>1. <<e>> \in Seq(EventRecords) /\ Len(<<e>>) = 1 /\ <<e>>[1] = e
    OBVIOUS
  <1>2. \A i \in 1..Len(<<e>>) : <<e>>[i] = e
    BY <1>1
  <1>3. QED
    BY <1>1, <1>2 DEF Quiet

LEMMA TracedCalled ==
  /\ Traced \in Seq(EventRecords) /\ Len(Traced) = 2 /\ Quiet(Traced)
  /\ Called \in Seq(EventRecords) /\ Len(Called) = 1 /\ Quiet(Called)
  /\ Quiet(<<>>) /\ <<>> \in Seq(EventRecords)
  <1>1. 0 \in Abouts
    BY DEF Abouts
  <1>2. /\ Event("task.started", 0) \in EventRecords /\ Event("task.started", 0).kind # "agent.run"
        /\ Event("step.ran", 0) \in EventRecords /\ Event("step.ran", 0).kind # "agent.run"
        /\ Event("tool.called", 0) \in EventRecords /\ Event("tool.called", 0).kind # "agent.run"
    BY <1>1 DEF Event, EventRecords, EventKinds
  <1>3. PICK b : b = Event("task.started", 0)
    OBVIOUS
  <1>4. PICK c : c = Event("step.ran", 0)
    OBVIOUS
  <1>5. PICK d : d = Event("tool.called", 0)
    OBVIOUS
  <1>6. /\ b \in EventRecords /\ c \in EventRecords /\ d \in EventRecords
        /\ b.kind # "agent.run" /\ c.kind # "agent.run" /\ d.kind # "agent.run"
    BY <1>2, <1>3, <1>4, <1>5
  <1>7. PICK t : t = <<b, c>>
    OBVIOUS
  <1>8. t \in Seq(EventRecords) /\ Len(t) = 2 /\ t[1] = b /\ t[2] = c
    BY <1>6, <1>7
  <1>9. \A i \in 1..Len(t) : i = 1 \/ i = 2
    BY <1>8
  <1>10. Quiet(t)
    BY <1>6, <1>8, <1>9 DEF Quiet
  <1>11. Traced = t
    BY <1>3, <1>4, <1>7 DEF Traced
  <1>12. Called = <<d>>
    BY <1>5 DEF Called
  <1>13. Called \in Seq(EventRecords) /\ Len(Called) = 1 /\ Quiet(Called)
    BY <1>6, <1>12, OneEvent
  <1>14. Quiet(<<>>) /\ <<>> \in Seq(EventRecords)
    <2>1. Len(<<>>) = 0 /\ \A i \in 1..Len(<<>>) : FALSE
      OBVIOUS
    <2>2. QED
      BY <2>1 DEF Quiet
  <1>15. QED
    BY <1>8, <1>10, <1>11, <1>13, <1>14

LEMMA StageEvents ==
  /\ Traced \o Called \in Seq(EventRecords) /\ Quiet(Traced \o Called)
  /\ Traced \o <<>> \in Seq(EventRecords) /\ Quiet(Traced \o <<>>)
  /\ <<Event("flow.started", 0)>> \o Traced \in Seq(EventRecords) /\ Quiet(<<Event("flow.started", 0)>> \o Traced)
  /\ <<Event("flow.status_changed", 0)>> \in Seq(EventRecords) /\ Quiet(<<Event("flow.status_changed", 0)>>)
  /\ Len(<<Event("flow.started", 0)>> \o Traced) > 0
  <1>1. 0 \in Abouts
    BY DEF Abouts
  <1>2. /\ Event("flow.started", 0) \in EventRecords /\ Event("flow.started", 0).kind # "agent.run"
        /\ Event("flow.status_changed", 0) \in EventRecords /\ Event("flow.status_changed", 0).kind # "agent.run"
    BY <1>1 DEF Event, EventRecords, EventKinds
  <1>3. PICK a : a = <<Event("flow.started", 0)>>
    OBVIOUS
  <1>4. PICK e : e = <<Event("flow.status_changed", 0)>>
    OBVIOUS
  <1>5. a \in Seq(EventRecords) /\ Quiet(a) /\ e \in Seq(EventRecords) /\ Quiet(e) /\ Len(a) = 1
    BY <1>2, <1>3, <1>4, OneEvent
  <1>6. Traced \o Called \in Seq(EventRecords) /\ Quiet(Traced \o Called)
    BY TracedCalled, JoinedEvents, QuietTogether
  <1>7. Traced \o <<>> \in Seq(EventRecords) /\ Quiet(Traced \o <<>>)
    BY TracedCalled, JoinedEvents, QuietTogether
  <1>8. a \o Traced \in Seq(EventRecords) /\ Quiet(a \o Traced) /\ Len(a \o Traced) > 0
    <2>1. Len(a \o Traced) = Len(a) + Len(Traced)
      BY <1>5, TracedCalled, JoinedEvents
    <2>2. QED
      BY <1>5, <2>1, TracedCalled, JoinedEvents, QuietTogether
  <1>9. QED
    BY <1>3, <1>4, <1>5, <1>6, <1>7, <1>8

LEMMA TriageEvents ==
  ASSUME NEW x \in Abouts, NEW ev, ev = Traced \o <<Event("agent.run", x)>> \o Called
  PROVE  /\ ev \in Seq(EventRecords) /\ 3 \in 1..Len(ev) /\ ev[3] = Event("agent.run", x)
         /\ \A i \in 1..Len(ev) : i # 3 => ev[i].kind # "agent.run"
  <1>1. Event("agent.run", x) \in EventRecords
    BY DEF Event, EventRecords, EventKinds
  <1>2. PICK e : e = Event("agent.run", x)
    OBVIOUS
  <1>3. PICK o : o = <<e>>
    OBVIOUS
  <1>4. PICK t \in Seq(EventRecords), c \in Seq(EventRecords) :
          t = Traced /\ c = Called /\ Len(t) = 2 /\ Len(c) = 1 /\ Quiet(t) /\ Quiet(c)
    BY TracedCalled
  <1>5. o \in Seq(EventRecords) /\ Len(o) = 1 /\ o[1] = e
    BY <1>1, <1>2, <1>3, OneEvent
  <1>6. PICK u : u = t \o o
    OBVIOUS
  <1>7. u \in Seq(EventRecords) /\ Len(u) = 3
    <2>1. u \in Seq(EventRecords) /\ Len(u) = Len(t) + Len(o)
      BY <1>5, <1>6, JoinedEvents
    <2>2. QED
      BY <1>4, <1>5, <2>1
  <1>8. (\A i \in 1..Len(t) : u[i] = t[i]) /\ (\A i \in 1..Len(o) : u[Len(t) + i] = o[i])
    BY <1>5, <1>6, JoinedEvents
  <1>9. u[1] = t[1] /\ u[2] = t[2] /\ u[3] = e
    <2>1. 1 \in 1..Len(o) /\ 1 \in 1..Len(t) /\ 2 \in 1..Len(t)
      BY <1>4, <1>5
    <2>2. u[2 + 1] = o[1]
      BY <1>4, <1>8, <2>1
    <2>3. QED
      BY <1>5, <1>8, <2>1, <2>2
  <1>10. PICK w : w = u \o c
    OBVIOUS
  <1>11. w \in Seq(EventRecords) /\ Len(w) = 4
    <2>1. w \in Seq(EventRecords) /\ Len(w) = Len(u) + Len(c)
      BY <1>7, <1>10, JoinedEvents
    <2>2. QED
      BY <1>4, <1>7, <2>1
  <1>12. (\A i \in 1..Len(u) : w[i] = u[i]) /\ (\A i \in 1..Len(c) : w[Len(u) + i] = c[i])
    BY <1>7, <1>10, JoinedEvents
  <1>13. w[1] = t[1] /\ w[2] = t[2] /\ w[3] = e /\ w[4] = c[1]
    <2>1. 1 \in 1..Len(c) /\ 1 \in 1..Len(u) /\ 2 \in 1..Len(u) /\ 3 \in 1..Len(u)
      BY <1>4, <1>7
    <2>2. w[3 + 1] = c[1]
      BY <1>7, <1>12, <2>1
    <2>3. QED
      BY <1>9, <1>12, <2>1, <2>2
  <1>14. t[1].kind # "agent.run" /\ t[2].kind # "agent.run" /\ c[1].kind # "agent.run"
    BY <1>4 DEF Quiet
  <1>15. \A i \in 1..Len(w) : i # 3 => i = 1 \/ i = 2 \/ i = 4
    BY <1>11
  <1>16. ev = w
    BY <1>2, <1>3, <1>4, <1>6, <1>10
  <1>17. 3 \in 1..Len(w)
    BY <1>11
  <1>18. \A i \in 1..Len(w) : i # 3 => w[i].kind # "agent.run"
    BY <1>13, <1>14, <1>15
  <1>19. QED
    BY <1>2, <1>11, <1>13, <1>16, <1>17, <1>18

LEMMA PlanEvents ==
  ASSUME NEW x \in Abouts, NEW ev,
         ev = Traced \o (<<Event("plan.created", x), Event("step.ran", 0), Event("policy.decision", x)>> \o Called)
  PROVE  /\ ev \in Seq(EventRecords) /\ Quiet(ev) /\ 3 \in 1..Len(ev) /\ 5 \in 1..Len(ev)
         /\ ev[3] = Event("plan.created", x) /\ ev[5] = Event("policy.decision", x)
  <1>1. 0 \in Abouts
    BY DEF Abouts
  <1>2. /\ Event("plan.created", x) \in EventRecords /\ Event("plan.created", x).kind # "agent.run"
        /\ Event("step.ran", 0) \in EventRecords /\ Event("step.ran", 0).kind # "agent.run"
        /\ Event("policy.decision", x) \in EventRecords /\ Event("policy.decision", x).kind # "agent.run"
    BY <1>1 DEF Event, EventRecords, EventKinds
  <1>3. PICK a : a = Event("plan.created", x)
    OBVIOUS
  <1>4. PICK b : b = Event("step.ran", 0)
    OBVIOUS
  <1>5. PICK p : p = Event("policy.decision", x)
    OBVIOUS
  <1>6. /\ a \in EventRecords /\ b \in EventRecords /\ p \in EventRecords
        /\ a.kind # "agent.run" /\ b.kind # "agent.run" /\ p.kind # "agent.run"
    BY <1>2, <1>3, <1>4, <1>5
  <1>7. PICK o : o = <<a, b, p>>
    OBVIOUS
  <1>8. Len(o) = 3 /\ o[1] = a /\ o[2] = b /\ o[3] = p /\ DOMAIN o = 1..3
    BY <1>7
  <1>a. \A i \in 1..3 : i = 1 \/ i = 2 \/ i = 3
    OBVIOUS
  <1>b. o \in Seq(EventRecords)
    BY <1>6, <1>7
  <1>c. Quiet(o)
    BY <1>6, <1>8, <1>a DEF Quiet
  <1>9. PICK t \in Seq(EventRecords), c \in Seq(EventRecords) :
          t = Traced /\ c = Called /\ Len(t) = 2 /\ Len(c) = 1 /\ Quiet(t) /\ Quiet(c)
    BY TracedCalled
  <1>10. PICK u : u = o \o c
    OBVIOUS
  <1>11. u \in Seq(EventRecords) /\ Len(u) = 4
    <2>1. u \in Seq(EventRecords) /\ Len(u) = Len(o) + Len(c)
      BY <1>b, <1>10, JoinedEvents
    <2>2. QED
      BY <1>8, <1>9, <2>1
  <1>12. \A i \in 1..Len(o) : u[i] = o[i]
    BY <1>b, <1>10, JoinedEvents
  <1>13. u[1] = a /\ u[3] = p /\ Quiet(u)
    <2>1. 1 \in 1..Len(o) /\ 3 \in 1..Len(o)
      BY <1>8
    <2>2. Quiet(u)
      BY <1>b, <1>c, <1>9, <1>10, QuietTogether
    <2>3. QED
      BY <1>8, <1>12, <2>1, <2>2
  <1>14. PICK w : w = t \o u
    OBVIOUS
  <1>15. w \in Seq(EventRecords) /\ Len(w) = 6 /\ Quiet(w)
    <2>1. w \in Seq(EventRecords) /\ Len(w) = Len(t) + Len(u) /\ Quiet(w)
      BY <1>9, <1>11, <1>13, <1>14, JoinedEvents, QuietTogether
    <2>2. QED
      BY <1>9, <1>11, <2>1
  <1>16. \A i \in 1..Len(u) : w[Len(t) + i] = u[i]
    BY <1>11, <1>14, JoinedEvents
  <1>17. w[3] = a /\ w[5] = p
    <2>1. 1 \in 1..Len(u) /\ 3 \in 1..Len(u)
      BY <1>11
    <2>2. w[2 + 1] = u[1] /\ w[2 + 3] = u[3]
      BY <1>9, <1>16, <2>1
    <2>3. QED
      BY <1>13, <2>2
  <1>18. ev = w
    BY <1>3, <1>4, <1>5, <1>7, <1>9, <1>10, <1>14
  <1>19. 3 \in 1..Len(w) /\ 5 \in 1..Len(w)
    BY <1>15
  <1>20. QED
    BY <1>3, <1>5, <1>15, <1>17, <1>18, <1>19

(* A stage that runs no agent leaves those recorded as they are.           *)
LEMMA QuietStage ==
  ASSUME NEW f, NEW ch, NEW sv, NEW after, Whole(f, <<>>, ch, sv), NEW ev \in Seq(EventRecords), Quiet(ev),
         \A x : Has(after, f, "agent_run", x) <=> Has(sv, f, "agent_run", x)
  PROVE  /\ \A x : Has(after, f, "agent_run", x) => Once(ch, ev, f, "agent.run", x)
         /\ \A x : ~Has(after, f, "agent_run", x) => Never(ch, ev, f, "agent.run", x)
  <1>1. \A x : \A i \in 1..Len(ev) : ev[i] # Event("agent.run", x)
    BY EventIs DEF Quiet
  <1>2. Len(<<>>) = 0 /\ \A i \in 1..Len(<<>>) : FALSE
    OBVIOUS
  <1>3. \A x : Once(ch, <<>>, f, "agent.run", x) => Once(ch, ev, f, "agent.run", x)
    BY <1>1, <1>2 DEF Once
  <1>4. \A x : Never(ch, <<>>, f, "agent.run", x) => Never(ch, ev, f, "agent.run", x)
    BY <1>1 DEF Never
  <1>5. QED
    BY <1>3, <1>4 DEF Whole

LEMMA OrderStays ==
  ASSUME NEW f, NEW ch, NEW ev, NEW x, InOrder(ch, <<>>, f, x)
  PROVE  InOrder(ch, ev, f, x)
  <1>1. Len(<<>>) = 0 /\ \A i \in 1..Len(<<>>) : FALSE
    OBVIOUS
  <1>2. QED
    BY <1>1 DEF InOrder

LEMMA ObjectIs ==
  ASSUME NEW h, NEW kind, NEW x, NEW with
  PROVE  /\ Object(h, kind, x, with).kind = kind /\ Object(h, kind, x, with).flow = handler[h].flow
         /\ Object(h, kind, x, with).about = x /\ Object(h, kind, x, with).with = with
  BY DEF Object

(* What a stage adds, and what it leaves of the flow's record.             *)
LEMMA OtherKinds ==
  ASSUME NEW sv, NEW S, NEW f, NEW kind, \A o \in S : o.kind # kind, NEW x
  PROVE  Has(sv \cup S, f, kind, x) <=> Has(sv, f, kind, x)
  BY DEF Has

LEMMA GroupsStay ==
  ASSUME NEW sv, NEW S, NEW f, NEW ev, NEW ch, Whole(f, ev, ch, sv),
         \A o \in S : o.kind # "group" /\ o.kind # "alert"
  PROVE  \A x : Has(sv \cup S, f, "group", x) <=>
                  \E o \in sv \cup S : o.flow = f /\ o.kind = "alert" /\ x \in o.with
  <1>1. \A x : Has(sv \cup S, f, "group", x) <=> Has(sv, f, "group", x)
    BY OtherKinds
  <1>2. \A o \in sv \cup S : o.kind = "alert" => o \in sv
    OBVIOUS
  <1>3. QED
    BY <1>1, <1>2 DEF Whole

LEMMA FreshWhole ==
  ASSUME NEW f, NEW ev, NEW ch, NEW sv, Quiet(ev), \A o \in sv : o.flow # f,
         \A k \in 1..Len(ch) : ch[k].flow # f
  PROVE  Whole(f, ev, ch, sv)
  <1>1. \A kind, x : ~Has(sv, f, kind, x)
    BY DEF Has
  <1>2. \A x : \A i \in 1..Len(ev) : ev[i] # Event("agent.run", x)
    BY EventIs DEF Quiet
  <1>3. \A x : Never(ch, ev, f, "agent.run", x)
    BY <1>2 DEF Never, Tells
  <1>4. \A x : ~\E o \in sv : o.flow = f /\ o.kind = "alert" /\ x \in o.with
    OBVIOUS
  <1>5. QED
    BY <1>1, <1>3, <1>4 DEF Whole

LEMMA AheadStays ==
  ASSUME NEW at, NEW f, NEW gs, NEW sv, NEW after, Ahead(at, f, gs, sv),
         \A x : /\ Has(after, f, "group", x) <=> Has(sv, f, "group", x)
                /\ Has(after, f, "agent_run", x) <=> Has(sv, f, "agent_run", x)
                /\ Has(after, f, "evidence", x) <=> Has(sv, f, "evidence", x)
  PROVE  Ahead(at, f, gs, after)
  BY DEF Ahead

LEMMA GroupDone ==
  ASSUME NEW f, NEW gs \in Seq(GroupRecords), NEW sv, Ahead("plan", f, gs, sv)
  PROVE  Ahead("groups", f, Tail(gs), sv)
  <1>1. PICK n \in Nat : n = Len(gs) /\ n > 0
    BY DEF Ahead
  <1>2. PICK t : t = Tail(gs)
    OBVIOUS
  <1>3. Len(t) = n - 1 /\ \A i \in 1..(n - 1) : t[i] = gs[i + 1]
    BY <1>1, <1>2
  <1>4. \A i \in 1..Len(t) : i + 1 \in 1..n /\ i + 1 \in 2..n /\ t[i] = gs[i + 1]
    BY <1>1, <1>3
  <1>5. \A i, j \in 1..n : i # j => gs[i].key # gs[j].key
    BY <1>1 DEF Ahead
  <1>6. \A i, j \in 1..Len(t) : i # j => t[i].key # t[j].key
    <2>1. SUFFICES ASSUME NEW i \in 1..Len(t), NEW j \in 1..Len(t), i # j
                   PROVE  t[i].key # t[j].key
      OBVIOUS
    <2>2. i \in Nat /\ j \in Nat /\ i + 1 # j + 1
      BY <1>3, <2>1
    <2>3. QED
      BY <1>4, <1>5, <2>2
  <1>7. ASSUME NEW x, Has(sv, f, "group", x), ~Has(sv, f, "agent_run", x)
        PROVE  \E i \in 1..Len(t) : t[i].key = x
    <2>1. PICK i \in 1..n : gs[i].key = x
      BY <1>1, <1>7 DEF Ahead
    <2>2. i # 1
      BY <1>7, <2>1 DEF Ahead
    <2>3. i - 1 \in 1..Len(t) /\ (i - 1) + 1 = i
      BY <1>1, <1>3, <2>2
    <2>4. t[i - 1] = gs[i]
      BY <1>4, <2>3
    <2>5. QED
      BY <2>1, <2>3, <2>4
  <1>8. \A i \in 2..n : ~Has(sv, f, "agent_run", gs[i].key)
    BY <1>1 DEF Ahead
  <1>9. \A i \in 1..Len(t) : ~Has(sv, f, "agent_run", t[i].key)
    BY <1>4, <1>8
  <1>10. \A i \in 1..n : \A x \in gs[i].evidence : Has(sv, f, "evidence", x)
    BY <1>1 DEF Ahead
  <1>11. \A i \in 1..Len(t) : \A x \in t[i].evidence : Has(sv, f, "evidence", x)
    BY <1>4, <1>10
  <1>12. Ahead("groups", f, t, sv)
    BY <1>6, <1>7, <1>9, <1>11 DEF Ahead
  <1>13. QED
    BY <1>2, <1>12

(* triage_group: the group's run is saved, and to be recorded once.        *)
TriageList(x) == Traced \o <<Event("agent.run", x)>> \o Called
TriageDone(f, ev, ch, gs, sv, after) ==
  /\ Whole(f, ev, ch, after) /\ Ahead("map", f, gs, after) /\ Ahead("plan", f, gs, after)
  /\ \A x : Has(after, f, "plan", x) <=> Has(sv, f, "plan", x)
TriageSaves(S, run, f, g) ==
  /\ run.flow = f /\ run.kind = "agent_run" /\ run.about = g.key /\ run \in S
  /\ \A o \in S : o = run \/ (o.flow = f /\ o.kind = "incident" /\ o.with = g.evidence /\ o.with # {})

LEMMA TriageWhole ==
  ASSUME NEW f, NEW ch, NEW sv, NEW gs \in Seq(GroupRecords), Len(gs) > 0,
         Whole(f, <<>>, ch, sv), Ahead("groups", f, gs, sv),
         NEW S, NEW run, TriageSaves(S, run, f, gs[1]), NEW ev, ev = TriageList(gs[1].key)
  PROVE  TriageDone(f, ev, ch, gs, sv, sv \cup S)
  <1>0. /\ run.flow = f /\ run.kind = "agent_run" /\ run.about = gs[1].key /\ run \in S
        /\ \A o \in S : o = run \/ (o.flow = f /\ o.kind = "incident" /\ o.with = gs[1].evidence /\ o.with # {})
    BY DEF TriageSaves
  <1>1. PICK after : after = sv \cup S
    OBVIOUS
  <1>2. PICK x : x = gs[1].key
    OBVIOUS
  <1>3. \A o \in S : o.kind # "group" /\ o.kind # "alert" /\ o.kind # "evidence" /\ o.kind # "plan"
    BY <1>0
  <1>4. \A y : /\ Has(after, f, "group", y) <=> Has(sv, f, "group", y)
               /\ Has(after, f, "evidence", y) <=> Has(sv, f, "evidence", y)
               /\ Has(after, f, "plan", y) <=> Has(sv, f, "plan", y)
    BY <1>1, <1>3, OtherKinds
  <1>5. \A y : Has(after, f, "agent_run", y) <=> Has(sv, f, "agent_run", y) \/ y = x
    BY <1>0, <1>1, <1>2 DEF Has
  <1>6. x \in Abouts
    BY <1>2 DEF Abouts
  <1>7. /\ ev \in Seq(EventRecords) /\ 3 \in 1..Len(ev) /\ ev[3] = Event("agent.run", x)
        /\ \A i \in 1..Len(ev) : i # 3 => ev[i].kind # "agent.run"
    <2>1. ev = Traced \o <<Event("agent.run", x)>> \o Called
      BY <1>2 DEF TriageList
    <2>2. QED
      BY <1>6, <2>1, TriageEvents
  <1>8. ~Has(sv, f, "agent_run", x)
    BY <1>2 DEF Ahead
  <1>9. Len(<<>>) = 0 /\ \A i \in 1..Len(<<>>) : FALSE
    OBVIOUS
  <1>10. \A y : \A i \in 1..Len(ev) : ev[i] = Event("agent.run", y) => i = 3 /\ y = x
    <2>1. SUFFICES ASSUME NEW y, NEW i \in 1..Len(ev), ev[i] = Event("agent.run", y)
                   PROVE  i = 3 /\ y = x
      OBVIOUS
    <2>2. Event("agent.run", y).kind = "agent.run"
      BY EventIs
    <2>3. i = 3
      BY <1>7, <2>1, <2>2
    <2>4. Event("agent.run", y) = Event("agent.run", x)
      BY <1>7, <2>1, <2>3
    <2>5. QED
      BY <2>3, <2>4, EventIs
  <1>11. Once(ch, ev, f, "agent.run", x)
    <2>1. \A k \in 1..Len(ch) : ~Tells(ch[k], f, "agent.run", x)
      BY <1>8 DEF Whole, Never
    <2>2. QED
      BY <1>7, <1>10, <2>1 DEF Once
  <1>12. ASSUME NEW y, y # x
         PROVE  /\ Once(ch, <<>>, f, "agent.run", y) => Once(ch, ev, f, "agent.run", y)
                /\ Never(ch, <<>>, f, "agent.run", y) => Never(ch, ev, f, "agent.run", y)
    <2>1. \A i \in 1..Len(ev) : ev[i] # Event("agent.run", y)
      BY <1>10, <1>12
    <2>2. QED
      BY <1>9, <2>1 DEF Once, Never
  <1>13. \A y : Has(after, f, "agent_run", y) => Once(ch, ev, f, "agent.run", y)
    BY <1>5, <1>11, <1>12 DEF Whole
  <1>14. \A y : ~Has(after, f, "agent_run", y) => Never(ch, ev, f, "agent.run", y)
    BY <1>5, <1>12 DEF Whole
  <1>15. ASSUME NEW o \in after, o.flow = f, o.kind = "incident"
         PROVE  o.with # {} /\ \A y \in o.with : Has(after, f, "evidence", y)
    <2>1. CASE o \in sv
      BY <1>4, <1>15, <2>1 DEF Whole
    <2>2. CASE o \in S
      <3>1. o.with = gs[1].evidence /\ o.with # {}
        BY <1>0, <1>15, <2>2
      <3>2. 1 \in 1..Len(gs)
        OBVIOUS
      <3>3. \A y \in gs[1].evidence : Has(sv, f, "evidence", y)
        BY <3>2 DEF Ahead
      <3>4. QED
        BY <1>4, <3>1, <3>3
    <2>3. QED
      BY <1>1, <2>1, <2>2
  <1>16. \A y : Has(after, f, "plan", y) => InOrder(ch, ev, f, y)
    BY <1>4, OrderStays DEF Whole
  <1>17. \A y : Has(after, f, "group", y) <=> \E o \in after : o.flow = f /\ o.kind = "alert" /\ y \in o.with
    <2>1. \A o \in S : o.kind # "group" /\ o.kind # "alert"
      BY <1>3
    <2>2. \A y : Has(sv \cup S, f, "group", y) <=>
                  \E o \in sv \cup S : o.flow = f /\ o.kind = "alert" /\ y \in o.with
      <3>1. Whole(f, <<>>, ch, sv)
        OBVIOUS
      <3>2. QED
        BY ONLY <2>1, <3>1, GroupsStay
    <2>3. QED
      BY <1>1, <2>2
  <1>18. Whole(f, ev, ch, after)
    BY <1>13, <1>14, <1>15, <1>16, <1>17 DEF Whole
  <1>19. PICK n \in Nat : n = Len(gs) /\ n > 0
    OBVIOUS
  <1>20. /\ \A i, j \in 1..n : i # j => gs[i].key # gs[j].key
         /\ \A y : Has(sv, f, "group", y) => Has(sv, f, "agent_run", y) \/ \E i \in 1..n : gs[i].key = y
         /\ \A i \in 1..n : ~Has(sv, f, "agent_run", gs[i].key)
         /\ \A i \in 1..n : \A y \in gs[i].evidence : Has(sv, f, "evidence", y)
    BY <1>19 DEF Ahead
  <1>21. \A i \in 2..n : ~Has(after, f, "agent_run", gs[i].key)
    <2>1. SUFFICES ASSUME NEW i \in 2..n
                   PROVE  ~Has(after, f, "agent_run", gs[i].key)
      OBVIOUS
    <2>2. i \in 1..n /\ 1 \in 1..n /\ i # 1
      BY <1>19
    <2>3. gs[i].key # x
      BY <1>2, <1>20, <2>2
    <2>4. QED
      BY <1>5, <1>20, <2>2, <2>3
  <1>22. Has(after, f, "agent_run", gs[1].key)
    BY <1>2, <1>5
  <1>23. \A y : Has(after, f, "group", y) => Has(after, f, "agent_run", y) \/ \E i \in 1..n : gs[i].key = y
    BY <1>4, <1>5, <1>20
  <1>24. \A i \in 1..n : \A y \in gs[i].evidence : Has(after, f, "evidence", y)
    BY <1>4, <1>20
  <1>25. Ahead("map", f, gs, after) /\ Ahead("plan", f, gs, after)
    BY <1>19, <1>20, <1>21, <1>22, <1>23, <1>24 DEF Ahead
  <1>26. QED
    BY <1>1, <1>4, <1>18, <1>25 DEF TriageDone

(* A stage that saves no run, group, alert, evidence or incident.          *)
LEMMA StageWhole ==
  ASSUME NEW f, NEW ch, NEW sv, NEW S, NEW at, NEW gs, Whole(f, <<>>, ch, sv), Ahead(at, f, gs, sv),
         \A o \in S : o.kind \in {"mapping", "risk", "plan", "decision"},
         NEW ev \in Seq(EventRecords), Quiet(ev),
         \A o \in S : o.kind = "plan" => InOrder(ch, ev, f, o.about)
  PROVE  Whole(f, ev, ch, sv \cup S) /\ Ahead(at, f, gs, sv \cup S)
  <1>1. PICK after : after = sv \cup S
    OBVIOUS
  <1>2. \A o \in S : /\ o.kind # "group" /\ o.kind # "alert" /\ o.kind # "evidence" /\ o.kind # "agent_run"
                     /\ o.kind # "incident"
    OBVIOUS
  <1>3. \A y : /\ Has(after, f, "group", y) <=> Has(sv, f, "group", y)
               /\ Has(after, f, "agent_run", y) <=> Has(sv, f, "agent_run", y)
               /\ Has(after, f, "evidence", y) <=> Has(sv, f, "evidence", y)
    BY <1>1, <1>2, OtherKinds
  <1>4. Ahead(at, f, gs, after)
    BY <1>3, AheadStays
  <1>5. /\ \A x : Has(after, f, "agent_run", x) => Once(ch, ev, f, "agent.run", x)
        /\ \A x : ~Has(after, f, "agent_run", x) => Never(ch, ev, f, "agent.run", x)
    <2>1. \A x : Has(after, f, "agent_run", x) <=> Has(sv, f, "agent_run", x)
      BY <1>3
    <2>2. QED
      BY <2>1, QuietStage
  <1>6. \A o \in after : o.flow = f /\ o.kind = "incident" =>
          o.with # {} /\ \A x \in o.with : Has(after, f, "evidence", x)
    <2>1. \A o \in after : o.kind = "incident" => o \in sv
      BY <1>1, <1>2
    <2>2. QED
      BY <1>3, <2>1 DEF Whole
  <1>7. ASSUME NEW x, Has(after, f, "plan", x)
        PROVE  InOrder(ch, ev, f, x)
    <2>1. PICK o \in after : o.flow = f /\ o.kind = "plan" /\ o.about = x
      BY <1>7 DEF Has
    <2>2. CASE o \in sv
      <3>1. InOrder(ch, <<>>, f, x)
        BY <2>1, <2>2 DEF Whole, Has
      <3>2. QED
        BY <3>1, OrderStays
    <2>3. CASE o \in S
      BY <2>1, <2>3
    <2>4. QED
      BY <1>1, <2>2, <2>3
  <1>8. \A y : Has(after, f, "group", y) <=> \E o \in after : o.flow = f /\ o.kind = "alert" /\ y \in o.with
    BY <1>1, <1>2, GroupsStay
  <1>9. Whole(f, ev, ch, after)
    BY <1>5, <1>6, <1>7, <1>8 DEF Whole
  <1>10. QED
    BY <1>1, <1>4, <1>9

(* ingest: the first objects of a flow.                                    *)
LEMMA IngestWhole ==
  ASSUME NEW f, NEW ch, NEW sv, Whole(f, <<>>, ch, sv), \A o \in sv : o.flow # f, NEW b \in Batches,
         NEW S, \A o \in S : o.flow = f /\ o.kind \in {"evidence", "alert", "group"},
         \A x : (\E o \in S : o.kind = "group" /\ o.about = x) <=>
                  \E i \in 1..Len(AlertGroups(b)) : AlertGroups(b)[i].key = x,
         \A x : (\E o \in S : o.kind = "alert" /\ x \in o.with) <=>
                  \E p \in AlertPlaces(b) : AlertAt(b, p).key = x,
         \A k \in DOMAIN b : \E o \in S : o.kind = "evidence" /\ o.about = k,
         NEW ev \in Seq(EventRecords), Quiet(ev)
  PROVE  /\ Whole(f, ev, ch, sv \cup S) /\ Ahead("groups", f, AlertGroups(b), sv \cup S)
         /\ \A x : ~Has(sv \cup S, f, "plan", x)
  <1>1. PICK after : after = sv \cup S
    OBVIOUS
  <1>2. PICK gs : gs = AlertGroups(b)
    OBVIOUS
  <1>3. \A kind, x : Has(after, f, kind, x) <=> \E o \in S : o.kind = kind /\ o.about = x
    BY <1>1 DEF Has
  <1>4. \A x : ~Has(after, f, "plan", x) /\ ~Has(after, f, "agent_run", x)
    BY <1>3
  <1>5. /\ \A i, j \in 1..Len(gs) : i # j => gs[i].key # gs[j].key
        /\ \A i \in 1..Len(gs) : \E p \in AlertPlaces(b) : gs[i].key = AlertAt(b, p).key
        /\ \A p \in AlertPlaces(b) : \E i \in 1..Len(gs) : gs[i].key = AlertAt(b, p).key
        /\ \A i \in 1..Len(gs) : gs[i].evidence \subseteq DOMAIN b
    BY <1>2, AlertGroupsAre
  <1>6. \A x : Has(after, f, "group", x) <=> \E i \in 1..Len(gs) : gs[i].key = x
    BY <1>2, <1>3
  <1>7. \A x : (\E o \in after : o.flow = f /\ o.kind = "alert" /\ x \in o.with) <=>
                 \E p \in AlertPlaces(b) : AlertAt(b, p).key = x
    BY <1>1
  <1>8. \A x : Has(after, f, "group", x) <=> \E o \in after : o.flow = f /\ o.kind = "alert" /\ x \in o.with
    <2>1. \A x : (\E i \in 1..Len(gs) : gs[i].key = x) => \E p \in AlertPlaces(b) : AlertAt(b, p).key = x
      BY <1>5
    <2>2. \A x : (\E p \in AlertPlaces(b) : AlertAt(b, p).key = x) => \E i \in 1..Len(gs) : gs[i].key = x
      <3>1. SUFFICES ASSUME NEW x, NEW p \in AlertPlaces(b), AlertAt(b, p).key = x
                     PROVE  \E i \in 1..Len(gs) : gs[i].key = x
        OBVIOUS
      <3>2. PICK i \in 1..Len(gs) : gs[i].key = AlertAt(b, p).key
        BY <1>5
      <3>3. QED
        BY <3>1, <3>2
    <2>3. SUFFICES ASSUME NEW x
                   PROVE  Has(after, f, "group", x) <=> \E o \in after : o.flow = f /\ o.kind = "alert" /\ x \in o.with
      OBVIOUS
    <2>4. Has(after, f, "group", x) <=> \E p \in AlertPlaces(b) : AlertAt(b, p).key = x
      BY <1>6, <2>1, <2>2
    <2>5. QED
      BY <1>7, <2>4
  <1>9. \A o \in after : o.flow = f => o.kind # "incident"
    BY <1>1
  <1>10. \A x : Never(ch, ev, f, "agent.run", x)
    <2>1. \A x : ~Has(sv, f, "agent_run", x)
      BY DEF Has
    <2>2. \A x : Has(after, f, "agent_run", x) <=> Has(sv, f, "agent_run", x)
      BY <1>4, <2>1
    <2>3. \A x : ~Has(after, f, "agent_run", x) => Never(ch, ev, f, "agent.run", x)
      BY <2>2, QuietStage
    <2>4. QED
      BY <1>4, <2>3
  <1>11. Whole(f, ev, ch, after)
    BY <1>4, <1>8, <1>9, <1>10 DEF Whole
  <1>12. \A i \in 1..Len(gs) : \A x \in gs[i].evidence : Has(after, f, "evidence", x)
    BY <1>3, <1>5
  <1>13. Ahead("groups", f, gs, after)
    BY <1>4, <1>5, <1>6, <1>12 DEF Ahead
  <1>14. QED
    BY <1>1, <1>2, <1>4, <1>11, <1>13

(* The steps.                                                              *)
LEMMA OwnState ==
  ASSUME SocInv, NEW h \in Handlers
  PROVE  /\ handler \in [Handlers -> HandlerRecords] /\ handler[h] \in HandlerRecords
         /\ HandlerInv(handler[h], flows, chain, saved)
         /\ chain \in Seq(EntryRecords) /\ Len(chain) \in Nat /\ counter \in Nat
         /\ flows \in Seq(FlowRecords) /\ Len(flows) \in Nat
         /\ \A o \in saved : o.flow \in 1..Len(flows)
         /\ \A k \in 1..Len(chain) : chain[k].flow \in 1..Len(flows)
  BY DEF SocInv, SocTyped

LEMMA SameProgress ==
  ASSUME NEW c, NEW d, NEW status, NEW sv, d.at = c.at, d.flow = c.flow, d.groups = c.groups,
         d.waiting = c.waiting, Progress(c, status, sv)
  PROVE  Progress(d, status, sv)
  BY DEF Progress

LEMMA TypedAfter ==
  ASSUME SocInv, NEW h \in Handlers, NEW d \in HandlerRecords, handler' = [handler EXCEPT ![h] = d]
  PROVE  handler' \in [Handlers -> HandlerRecords]
  BY OwnState

LEMMA WaitingStep ==
  ASSUME SocInv, NEW h \in Handlers, NEW d \in HandlerRecords, handler' = [handler EXCEPT ![h] = d],
         d.at = handler[h].at, d.flow = handler[h].flow, d.groups = handler[h].groups,
         d.waiting = handler[h].waiting, d.events = handler[h].events, Len(d.events) > 0,
         chain' = chain, flows' = flows, saved' = saved, counter' \in Nat
  PROVE  SocInv'
  <1>1. PICK c \in HandlerRecords : c = handler[h]
    BY OwnState
  <1>2. HandlerInv(c, flows, chain, saved) /\ Len(flows) \in Nat
    BY <1>1, OwnState
  <1>3. SocTyped'
    BY OwnState, TypedAfter DEF SocTyped
  <1>4. c.flow # 0
    BY <1>1, <1>2 DEF HandlerInv
  <1>5. Progress(d, flows[c.flow].status, saved)
    <2>1. Progress(c, flows[c.flow].status, saved)
      BY <1>2, <1>4 DEF HandlerInv
    <2>2. QED
      BY <1>1, <2>1, SameProgress
  <1>6. HandlerInv(d, flows, chain, saved)
    BY <1>1, <1>2, <1>4, <1>5 DEF HandlerInv
  <1>7. \A g : SameObjects(g, saved, saved')
    BY DEF SameObjects
  <1>8. PICK f : f = c.flow
    OBVIOUS
  <1>9. /\ d.flow = f /\ handler[h].flow = f /\ Len(flows') >= Len(flows)
        /\ (\A g \in 1..Len(flows) : g # f => flows'[g] = flows[g])
        /\ (\A g \in 1..Len(flows') : g \in 1..Len(flows) \/ g = f)
        /\ HandlerInv(d, flows', chain', saved')
    BY <1>1, <1>2, <1>6, <1>8
  <1>10. QED
    BY <1>3, <1>7, <1>9, SocOneStep

LEMMA ReadPrevKeeps ==
  ASSUME SocInv, NEW h \in Handlers, ReadPrev(h)
  PROVE  SocInv'
  <1>1. PICK c \in HandlerRecords : c = handler[h]
    BY OwnState
  <1>2. PICK n \in Nat : n = Len(chain)
    BY OwnState
  <1>3. PICK d : d = [c EXCEPT !.prev = n, !.step = "number"]
    OBVIOUS
  <1>4. d \in HandlerRecords
    BY <1>3 DEF HandlerRecords
  <1>5. d.at = c.at /\ d.flow = c.flow /\ d.groups = c.groups /\ d.waiting = c.waiting /\ d.events = c.events
    BY <1>3 DEF HandlerRecords
  <1>6. Len(d.events) > 0
    <2>1. c.events \in Seq(EventRecords) /\ c.events # <<>>
      BY <1>1 DEF HandlerRecords, ReadPrev
    <2>2. Len(c.events) > 0
      BY <2>1
    <2>3. QED
      BY <1>5, <2>2
  <1>7. handler' = [handler EXCEPT ![h] = d] /\ chain' = chain /\ counter' = counter /\ flows' = flows /\ saved' = saved
    BY <1>1, <1>2, <1>3 DEF ReadPrev
  <1>8. counter' \in Nat
    BY <1>7, OwnState
  <1>9. QED
    BY <1>1, <1>4, <1>5, <1>6, <1>7, <1>8, WaitingStep

LEMMA NumberKeeps ==
  ASSUME SocInv, NEW h \in Handlers, Number(h)
  PROVE  SocInv'
  <1>1. PICK c \in HandlerRecords : c = handler[h]
    BY OwnState
  <1>2. PICK d : d = [c EXCEPT !.step = "append"]
    OBVIOUS
  <1>3. d \in HandlerRecords
    BY <1>2 DEF HandlerRecords
  <1>4. d.at = c.at /\ d.flow = c.flow /\ d.groups = c.groups /\ d.waiting = c.waiting /\ d.events = c.events
    BY <1>2 DEF HandlerRecords
  <1>5. Len(d.events) > 0
    <2>1. HandlerInv(c, flows, chain, saved) /\ c.step = "number"
      BY <1>1, OwnState DEF Number
    <2>2. QED
      BY <1>4, <2>1 DEF HandlerInv
  <1>6. handler' = [handler EXCEPT ![h] = d] /\ chain' = chain /\ counter' = counter + 1 /\ flows' = flows /\ saved' = saved
    BY <1>1, <1>2 DEF Number
  <1>7. counter' \in Nat
    BY <1>6, OwnState
  <1>8. QED
    BY <1>1, <1>3, <1>4, <1>5, <1>6, <1>7, WaitingStep

LEMMA AppendEntryKeeps ==
  ASSUME SocInv, NEW h \in Handlers, AppendEntry(h)
  PROVE  SocInv'
  <1>1. PICK c \in HandlerRecords : c = handler[h]
    BY OwnState
  <1>2. HandlerInv(c, flows, chain, saved) /\ c.step = "append" /\ Len(flows) \in Nat
    BY <1>1, OwnState DEF AppendEntry
  <1>3. PICK ev \in Seq(EventRecords) : ev = c.events /\ Len(ev) > 0
    BY <1>2 DEF HandlerInv, HandlerRecords
  <1>4. PICK f : f = c.flow
    OBVIOUS
  <1>5. f # 0 /\ f \in 1..Len(flows) /\ f \in Nat
    BY <1>2, <1>3, <1>4 DEF HandlerInv
  <1>6. ev[1] \in EventRecords /\ Head(ev) = ev[1]
    BY <1>3
  <1>7. PICK e : e = [id |-> counter, kind |-> ev[1].kind, flow |-> f, about |-> ev[1].about, prev |-> c.prev]
    OBVIOUS
  <1>8. e \in EntryRecords /\ e.flow = f /\ e.kind = ev[1].kind /\ e.about = ev[1].about
    <2>1. counter \in Nat /\ c.prev \in Nat /\ ev[1].kind \in EventKinds /\ ev[1].about \in Abouts
      BY <1>6, OwnState DEF HandlerRecords, EventRecords
    <2>2. QED
      BY <1>5, <1>7, <2>1 DEF EntryRecords
  <1>9. chain' = Append(chain, e)
    BY <1>1, <1>3, <1>4, <1>6, <1>7 DEF AppendEntry
  <1>10. PICK v \in Seq(EventRecords) : v = Tail(ev)
    <2>1. ev # <<>>
      BY <1>3
    <2>2. Tail(ev) \in Seq(EventRecords)
      BY <2>1
    <2>3. QED
      BY <2>2
  <1>11. PICK d : d = [c EXCEPT !.events = v, !.step = "prev"]
    OBVIOUS
  <1>12. d \in HandlerRecords
    BY <1>11 DEF HandlerRecords
  <1>13. /\ d.at = c.at /\ d.flow = c.flow /\ d.groups = c.groups /\ d.waiting = c.waiting /\ d.events = v
         /\ d.step = "prev"
    BY <1>11 DEF HandlerRecords
  <1>14. handler' = [handler EXCEPT ![h] = d] /\ counter' = counter /\ flows' = flows /\ saved' = saved
    <2>1. /\ handler' = [handler EXCEPT ![h] = [handler[h] EXCEPT !.events = Tail(handler[h].events), !.step = "prev"]]
          /\ counter' = counter /\ flows' = flows /\ saved' = saved
      BY DEF AppendEntry
    <2>2. d = [handler[h] EXCEPT !.events = Tail(handler[h].events), !.step = "prev"]
      BY <1>1, <1>3, <1>10, <1>11
    <2>3. QED
      BY <2>1, <2>2
  <1>15. Whole(f, ev, chain, saved) /\ Progress(c, flows[f].status, saved)
    BY <1>2, <1>3, <1>4, <1>5 DEF HandlerInv
  <1>16. PICK ch \in Seq(EntryRecords) : ch = chain
    BY OwnState
  <1>17. /\ \A kind, x : /\ Never(ch, ev, f, kind, x) => Never(Append(ch, e), v, f, kind, x)
                         /\ Once(ch, ev, f, kind, x) => Once(Append(ch, e), v, f, kind, x)
         /\ \A x : InOrder(ch, ev, f, x) => InOrder(Append(ch, e), v, f, x)
    BY <1>3, <1>8, <1>10, EntryMoves
  <1>18. Whole(f, v, chain', saved)
    BY <1>9, <1>15, <1>16, <1>17 DEF Whole
  <1>19. Progress(d, flows[f].status, saved)
    BY <1>13, <1>15, SameProgress
  <1>20. HandlerInv(d, flows', chain', saved')
    <2>1. d.flow \in 0..Len(flows') /\ d.flow # 0
      BY <1>4, <1>5, <1>13, <1>14
    <2>2. QED
      BY <1>4, <1>13, <1>14, <1>18, <1>19, <2>1 DEF HandlerInv
  <1>21. SocTyped'
    <2>1. chain' \in Seq(EntryRecords)
      BY <1>8, <1>9, <1>16
    <2>2. \A k \in 1..Len(chain') : chain'[k].flow \in 1..Len(flows')
      <3>1. \A k \in 1..Len(ch) : ch[k].flow \in 1..Len(flows)
        BY <1>16, OwnState
      <3>2. PICK t : t = Append(ch, e)
        OBVIOUS
      <3>3. Len(t) = Len(ch) + 1 /\ t[Len(ch) + 1] = e /\ (\A k \in 1..Len(ch) : t[k] = ch[k]) /\ Len(ch) \in Nat
        BY <1>8, <3>2
      <3>4. \A k \in 1..Len(t) : k \in 1..Len(ch) \/ k = Len(ch) + 1
        BY <3>3
      <3>5. \A k \in 1..Len(t) : t[k].flow \in 1..Len(flows)
        BY <1>5, <1>8, <3>1, <3>3, <3>4
      <3>6. QED
        BY <1>9, <1>14, <1>16, <3>2, <3>5
    <2>3. QED
      BY <1>12, <1>14, <2>1, <2>2, OwnState, TypedAfter DEF SocTyped
  <1>22. \A g : SameObjects(g, saved, saved')
    BY <1>14 DEF SameObjects
  <1>23. /\ d.flow = f /\ handler[h].flow = f /\ Len(flows') >= Len(flows)
         /\ (\A g \in 1..Len(flows) : g # f => flows'[g] = flows[g])
         /\ (\A g \in 1..Len(flows') : g \in 1..Len(flows) \/ g = f)
    BY <1>1, <1>2, <1>4, <1>13, <1>14
  <1>24. \E x \in EntryRecords : x.flow = f /\ chain' = Append(chain, x)
    BY <1>8, <1>9
  <1>25. QED
    BY <1>12, <1>14, <1>20, <1>21, <1>22, <1>23, <1>24, SocOneStep

LEMMA StartFlowKeeps ==
  ASSUME SocInv, NEW h \in Handlers, StartFlow(h)
  PROVE  SocInv'
  <1>1. PICK c \in HandlerRecords : c = handler[h]
    BY OwnState
  <1>2. HandlerInv(c, flows, chain, saved) /\ c.at = "idle" /\ c.events = <<>>
    BY <1>1, OwnState DEF StartFlow, Free
  <1>3. PICK n \in Nat : n = Len(flows)
    BY OwnState
  <1>4. PICK b \in Batches : flows' = Append(flows, [status |-> "running", batch |-> b])
    BY DEF StartFlow
  <1>5. PICK r : r = [status |-> "running", batch |-> b]
    OBVIOUS
  <1>6. r \in FlowRecords /\ r.status = "running"
    BY <1>5 DEF FlowRecords
  <1>7. flows \in Seq(FlowRecords) /\ flows' = Append(flows, r)
    BY <1>4, <1>5, OwnState
  <1>8. /\ flows' \in Seq(FlowRecords) /\ Len(flows') = n + 1 /\ flows'[n + 1] = r
        /\ \A g \in 1..n : flows'[g] = flows[g]
    BY <1>3, <1>6, <1>7
  <1>9. PICK ev \in Seq(EventRecords) : ev = <<Event("flow.started", 0)>> \o Traced /\ Quiet(ev)
    BY StageEvents
  <1>10. PICK f \in Nat : f = n + 1
    OBVIOUS
  <1>11. PICK d : d = [Resting EXCEPT !.at = "ingest", !.flow = f, !.step = "prev", !.events = ev]
    OBVIOUS
  <1>12. /\ d \in HandlerRecords /\ d.at = "ingest" /\ d.flow = f /\ d.step = "prev" /\ d.events = ev
         /\ d.waiting = FALSE
    <2>1. <<>> \in Seq(GroupRecords)
      OBVIOUS
    <2>2. d = [at |-> "ingest", flow |-> f, groups |-> <<>>, events |-> ev, step |-> "prev", prev |-> 0,
               waiting |-> FALSE]
      BY <1>11 DEF Resting
    <2>3. QED
      BY <2>1, <2>2 DEF HandlerRecords
  <1>13. handler' = [handler EXCEPT ![h] = d] /\ chain' = chain /\ counter' = counter /\ saved' = saved
    BY <1>3, <1>9, <1>10, <1>11 DEF StartFlow
  <1>14. (\A o \in saved : o.flow # f) /\ (\A k \in 1..Len(chain) : chain[k].flow # f)
    <2>1. f \notin 1..Len(flows)
      BY <1>3, <1>10
    <2>2. QED
      BY <2>1, OwnState
  <1>15. Whole(f, ev, chain, saved)
    BY <1>9, <1>14, FreshWhole
  <1>16. Progress(d, "running", saved)
    BY <1>12, <1>14 DEF Progress
  <1>17. HandlerInv(d, flows', chain', saved')
    <2>1. d.flow \in 0..Len(flows') /\ d.flow # 0 /\ flows'[d.flow].status = "running"
      BY <1>6, <1>8, <1>10, <1>12
    <2>2. QED
      BY <1>12, <1>13, <1>15, <1>16, <2>1 DEF HandlerInv
  <1>18. ASSUME c.flow # 0
         PROVE  FlowInv(c.flow, flows', chain', saved')
    <2>1. c.flow \in 1..n
      BY <1>2, <1>3, <1>18 DEF HandlerInv
    <2>2. flows'[c.flow] = flows[c.flow]
      BY <1>8, <2>1
    <2>3. Whole(c.flow, <<>>, chain, saved) /\ Progress(c, flows[c.flow].status, saved)
      BY <1>2, <1>18 DEF HandlerInv
    <2>4. EndsRight(c.flow, flows[c.flow].status, saved)
      BY <1>2, <2>3 DEF Progress
    <2>5. QED
      BY <1>13, <2>2, <2>3, <2>4 DEF FlowInv
  <1>19. SocTyped'
    <2>1. \A g \in 1..n : g \in 1..Len(flows')
      BY <1>8
    <2>2. (\A o \in saved : o.flow \in 1..Len(flows')) /\ (\A k \in 1..Len(chain) : chain[k].flow \in 1..Len(flows'))
      BY <1>3, <2>1, OwnState
    <2>3. QED
      BY <1>8, <1>12, <1>13, <2>2, OwnState, TypedAfter DEF SocTyped
  <1>20. \A g : SameObjects(g, saved, saved')
    BY <1>13 DEF SameObjects
  <1>21. /\ d.flow = f /\ f = Len(flows) + 1 /\ Len(flows') >= Len(flows)
         /\ (\A g \in 1..Len(flows) : g # f => flows'[g] = flows[g])
         /\ (\A g \in 1..Len(flows') : g \in 1..Len(flows) \/ g = f)
    BY <1>3, <1>8, <1>10, <1>12
  <1>22. handler[h].flow # d.flow /\ handler[h].flow # 0 => FlowInv(handler[h].flow, flows', chain', saved')
    BY <1>1, <1>18
  <1>23. QED
    BY <1>12, <1>13, <1>17, <1>19, <1>20, <1>21, <1>22, SocOneStep

LEMMA StageStep ==
  ASSUME SocInv, NEW h \in Handlers, NEW d \in HandlerRecords, handler' = [handler EXCEPT ![h] = d],
         NEW f, handler[h].flow = f, f # 0, d.flow = f, handler[h].events = <<>>,
         d.step = handler[h].step \/ d.step = "prev",
         chain' = chain, counter' = counter, flows' \in Seq(FlowRecords), Len(flows') = Len(flows),
         \A g \in 1..Len(flows) : g # f => flows'[g] = flows[g],
         NEW S, saved' = saved \cup S, \A o \in S : o.flow = f,
         Whole(f, d.events, chain, saved \cup S), Progress(d, flows'[f].status, saved \cup S)
  PROVE  SocInv'
  <1>1. HandlerInv(handler[h], flows, chain, saved) /\ Len(flows) \in Nat
    BY OwnState
  <1>2. f \in 1..Len(flows)
    BY <1>1 DEF HandlerInv
  <1>3. d.step \notin {"number", "append"}
    <2>1. Len(<<>>) = 0
      OBVIOUS
    <2>2. handler[h].step \notin {"number", "append"}
      BY <1>1, <2>1 DEF HandlerInv
    <2>3. QED
      BY <2>2
  <1>4. HandlerInv(d, flows', chain', saved')
    <2>1. d.flow \in 0..Len(flows')
      BY <1>2
    <2>2. QED
      BY <1>3, <2>1 DEF HandlerInv
  <1>5. SocTyped'
    <2>1. \A o \in saved' : o.flow \in 1..Len(flows')
      BY <1>2, OwnState
    <2>2. QED
      BY <2>1, OwnState, TypedAfter DEF SocTyped
  <1>6. \A g : g # f => SameObjects(g, saved, saved')
    BY DEF SameObjects
  <1>7. Len(flows') >= Len(flows) /\ \A g \in 1..Len(flows') : g \in 1..Len(flows) \/ g = f
    BY <1>1
  <1>8. QED
    BY <1>4, <1>5, <1>6, <1>7, SocOneStep

LEMMA FailedIngestKeeps ==
  ASSUME SocInv, NEW h \in Handlers, handler' = [handler EXCEPT ![h] = Resting], handler[h].at = "ingest",
         chain' = chain, counter' = counter, flows' = flows,
         NEW S, saved' = saved \cup S, \A o \in S : o.flow = handler[h].flow
  PROVE  SocInv'
  <1>1. PICK f : f = handler[h].flow
    OBVIOUS
  <1>2. HandlerInv(handler[h], flows, chain, saved) /\ Len(flows) \in Nat
    BY OwnState
  <1>3. f # 0 /\ f \in 1..Len(flows)
    BY <1>1, <1>2 DEF HandlerInv
  <1>4. flows[f].status = "running"
    BY <1>1, <1>2, <1>3 DEF HandlerInv, Progress
  <1>5. /\ Resting \in HandlerRecords /\ Resting.flow = 0 /\ Resting.at = "idle" /\ Resting.events = <<>>
        /\ Resting.step = "none"
    <2>1. <<>> \in Seq(GroupRecords) /\ <<>> \in Seq(EventRecords)
      OBVIOUS
    <2>2. QED
      BY <2>1 DEF Resting, HandlerRecords
  <1>6. PICK d \in HandlerRecords : d = Resting /\ d.flow = 0 /\ d.at = "idle" /\ Len(d.events) = 0 /\ d.step = "none"
    BY <1>5
  <1>7. HandlerInv(d, flows', chain', saved')
    BY <1>2, <1>6 DEF HandlerInv
  <1>8. FlowInv(f, flows', chain', saved')
    BY <1>4 DEF FlowInv
  <1>9. SocTyped'
    <2>1. \A o \in saved' : o.flow \in 1..Len(flows')
      BY <1>1, <1>3, OwnState
    <2>2. handler' \in [Handlers -> HandlerRecords]
      BY <1>6, TypedAfter
    <2>3. QED
      BY <2>1, <2>2, OwnState DEF SocTyped
  <1>10. \A g : g # f => SameObjects(g, saved, saved')
    BY <1>1 DEF SameObjects
  <1>11. /\ Len(flows') >= Len(flows) /\ (\A g \in 1..Len(flows') : g \in 1..Len(flows) \/ g = f)
         /\ (\A g \in 1..Len(flows) : g # f => flows'[g] = flows[g])
    BY <1>2
  <1>12. handler' = [handler EXCEPT ![h] = d]
    BY <1>6
  <1>13. d.flow = 0 /\ handler[h].flow = f
    BY <1>1, <1>6
  <1>14. handler[h].flow # d.flow /\ handler[h].flow # 0 => FlowInv(handler[h].flow, flows', chain', saved')
    BY <1>1, <1>8
  <1>15. QED
    BY <1>7, <1>9, <1>10, <1>11, <1>12, <1>13, <1>14, SocOneStep

AlertObject(h, b, p) == Object(h, "alert", p, {AlertAt(b, p).key})

LEMMA IngestedAre ==
  ASSUME NEW h, NEW b \in Batches
  PROVE  /\ \A o \in Ingested(h, b) : o.flow = handler[h].flow /\ o.kind \in {"evidence", "alert", "group"}
         /\ \A x : (\E o \in Ingested(h, b) : o.kind = "group" /\ o.about = x) <=>
                     \E i \in 1..Len(AlertGroups(b)) : AlertGroups(b)[i].key = x
         /\ \A x : (\E o \in Ingested(h, b) : o.kind = "alert" /\ x \in o.with) <=>
                     \E p \in AlertPlaces(b) : AlertAt(b, p).key = x
         /\ \A k \in DOMAIN b : \E o \in Ingested(h, b) : o.kind = "evidence" /\ o.about = k
  <1>1. PICK gs : gs = AlertGroups(b)
    OBVIOUS
  <1>2. DOMAIN gs = 1..Len(gs)
    <2>1. gs \in Seq(GroupRecords)
      BY <1>1, AlertGroupsAre
    <2>2. QED
      BY <2>1
  <1>3. DOMAIN b = 1..Len(b)
    BY PlacesAre
  <1>4. PICK E : E = {Object(h, "evidence", k, {}) : k \in 1 .. Len(b)}
    OBVIOUS
  <1>5. PICK A : A = {AlertObject(h, b, p) : p \in AlertPlaces(b)}
    OBVIOUS
  <1>a. \A p : /\ AlertObject(h, b, p).flow = handler[h].flow /\ AlertObject(h, b, p).kind = "alert"
               /\ AlertObject(h, b, p).with = {AlertAt(b, p).key}
    BY ObjectIs DEF AlertObject
  <1>6. PICK G : G = {Object(h, "group", g.key, g.evidence) : g \in {gs[k] : k \in DOMAIN gs}}
    OBVIOUS
  <1>7. Ingested(h, b) = E \cup A \cup G
    BY <1>1, <1>4, <1>5, <1>6 DEF Ingested, AlertObject
  <1>8. \A o \in E : o.flow = handler[h].flow /\ o.kind = "evidence"
    BY <1>4, ObjectIs
  <1>9. \A o \in A : /\ o.flow = handler[h].flow /\ o.kind = "alert"
                     /\ \E p \in AlertPlaces(b) : o.with = {AlertAt(b, p).key}
    BY <1>5, <1>a
  <1>10. \A p \in AlertPlaces(b) : \E o \in A : o.kind = "alert" /\ o.with = {AlertAt(b, p).key}
    <2>1. SUFFICES ASSUME NEW p \in AlertPlaces(b)
                   PROVE  \E o \in A : o.kind = "alert" /\ o.with = {AlertAt(b, p).key}
      OBVIOUS
    <2>2. PICK o : o = AlertObject(h, b, p)
      OBVIOUS
    <2>3. o \in A /\ o.kind = "alert" /\ o.with = {AlertAt(b, p).key}
      BY <1>5, <1>a, <2>2
    <2>4. QED
      BY <2>3
  <1>11. \A o \in G : o.flow = handler[h].flow /\ o.kind = "group" /\ \E i \in 1..Len(gs) : o.about = gs[i].key
    BY <1>2, <1>6, ObjectIs
  <1>12. \A i \in 1..Len(gs) : \E o \in G : o.kind = "group" /\ o.about = gs[i].key
    <2>1. SUFFICES ASSUME NEW i \in 1..Len(gs)
                   PROVE  \E o \in G : o.kind = "group" /\ o.about = gs[i].key
      OBVIOUS
    <2>2. PICK o : o = Object(h, "group", gs[i].key, gs[i].evidence)
      OBVIOUS
    <2>3. o \in G /\ o.kind = "group" /\ o.about = gs[i].key
      BY <1>2, <1>6, <2>2, ObjectIs
    <2>4. QED
      BY <2>3
  <1>13. \A k \in DOMAIN b : \E o \in E : o.kind = "evidence" /\ o.about = k
    <2>1. SUFFICES ASSUME NEW k \in DOMAIN b
                   PROVE  \E o \in E : o.kind = "evidence" /\ o.about = k
      OBVIOUS
    <2>2. PICK o : o = Object(h, "evidence", k, {})
      OBVIOUS
    <2>3. o \in E /\ o.kind = "evidence" /\ o.about = k
      BY <1>3, <1>4, <2>2, ObjectIs
    <2>4. QED
      BY <2>3
  <1>14. PICK S : S = E \cup A \cup G
    OBVIOUS
  <1>15. \A o \in S : o.flow = handler[h].flow /\ o.kind \in {"evidence", "alert", "group"}
    BY <1>8, <1>9, <1>11, <1>14
  <1>16. \A x : (\E o \in S : o.kind = "group" /\ o.about = x) <=> \E i \in 1..Len(gs) : gs[i].key = x
    BY <1>8, <1>9, <1>11, <1>12, <1>14
  <1>17. \A x : (\E o \in S : o.kind = "alert" /\ x \in o.with) <=> \E p \in AlertPlaces(b) : AlertAt(b, p).key = x
    <2>1. ASSUME NEW x, NEW o \in S, o.kind = "alert", x \in o.with
          PROVE  \E p \in AlertPlaces(b) : AlertAt(b, p).key = x
      <3>1. o \in A
        BY <1>8, <1>11, <1>14, <2>1
      <3>2. PICK p \in AlertPlaces(b) : o.with = {AlertAt(b, p).key}
        BY <1>9, <3>1
      <3>3. QED
        BY <2>1, <3>2
    <2>2. ASSUME NEW x, NEW p \in AlertPlaces(b), AlertAt(b, p).key = x
          PROVE  \E o \in S : o.kind = "alert" /\ x \in o.with
      <3>1. PICK o \in A : o.kind = "alert" /\ o.with = {AlertAt(b, p).key}
        BY <1>10
      <3>2. QED
        BY <1>14, <2>2, <3>1
    <2>3. QED
      BY <2>1, <2>2
  <1>18. \A k \in DOMAIN b : \E o \in S : o.kind = "evidence" /\ o.about = k
    BY <1>13, <1>14
  <1>19. QED
    BY <1>1, <1>7, <1>14, <1>15, <1>16, <1>17, <1>18

LEMMA IngestBatchKeeps ==
  ASSUME SocInv, NEW h \in Handlers, IngestBatch(h)
  PROVE  SocInv'
  <1>1. PICK c \in HandlerRecords : c = handler[h]
    BY OwnState
  <1>2. HandlerInv(c, flows, chain, saved) /\ c.at = "ingest" /\ c.events = <<>> /\ Len(flows) \in Nat
    BY <1>1, OwnState DEF IngestBatch, Free
  <1>3. PICK f : f = c.flow
    OBVIOUS
  <1>4. f # 0 /\ f \in 1..Len(flows)
    BY <1>2, <1>3 DEF HandlerInv
  <1>5. PICK b \in Batches : b = flows[f].batch
    <2>1. flows[f] \in FlowRecords
      BY <1>4, OwnState
    <2>2. QED
      BY <2>1 DEF FlowRecords
  <1>6. PICK bad : bad = {k \in DOMAIN b : ~b[k].known \/ b[k].broken}
    OBVIOUS
  <1>7. chain' = chain /\ counter' = counter /\ flows' = flows
    BY DEF IngestBatch
  <1>8. CASE bad # {}
    <2>1. PICK upto : saved' = saved \cup {Object(h, "evidence", k, {}) : k \in 1 .. upto}
                      /\ handler' = [handler EXCEPT ![h] = Resting]
      BY <1>1, <1>3, <1>5, <1>6, <1>8 DEF IngestBatch
    <2>2. PICK S : S = {Object(h, "evidence", k, {}) : k \in 1 .. upto}
      OBVIOUS
    <2>3. \A o \in S : o.flow = handler[h].flow
      BY <2>2, ObjectIs
    <2>4. saved' = saved \cup S
      BY <2>1, <2>2
    <2>5. QED
      BY <1>1, <1>2, <1>7, <2>1, <2>3, <2>4, FailedIngestKeeps
  <1>9. CASE bad = {}
    <2>1. /\ saved' = saved \cup Ingested(h, b)
          /\ handler' = [handler EXCEPT ![h] =
               [handler[h] EXCEPT !.at = "groups", !.groups = AlertGroups(b), !.events = Called]]
      BY <1>1, <1>3, <1>5, <1>6, <1>9 DEF IngestBatch
    <2>2. PICK S : S = Ingested(h, b)
      OBVIOUS
    <2>3. saved' = saved \cup S
      BY <2>1, <2>2
    <2>4. PICK gs \in Seq(GroupRecords) : gs = AlertGroups(b)
      BY AlertGroupsAre
    <2>5. PICK ev \in Seq(EventRecords) : ev = Called /\ Quiet(ev)
      BY TracedCalled
    <2>6. PICK d : d = [c EXCEPT !.at = "groups", !.groups = gs, !.events = ev]
      OBVIOUS
    <2>7. d \in HandlerRecords
      BY <2>6 DEF HandlerRecords
    <2>8. /\ d.at = "groups" /\ d.groups = gs /\ d.events = ev /\ d.flow = f /\ d.step = c.step
          /\ d.waiting = c.waiting
      BY <1>3, <2>6 DEF HandlerRecords
    <2>9. handler' = [handler EXCEPT ![h] = d]
      <3>1. d = [handler[h] EXCEPT !.at = "groups", !.groups = AlertGroups(b), !.events = Called]
        BY <1>1, <2>4, <2>5, <2>6
      <3>2. QED
        BY <2>1, <3>1
    <2>10. Whole(f, <<>>, chain, saved) /\ Progress(c, flows[f].status, saved)
      BY <1>2, <1>3, <1>4 DEF HandlerInv
    <2>11. flows[f].status = "running" /\ c.waiting = FALSE /\ \A o \in saved : o.flow # f
      BY <1>2, <1>3, <2>10 DEF Progress
    <2>12. /\ \A o \in S : o.flow = f /\ o.kind \in {"evidence", "alert", "group"}
           /\ \A x : (\E o \in S : o.kind = "group" /\ o.about = x) <=>
                       \E i \in 1..Len(AlertGroups(b)) : AlertGroups(b)[i].key = x
           /\ \A x : (\E o \in S : o.kind = "alert" /\ x \in o.with) <=>
                       \E p \in AlertPlaces(b) : AlertAt(b, p).key = x
           /\ \A k \in DOMAIN b : \E o \in S : o.kind = "evidence" /\ o.about = k
      BY <1>1, <1>3, <2>2, IngestedAre
    <2>13. /\ Whole(f, ev, chain, saved \cup S) /\ Ahead("groups", f, AlertGroups(b), saved \cup S)
           /\ \A x : ~Has(saved \cup S, f, "plan", x)
      <3>1. PICK ch : ch = chain
        OBVIOUS
      <3>2. PICK sv : sv = saved
        OBVIOUS
      <3>3. Whole(f, <<>>, ch, sv) /\ (\A o \in sv : o.flow # f)
        BY <2>10, <2>11, <3>1, <3>2
      <3>4. /\ Whole(f, ev, ch, sv \cup S) /\ Ahead("groups", f, AlertGroups(b), sv \cup S)
            /\ \A x : ~Has(sv \cup S, f, "plan", x)
        BY <2>5, <2>12, <3>3, IngestWhole
      <3>5. QED
        BY <3>1, <3>2, <3>4
    <2>14. Progress(d, flows[f].status, saved \cup S)
      BY <2>4, <2>8, <2>11, <2>13 DEF Progress
    <2>15. \A o \in S : o.flow = f
      BY <2>12
    <2>16. flows' \in Seq(FlowRecords)
      BY <1>7, OwnState
    <2>17. QED
      BY <1>1, <1>2, <1>3, <1>4, <1>7, <2>3, <2>7, <2>8, <2>9, <2>13, <2>14, <2>15, <2>16, StageStep
  <1>10. QED
    BY <1>8, <1>9

LEMMA TriageIs ==
  ASSUME NEW g
  PROVE  Triage(g).escalate \in BOOLEAN /\ Triage(g).act \in BOOLEAN
  BY DEF Triage

(* The head and the tail of the groups left.                               *)
LEMMA GroupsLeft ==
  ASSUME NEW gs \in Seq(GroupRecords), Len(gs) > 0
  PROVE  Head(gs) = gs[1] /\ gs[1] \in GroupRecords /\ gs[1].key \in Abouts /\ Tail(gs) \in Seq(GroupRecords)
  <1>1. gs # <<>>
    OBVIOUS
  <1>2. Tail(gs) \in Seq(GroupRecords)
    BY <1>1
  <1>3. Head(gs) = gs[1] /\ gs[1] \in GroupRecords
    OBVIOUS
  <1>4. gs[1].key \in Abouts
    BY <1>3 DEF Abouts
  <1>5. QED
    BY <1>2, <1>3, <1>4

(* A handler between two stages of its flow.                               *)
LEMMA BetweenStages ==
  ASSUME SocInv, NEW h \in Handlers, NEW place \in {"groups", "map", "plan"}, Free(h, place)
  PROVE  /\ handler[h].at = place /\ handler[h].events = <<>> /\ handler[h].flow # 0
         /\ handler[h].flow \in 1..Len(flows) /\ handler[h].groups \in Seq(GroupRecords)
         /\ handler[h].waiting \in BOOLEAN
         /\ Whole(handler[h].flow, <<>>, chain, saved) /\ flows[handler[h].flow].status = "running"
         /\ Ahead(place, handler[h].flow, handler[h].groups, saved)
         /\ handler[h].waiting = TRUE <=> \E x : Has(saved, handler[h].flow, "plan", x)
  <1>1. PICK c \in HandlerRecords : c = handler[h]
    BY OwnState
  <1>2. HandlerInv(c, flows, chain, saved) /\ c.at = place /\ c.events = <<>> /\ Len(flows) \in Nat
    BY <1>1, OwnState DEF Free
  <1>3. c.flow # 0 /\ c.flow \in 1..Len(flows)
    BY <1>2 DEF HandlerInv
  <1>4. c.groups \in Seq(GroupRecords) /\ c.waiting \in BOOLEAN
    BY DEF HandlerRecords
  <1>5. Whole(c.flow, <<>>, chain, saved) /\ Progress(c, flows[c.flow].status, saved)
    BY <1>2, <1>3 DEF HandlerInv
  <1>6. /\ flows[c.flow].status = "running" /\ (c.waiting = TRUE <=> \E x : Has(saved, c.flow, "plan", x))
        /\ Ahead(place, c.flow, c.groups, saved)
    BY <1>2, <1>5 DEF Progress
  <1>7. QED
    BY <1>1, <1>2, <1>3, <1>4, <1>5, <1>6

LEMMA TriageGroupKeeps ==
  ASSUME SocInv, NEW h \in Handlers, TriageGroup(h)
  PROVE  SocInv'
  <1>1. PICK c \in HandlerRecords : c = handler[h]
    BY OwnState
  <1>2. PICK f : f = c.flow
    OBVIOUS
  <1>3. PICK gs : gs = c.groups
    OBVIOUS
  <1>4. Free(h, "groups") /\ gs # <<>>
    BY <1>1, <1>3 DEF TriageGroup
  <1>5. /\ c.at = "groups" /\ c.events = <<>> /\ f # 0 /\ gs \in Seq(GroupRecords) /\ c.waiting \in BOOLEAN
        /\ Whole(f, <<>>, chain, saved) /\ flows[f].status = "running" /\ Ahead("groups", f, gs, saved)
        /\ (c.waiting = TRUE <=> \E x : Has(saved, f, "plan", x))
    BY <1>1, <1>2, <1>3, <1>4, BetweenStages
  <1>6. Len(gs) > 0
    BY <1>4, <1>5
  <1>7. PICK g \in GroupRecords : g = gs[1] /\ Head(gs) = g /\ g.key \in Abouts
    BY <1>5, <1>6, GroupsLeft
  <1>8. PICK incident \in BOOLEAN : incident = (Triage(g).escalate /\ SkepticAllows(g))
    BY TriageIs DEF SkepticAllows
  <1>9. incident = TRUE => g.evidence # {}
    BY <1>8 DEF SkepticAllows
  <1>10. PICK run : run = Object(h, "agent_run", g.key, {})
    OBVIOUS
  <1>11. PICK inc : inc = Object(h, "incident", g.key, g.evidence)
    OBVIOUS
  <1>12. /\ run.flow = f /\ run.kind = "agent_run" /\ run.about = g.key
         /\ inc.flow = f /\ inc.kind = "incident" /\ inc.with = g.evidence
    BY <1>1, <1>2, <1>10, <1>11, ObjectIs
  <1>13. PICK S : S = {run} \cup (IF incident THEN {inc} ELSE {})
    OBVIOUS
  <1>14. PICK ev : ev = Traced \o <<Event("agent.run", g.key)>> \o Called
    OBVIOUS
  <1>15. PICK rest \in Seq(GroupRecords) : rest = Tail(gs)
    BY <1>5, <1>6, GroupsLeft
  <1>16. PICK left \in Seq(GroupRecords) : left = IF incident THEN gs ELSE rest
    BY <1>5
  <1>17. PICK at \in {"map", "groups"} : at = IF incident THEN "map" ELSE "groups"
    OBVIOUS
  <1>18. /\ saved' = saved \cup {run} \cup (IF incident THEN {inc} ELSE {})
         /\ handler' = [handler EXCEPT ![h] = [handler[h] EXCEPT !.at = at, !.groups = left, !.events = ev]]
         /\ chain' = chain /\ counter' = counter /\ flows' = flows
    <2>1. incident <=> Triage(g).escalate /\ SkepticAllows(g)
      BY <1>8
    <2>2. saved' = saved \cup {run} \cup (IF Triage(g).escalate /\ SkepticAllows(g) THEN {inc} ELSE {})
      BY <1>1, <1>3, <1>7, <1>10, <1>11 DEF TriageGroup
    <2>3. handler' = [handler EXCEPT ![h] = [handler[h] EXCEPT
              !.at = IF Triage(g).escalate /\ SkepticAllows(g) THEN "map" ELSE "groups",
              !.groups = IF Triage(g).escalate /\ SkepticAllows(g) THEN handler[h].groups ELSE Tail(handler[h].groups),
              !.events = Traced \o <<Event("agent.run", g.key)>> \o Called]]
      BY <1>1, <1>3, <1>7 DEF TriageGroup
    <2>4. /\ at = (IF Triage(g).escalate /\ SkepticAllows(g) THEN "map" ELSE "groups")
          /\ left = (IF Triage(g).escalate /\ SkepticAllows(g) THEN handler[h].groups ELSE Tail(handler[h].groups))
      BY <1>1, <1>3, <1>15, <1>16, <1>17, <2>1
    <2>5. handler' = [handler EXCEPT ![h] = [handler[h] EXCEPT !.at = at, !.groups = left, !.events = ev]]
      BY <1>14, <2>3, <2>4
    <2>6. QED
      BY <2>1, <2>2, <2>5 DEF TriageGroup
  <1>19. ev \in Seq(EventRecords)
    BY <1>7, <1>14, TriageEvents
  <1>20. PICK d : d = [c EXCEPT !.at = at, !.groups = left, !.events = ev]
    OBVIOUS
  <1>21. d \in HandlerRecords
    BY <1>19, <1>20 DEF HandlerRecords
  <1>22. /\ d.at = at /\ d.groups = left /\ d.events = ev /\ d.flow = f /\ d.step = c.step
         /\ d.waiting = c.waiting
    BY <1>2, <1>20 DEF HandlerRecords
  <1>23. handler' = [handler EXCEPT ![h] = d]
    BY <1>1, <1>18, <1>20
  <1>24. saved' = saved \cup S
    BY <1>13, <1>18
  <1>25. \A o \in S : o.flow = f /\ (o = run \/ (o.flow = f /\ o.kind = "incident" /\ o.with = gs[1].evidence /\ o.with # {}))
    BY <1>7, <1>9, <1>12, <1>13
  <1>26. /\ Whole(f, ev, chain, saved \cup S) /\ Ahead("map", f, gs, saved \cup S) /\ Ahead("plan", f, gs, saved \cup S)
         /\ \A x : Has(saved \cup S, f, "plan", x) <=> Has(saved, f, "plan", x)
    <2>1. PICK ch : ch = chain
      OBVIOUS
    <2>2. PICK sv : sv = saved
      OBVIOUS
    <2>3. Whole(f, <<>>, ch, sv) /\ Ahead("groups", f, gs, sv)
      BY <1>5, <2>1, <2>2
    <2>4. ev = TriageList(gs[1].key)
      BY <1>7, <1>14 DEF TriageList
    <2>5. gs \in Seq(GroupRecords)
      BY <1>5
    <2>6. TriageSaves(S, run, f, gs[1])
      BY <1>7, <1>12, <1>13, <1>25 DEF TriageSaves
    <2>7. TriageDone(f, ev, ch, gs, sv, sv \cup S)
      BY ONLY <1>6, <2>3, <2>4, <2>5, <2>6, TriageWhole
    <2>8. QED
      BY <2>1, <2>2, <2>7 DEF TriageDone
  <1>27. Ahead(at, f, left, saved \cup S)
    <2>1. CASE incident
      BY <1>16, <1>17, <1>26, <2>1
    <2>2. CASE ~incident
      <3>1. Ahead("groups", f, rest, saved \cup S)
        BY <1>5, <1>15, <1>26, GroupDone
      <3>2. QED
        BY <1>16, <1>17, <2>2, <3>1
    <2>3. QED
      BY <2>1, <2>2
  <1>28. Progress(d, flows'[f].status, saved \cup S)
    <2>1. flows'[f].status = "running"
      BY <1>5, <1>18
    <2>2. d.waiting = TRUE <=> \E x : Has(saved \cup S, f, "plan", x)
      BY <1>5, <1>22, <1>26
    <2>3. QED
      BY <1>17, <1>22, <1>27, <2>1, <2>2 DEF Progress
  <1>29. Whole(f, d.events, chain, saved \cup S) /\ \A o \in S : o.flow = f
    BY <1>22, <1>25, <1>26
  <1>30. flows' \in Seq(FlowRecords) /\ Len(flows') = Len(flows) /\ \A k \in 1..Len(flows) : k # f => flows'[k] = flows[k]
    BY <1>18, OwnState
  <1>31. handler[h].flow = f /\ handler[h].events = <<>> /\ d.step = handler[h].step
    BY <1>1, <1>2, <1>5, <1>22
  <1>32. QED
    <2>1. /\ d \in HandlerRecords /\ handler' = [handler EXCEPT ![h] = d] /\ f # 0 /\ d.flow = f
          /\ chain' = chain /\ counter' = counter
      BY <1>5, <1>18, <1>21, <1>22, <1>23
    <2>2. SocInv /\ h \in Handlers
      OBVIOUS
    <2>3. QED
      BY ONLY <1>24, <1>28, <1>29, <1>30, <1>31, <2>1, <2>2, StageStep

LEMMA MapIncidentKeeps ==
  ASSUME SocInv, NEW h \in Handlers, MapIncident(h)
  PROVE  SocInv'
  <1>1. PICK c \in HandlerRecords : c = handler[h]
    BY OwnState
  <1>2. PICK f : f = c.flow
    OBVIOUS
  <1>3. PICK gs : gs = c.groups
    OBVIOUS
  <1>4. Free(h, "map")
    BY DEF MapIncident
  <1>5. /\ c.at = "map" /\ c.events = <<>> /\ f # 0 /\ gs \in Seq(GroupRecords) /\ c.waiting \in BOOLEAN
        /\ Whole(f, <<>>, chain, saved) /\ flows[f].status = "running" /\ Ahead("map", f, gs, saved)
        /\ (c.waiting = TRUE <=> \E x : Has(saved, f, "plan", x))
    BY <1>1, <1>2, <1>3, <1>4, BetweenStages
  <1>6. PICK g : g = Head(gs)
    OBVIOUS
  <1>7. PICK S : S = {Object(h, kind, g.key, g.evidence) : kind \in {"mapping", "risk"}}
    OBVIOUS
  <1>8. \A o \in S : o.flow = f /\ o.kind \in {"mapping", "risk"}
    BY <1>1, <1>2, <1>7, ObjectIs
  <1>9. PICK ev \in Seq(EventRecords) : ev = Traced \o Called /\ Quiet(ev)
    BY StageEvents
  <1>10. PICK d : d = [c EXCEPT !.at = "plan", !.events = ev, !.step = "prev"]
    OBVIOUS
  <1>11. d \in HandlerRecords
    BY <1>10 DEF HandlerRecords
  <1>12. /\ d.at = "plan" /\ d.groups = gs /\ d.events = ev /\ d.flow = f /\ d.step = "prev"
         /\ d.waiting = c.waiting
    BY <1>2, <1>3, <1>10 DEF HandlerRecords
  <1>13. handler' = [handler EXCEPT ![h] = d] /\ chain' = chain /\ counter' = counter /\ flows' = flows
    BY <1>1, <1>9, <1>10 DEF MapIncident, Enter
  <1>14. saved' = saved \cup S
    BY <1>1, <1>3, <1>6, <1>7 DEF MapIncident
  <1>15. Whole(f, ev, chain, saved \cup S) /\ Ahead("map", f, gs, saved \cup S)
         /\ \A x : Has(saved \cup S, f, "plan", x) <=> Has(saved, f, "plan", x)
    <2>1. PICK ch : ch = chain
      OBVIOUS
    <2>2. PICK sv : sv = saved
      OBVIOUS
    <2>3. Whole(f, <<>>, ch, sv) /\ Ahead("map", f, gs, sv)
      BY <1>5, <2>1, <2>2
    <2>4. (\A o \in S : o.kind \in {"mapping", "risk", "plan", "decision"}) /\ (\A o \in S : o.kind # "plan")
      BY <1>8
    <2>5. Whole(f, ev, ch, sv \cup S) /\ Ahead("map", f, gs, sv \cup S)
      BY <1>9, <2>3, <2>4, StageWhole
    <2>6. \A x : Has(sv \cup S, f, "plan", x) <=> Has(sv, f, "plan", x)
      BY <2>4, OtherKinds
    <2>7. QED
      BY <2>1, <2>2, <2>5, <2>6
  <1>16. Ahead("plan", f, gs, saved \cup S)
    BY <1>15 DEF Ahead
  <1>17. Progress(d, flows'[f].status, saved \cup S)
    <2>1. flows'[f].status = "running"
      BY <1>5, <1>13
    <2>2. d.waiting = TRUE <=> \E x : Has(saved \cup S, f, "plan", x)
      BY <1>5, <1>12, <1>15
    <2>3. QED
      BY <1>12, <1>16, <2>1, <2>2 DEF Progress
  <1>18. Whole(f, d.events, chain, saved \cup S) /\ \A o \in S : o.flow = f
    BY <1>8, <1>12, <1>15
  <1>19. flows' \in Seq(FlowRecords) /\ Len(flows') = Len(flows) /\ \A k \in 1..Len(flows) : k # f => flows'[k] = flows[k]
    BY <1>13, OwnState
  <1>20. handler[h].flow = f /\ handler[h].events = <<>>
    BY <1>1, <1>2, <1>5
  <1>21. QED
    BY <1>5, <1>11, <1>12, <1>13, <1>14, <1>17, <1>18, <1>19, <1>20, StageStep

LEMMA PlanRemediationKeeps ==
  ASSUME SocInv, NEW h \in Handlers, PlanRemediation(h)
  PROVE  SocInv'
  <1>1. PICK c \in HandlerRecords : c = handler[h]
    BY OwnState
  <1>2. PICK f : f = c.flow
    OBVIOUS
  <1>3. PICK gs : gs = c.groups
    OBVIOUS
  <1>4. Free(h, "plan")
    BY DEF PlanRemediation
  <1>5. /\ c.at = "plan" /\ c.events = <<>> /\ f # 0 /\ gs \in Seq(GroupRecords) /\ c.waiting \in BOOLEAN
        /\ Whole(f, <<>>, chain, saved) /\ flows[f].status = "running" /\ Ahead("plan", f, gs, saved)
        /\ (c.waiting = TRUE <=> \E x : Has(saved, f, "plan", x))
    BY <1>1, <1>2, <1>3, <1>4, BetweenStages
  <1>6. Len(gs) > 0
    BY <1>5 DEF Ahead
  <1>7. PICK g \in GroupRecords : g = gs[1] /\ Head(gs) = g /\ g.key \in Abouts
    BY <1>5, <1>6, GroupsLeft
  <1>8. PICK drafted \in BOOLEAN : drafted = Triage(g).act
    BY TriageIs
  <1>9. PICK plan : plan = Object(h, "plan", g.key, {"proposed"})
    OBVIOUS
  <1>10. PICK decision : decision = Object(h, "decision", g.key, {Gated(g.host)})
    OBVIOUS
  <1>11. /\ plan.flow = f /\ plan.kind = "plan" /\ plan.about = g.key
         /\ decision.flow = f /\ decision.kind = "decision"
    BY <1>1, <1>2, <1>9, <1>10, ObjectIs
  <1>12. PICK S : S = IF drafted THEN {plan, decision} ELSE {}
    OBVIOUS
  <1>13. PICK ev : ev = Traced \o
                 (IF drafted THEN <<Event("plan.created", g.key), Event("step.ran", 0),
                                    Event("policy.decision", g.key)>> \o Called
                  ELSE <<>>)
    OBVIOUS
  <1>14. /\ ev \in Seq(EventRecords) /\ Quiet(ev)
         /\ drafted = TRUE => /\ 3 \in 1..Len(ev) /\ 5 \in 1..Len(ev)
                              /\ ev[3] = Event("plan.created", g.key) /\ ev[5] = Event("policy.decision", g.key)
    <2>1. CASE drafted = TRUE
      <3>1. ev = Traced \o (<<Event("plan.created", g.key), Event("step.ran", 0), Event("policy.decision", g.key)>> \o Called)
        BY <1>13, <2>1
      <3>2. QED
        BY <1>7, <3>1, PlanEvents
    <2>2. CASE drafted = FALSE
      <3>1. ev = Traced \o <<>>
        BY <1>13, <2>2
      <3>2. QED
        BY <2>2, <3>1, StageEvents
    <2>3. QED
      BY <2>1, <2>2
  <1>15. PICK rest \in Seq(GroupRecords) : rest = Tail(gs)
    BY <1>5, <1>6, GroupsLeft
  <1>16. PICK waits \in BOOLEAN : waits = (c.waiting \/ drafted)
    BY <1>5
  <1>17. PICK d : d = [c EXCEPT !.at = "groups", !.groups = rest, !.waiting = waits, !.events = ev]
    OBVIOUS
  <1>18. d \in HandlerRecords
    BY <1>14, <1>17 DEF HandlerRecords
  <1>19. /\ d.at = "groups" /\ d.groups = rest /\ d.events = ev /\ d.flow = f /\ d.step = c.step
         /\ d.waiting = waits
    BY <1>2, <1>17 DEF HandlerRecords
  <1>20. /\ saved' = saved \cup S /\ handler' = [handler EXCEPT ![h] = d]
         /\ chain' = chain /\ counter' = counter /\ flows' = flows
    <2>1. saved' = IF Triage(g).act THEN saved \cup {plan, decision} ELSE saved
      BY <1>1, <1>3, <1>7, <1>9, <1>10 DEF PlanRemediation
    <2>2. handler' = [handler EXCEPT ![h] = [handler[h] EXCEPT
              !.at = "groups", !.groups = Tail(handler[h].groups), !.waiting = handler[h].waiting \/ Triage(g).act,
              !.events = Traced \o
                 (IF Triage(g).act THEN <<Event("plan.created", g.key), Event("step.ran", 0),
                                          Event("policy.decision", g.key)>> \o Called
                  ELSE <<>>)]]
      BY <1>1, <1>3, <1>7 DEF PlanRemediation
    <2>3. handler' = [handler EXCEPT ![h] = [c EXCEPT !.at = "groups", !.groups = rest, !.waiting = waits, !.events = ev]]
      BY <1>1, <1>3, <1>8, <1>13, <1>15, <1>16, <2>2
    <2>4. saved' = saved \cup S
      BY <1>8, <1>12, <2>1
    <2>5. QED
      BY <1>17, <2>3, <2>4 DEF PlanRemediation
  <1>21. \A o \in S : o.flow = f /\ o.kind \in {"mapping", "risk", "plan", "decision"}
    BY <1>11, <1>12
  <1>22. \A o \in S : o.kind = "plan" => o = plan /\ drafted = TRUE
    BY <1>11, <1>12
  <1>23. Whole(f, ev, chain, saved \cup S) /\ Ahead("plan", f, gs, saved \cup S)
    <2>1. PICK ch : ch = chain
      OBVIOUS
    <2>2. PICK sv : sv = saved
      OBVIOUS
    <2>3. Whole(f, <<>>, ch, sv) /\ Ahead("plan", f, gs, sv)
      BY <1>5, <2>1, <2>2
    <2>4. \A o \in S : o.kind \in {"mapping", "risk", "plan", "decision"}
      BY <1>21
    <2>5. drafted = TRUE => InOrder(ch, ev, f, g.key)
      BY <1>14 DEF InOrder
    <2>6. \A o \in S : o.kind = "plan" => InOrder(ch, ev, f, o.about)
      BY <1>11, <1>22, <2>5
    <2>7. ev \in Seq(EventRecords) /\ Quiet(ev)
      BY <1>14
    <2>8. Whole(f, ev, ch, sv \cup S) /\ Ahead("plan", f, gs, sv \cup S)
      BY ONLY <2>3, <2>4, <2>6, <2>7, StageWhole
    <2>9. QED
      BY <2>1, <2>2, <2>8
  <1>24. Ahead("groups", f, rest, saved \cup S)
    BY <1>5, <1>15, <1>23, GroupDone
  <1>25. waits = TRUE <=> \E x : Has(saved \cup S, f, "plan", x)
    <2>1. waits = TRUE <=> c.waiting = TRUE \/ drafted = TRUE
      BY <1>5, <1>16
    <2>2. (\E x : Has(saved \cup S, f, "plan", x)) <=> (\E x : Has(saved, f, "plan", x)) \/ drafted = TRUE
      <3>1. CASE drafted = TRUE
        <4>1. plan \in saved \cup S
          BY <1>12, <3>1
        <4>2. Has(saved \cup S, f, "plan", g.key)
          BY <1>11, <4>1 DEF Has
        <4>3. QED
          BY <3>1, <4>2
      <3>2. CASE drafted = FALSE
        <4>1. saved \cup S = saved
          BY <1>12, <3>2
        <4>2. QED
          BY <3>2, <4>1
      <3>3. QED
        BY <3>1, <3>2
    <2>3. QED
      BY <1>5, <2>1, <2>2
  <1>26. Progress(d, flows'[f].status, saved \cup S)
    <2>1. flows'[f].status = "running"
      BY <1>5, <1>20
    <2>2. QED
      BY <1>19, <1>24, <1>25, <2>1 DEF Progress
  <1>27. Whole(f, d.events, chain, saved \cup S) /\ \A o \in S : o.flow = f
    BY <1>19, <1>21, <1>23
  <1>28. flows' \in Seq(FlowRecords) /\ Len(flows') = Len(flows) /\ \A k \in 1..Len(flows) : k # f => flows'[k] = flows[k]
    BY <1>20, OwnState
  <1>29. handler[h].flow = f /\ handler[h].events = <<>> /\ d.step = handler[h].step
    BY <1>1, <1>2, <1>5, <1>19
  <1>30. d \in HandlerRecords /\ f # 0 /\ d.flow = f
    BY <1>5, <1>18, <1>19
  <1>31. SocInv /\ h \in Handlers
    OBVIOUS
  <1>32. QED
    BY ONLY <1>20, <1>26, <1>27, <1>28, <1>29, <1>30, <1>31, StageStep

LEMMA FinishFlowKeeps ==
  ASSUME SocInv, NEW h \in Handlers, FinishFlow(h)
  PROVE  SocInv'
  <1>1. PICK c \in HandlerRecords : c = handler[h]
    BY OwnState
  <1>2. PICK f : f = c.flow
    OBVIOUS
  <1>3. Free(h, "groups") /\ c.groups = <<>>
    BY <1>1 DEF FinishFlow
  <1>4. /\ c.at = "groups" /\ c.events = <<>> /\ f # 0 /\ c.waiting \in BOOLEAN /\ f \in 1..Len(flows)
        /\ Whole(f, <<>>, chain, saved) /\ flows[f].status = "running" /\ Ahead("groups", f, <<>>, saved)
        /\ (c.waiting = TRUE <=> \E x : Has(saved, f, "plan", x))
    BY <1>1, <1>2, <1>3, BetweenStages
  <1>5. PICK status \in {"completed", "waiting_for_approval"} :
          status = IF c.waiting THEN "waiting_for_approval" ELSE "completed"
    OBVIOUS
  <1>6. PICK r : r = [flows[f] EXCEPT !.status = status]
    OBVIOUS
  <1>7. r \in FlowRecords /\ r.status = status
    <2>1. flows[f] \in FlowRecords
      BY <1>4, OwnState
    <2>2. QED
      BY <1>6, <2>1 DEF FlowRecords
  <1>8. flows' = [flows EXCEPT ![f] = r]
    BY <1>1, <1>2, <1>5, <1>6 DEF FinishFlow
  <1>9. /\ flows' \in Seq(FlowRecords) /\ Len(flows') = Len(flows) /\ flows'[f] = r
        /\ \A k \in 1..Len(flows) : k # f => flows'[k] = flows[k]
    <2>1. flows \in Seq(FlowRecords)
      BY OwnState
    <2>2. QED
      BY <1>4, <1>7, <1>8, <2>1
  <1>10. PICK ev \in Seq(EventRecords) : ev = <<Event("flow.status_changed", 0)>> /\ Quiet(ev)
    BY StageEvents
  <1>11. PICK d : d = [c EXCEPT !.at = "idle", !.events = ev, !.step = "prev"]
    OBVIOUS
  <1>12. d \in HandlerRecords
    BY <1>11 DEF HandlerRecords
  <1>13. d.at = "idle" /\ d.events = ev /\ d.flow = f /\ d.step = "prev"
    BY <1>2, <1>11 DEF HandlerRecords
  <1>14. handler' = [handler EXCEPT ![h] = d] /\ chain' = chain /\ counter' = counter /\ saved' = saved
    BY <1>1, <1>10, <1>11 DEF FinishFlow, Enter
  <1>15. saved \cup {} = saved
    OBVIOUS
  <1>16. Whole(f, ev, chain, saved \cup {})
    <2>1. PICK ch : ch = chain
      OBVIOUS
    <2>2. PICK sv : sv = saved
      OBVIOUS
    <2>3. Whole(f, <<>>, ch, sv) /\ Ahead("groups", f, <<>>, sv)
      BY <1>4, <2>1, <2>2
    <2>4. (\A o \in {} : o.kind \in {"mapping", "risk", "plan", "decision"})
          /\ (\A o \in {} : o.kind = "plan" => InOrder(ch, ev, f, o.about))
      OBVIOUS
    <2>5. ev \in Seq(EventRecords) /\ Quiet(ev)
      BY <1>10
    <2>6. Whole(f, ev, ch, sv \cup {})
      BY ONLY <2>3, <2>4, <2>5, StageWhole
    <2>7. QED
      BY <2>1, <2>2, <2>6
  <1>17. EndsRight(f, status, saved)
    <2>1. Len(<<>>) = 0 /\ \A i \in 1..Len(<<>>) : FALSE
      OBVIOUS
    <2>2. \A x : Has(saved, f, "group", x) => Has(saved, f, "agent_run", x)
      BY <1>4, <2>1 DEF Ahead
    <2>3. status = "waiting_for_approval" <=> c.waiting = TRUE
      BY <1>4, <1>5
    <2>4. QED
      BY <1>4, <2>2, <2>3 DEF EndsRight
  <1>18. Progress(d, flows'[f].status, saved \cup {})
    <2>1. flows'[f].status = status /\ status # "running"
      BY <1>5, <1>7, <1>9
    <2>2. QED
      BY <1>13, <1>15, <1>17, <2>1 DEF Progress
  <1>19. Whole(f, d.events, chain, saved \cup {}) /\ saved' = saved \cup {} /\ \A o \in {} : o.flow = f
    BY <1>13, <1>14, <1>15, <1>16
  <1>20. handler[h].flow = f /\ handler[h].events = <<>> /\ f # 0 /\ d \in HandlerRecords
    BY <1>1, <1>2, <1>4, <1>12
  <1>21. SocInv /\ h \in Handlers
    OBVIOUS
  <1>22. PICK S : S = {}
    OBVIOUS
  <1>23. /\ saved' = saved \cup S /\ (\A o \in S : o.flow = f) /\ Whole(f, d.events, chain, saved \cup S)
         /\ Progress(d, flows'[f].status, saved \cup S)
    BY <1>18, <1>19, <1>22
  <1>24. QED
    BY ONLY <1>9, <1>13, <1>14, <1>20, <1>21, <1>23, StageStep

LEMMA SocInitOk == SocInit => SocInv
  <1>1. SUFFICES ASSUME SocInit
                 PROVE  SocInv
    OBVIOUS
  <1>2. /\ Resting \in HandlerRecords /\ Resting.flow = 0 /\ Resting.at = "idle" /\ Resting.events = <<>>
        /\ Resting.step = "none"
    <2>1. <<>> \in Seq(GroupRecords) /\ <<>> \in Seq(EventRecords)
      OBVIOUS
    <2>2. QED
      BY <2>1 DEF Resting, HandlerRecords
  <1>3. chain = <<>> /\ counter = 0 /\ flows = <<>> /\ saved = {} /\ handler = [h \in Handlers |-> Resting]
    BY <1>1 DEF SocInit
  <1>4. chain \in Seq(EntryRecords) /\ flows \in Seq(FlowRecords) /\ Len(chain) = 0 /\ Len(flows) = 0 /\ counter \in Nat
    BY <1>3
  <1>5. handler \in [Handlers -> HandlerRecords] /\ \A h \in Handlers : handler[h] = Resting
    BY <1>2, <1>3
  <1>6. SocTyped
    BY <1>3, <1>4, <1>5 DEF SocTyped
  <1>7. OwnFlows
    BY <1>2, <1>5 DEF OwnFlows
  <1>8. \A h \in Handlers : HandlerInv(handler[h], flows, chain, saved)
    <2>1. Len(<<>>) = 0
      OBVIOUS
    <2>2. QED
      BY <1>2, <1>4, <1>5, <2>1 DEF HandlerInv
  <1>9. QED
    BY <1>4, <1>6, <1>7, <1>8 DEF SocInv

LEMMA SocStutter == SocInv /\ UNCHANGED socVars => SocInv'
  <1>1. SUFFICES ASSUME SocInv, UNCHANGED socVars
                 PROVE  SocInv'
    OBVIOUS
  <1>2. chain' = chain /\ counter' = counter /\ flows' = flows /\ saved' = saved /\ handler' = handler
    BY <1>1 DEF socVars
  <1>3. QED
    BY <1>1, <1>2 DEF SocInv, SocTyped, OwnFlows

LEMMA SocInvariant == SocSpec => []SocInv
  <1>1. SocInv /\ [SocNext]_socVars => SocInv'
    <2>1. SUFFICES ASSUME SocInv, SocNext
                   PROVE  SocInv'
      BY SocStutter
    <2>2. PICK h \in Handlers : \/ ReadPrev(h) \/ Number(h) \/ AppendEntry(h)
                                \/ StartFlow(h) \/ IngestBatch(h) \/ TriageGroup(h) \/ MapIncident(h)
                                \/ PlanRemediation(h) \/ FinishFlow(h)
      BY <2>1 DEF SocNext
    <2>3. QED
      BY <2>1, <2>2, ReadPrevKeeps, NumberKeeps, AppendEntryKeeps, StartFlowKeeps, IngestBatchKeeps,
         TriageGroupKeeps, MapIncidentKeeps, PlanRemediationKeeps, FinishFlowKeeps
  <1>2. QED
    BY <1>1, SocInitOk, PTL DEF SocSpec

(* A flow that has ended.                                                  *)
LEMMA SettledWhole ==
  ASSUME SocInv, NEW f \in DOMAIN flows, Settled(f)
  PROVE  Whole(f, <<>>, chain, saved) /\ EndsRight(f, flows[f].status, saved)
  <1>1. f \in 1..Len(flows) /\ f # 0
    BY DEF SocInv, SocTyped
  <1>2. flows[f].status # "running"
    BY DEF Settled
  <1>3. CASE \E h \in Handlers : handler[h].flow = f
    <2>1. PICK h \in Handlers : handler[h].flow = f
      BY <1>3
    <2>2. PICK c : c = handler[h]
      OBVIOUS
    <2>3. c.flow = f /\ c.at = "idle" /\ c.events = <<>> /\ HandlerInv(c, flows, chain, saved)
      BY <2>1, <2>2, OwnState DEF Settled, Free
    <2>4. Whole(f, <<>>, chain, saved) /\ Progress(c, flows[f].status, saved)
      BY <1>1, <2>3 DEF HandlerInv
    <2>5. QED
      BY <2>3, <2>4 DEF Progress
  <1>4. CASE \A h \in Handlers : handler[h].flow # f
    <2>1. FlowInv(f, flows, chain, saved)
      BY <1>1, <1>4 DEF SocInv
    <2>2. QED
      BY <1>2, <2>1 DEF FlowInv
  <1>5. QED
    BY <1>3, <1>4

LEMMA WholeRecords ==
  ASSUME SocInv, NEW f \in DOMAIN flows, Settled(f)
  PROVE  /\ {o.about : o \in Of(f, "group")} = UNION {o.with : o \in Of(f, "alert")}
         /\ \A g \in Of(f, "group") : Cardinality(Recorded(f, "agent.run", g.about)) = 1
         /\ \A i \in Of(f, "incident") :
              i.with # {} /\ i.with \subseteq {o.about : o \in Of(f, "evidence")}
         /\ \A p \in Of(f, "plan") :
              \E j \in Recorded(f, "plan.created", p.about), k \in Recorded(f, "policy.decision", p.about) : j < k
         /\ (flows[f].status = "waiting_for_approval") <=> Of(f, "plan") # {}
  <1>1. Whole(f, <<>>, chain, saved) /\ EndsRight(f, flows[f].status, saved)
    BY SettledWhole
  <1>2. \A kind, x : Has(saved, f, kind, x) <=> \E o \in Of(f, kind) : o.about = x
    BY DEF Has, Of
  <1>3. Len(<<>>) = 0 /\ \A i \in 1..Len(<<>>) : FALSE
    OBVIOUS
  <1>4. DOMAIN chain = 1..Len(chain) /\ Len(chain) \in Nat
    <2>1. chain \in Seq(EntryRecords)
      BY DEF SocInv, SocTyped
    <2>2. QED
      BY <2>1
  <1>5. {o.about : o \in Of(f, "group")} = UNION {o.with : o \in Of(f, "alert")}
    <2>1. \A x : (\E o \in Of(f, "group") : o.about = x) <=> \E o \in Of(f, "alert") : x \in o.with
      <3>1. \A x : Has(saved, f, "group", x) <=> \E o \in saved : o.flow = f /\ o.kind = "alert" /\ x \in o.with
        BY <1>1 DEF Whole
      <3>2. \A x : (\E o \in saved : o.flow = f /\ o.kind = "alert" /\ x \in o.with) <=>
                     \E o \in Of(f, "alert") : x \in o.with
        BY DEF Of
      <3>3. QED
        BY <1>2, <3>1, <3>2
    <2>2. QED
      BY <2>1
  <1>6. ASSUME NEW g \in Of(f, "group")
        PROVE  Cardinality(Recorded(f, "agent.run", g.about)) = 1
    <2>1. PICK x : x = g.about
      OBVIOUS
    <2>2. Has(saved, f, "agent_run", x)
      <3>1. Has(saved, f, "group", x)
        BY <1>2, <2>1
      <3>2. QED
        BY <1>1, <3>1 DEF EndsRight
    <2>3. Once(chain, <<>>, f, "agent.run", x)
      BY <1>1, <2>2 DEF Whole
    <2>4. PICK k \in 1..Len(chain) : /\ Tells(chain[k], f, "agent.run", x)
                                     /\ \A j \in 1..Len(chain) : Tells(chain[j], f, "agent.run", x) => j = k
      BY <1>3, <2>3 DEF Once
    <2>5. Recorded(f, "agent.run", x) = {j \in 1..Len(chain) : Tells(chain[j], f, "agent.run", x)}
      BY <1>4 DEF Recorded, Tells
    <2>6. Recorded(f, "agent.run", x) = {k}
      BY <2>4, <2>5
    <2>7. QED
      BY <2>1, <2>6, FS_Singleton
  <1>7. ASSUME NEW i \in Of(f, "incident")
        PROVE  i.with # {} /\ i.with \subseteq {o.about : o \in Of(f, "evidence")}
    <2>1. i \in saved /\ i.flow = f /\ i.kind = "incident"
      BY DEF Of
    <2>2. i.with # {} /\ \A x \in i.with : Has(saved, f, "evidence", x)
      BY <1>1, <2>1 DEF Whole
    <2>3. \A x \in i.with : \E o \in Of(f, "evidence") : o.about = x
      BY <1>2, <2>2
    <2>4. QED
      BY <2>2, <2>3
  <1>8. ASSUME NEW p \in Of(f, "plan")
        PROVE  \E j \in Recorded(f, "plan.created", p.about), k \in Recorded(f, "policy.decision", p.about) : j < k
    <2>1. PICK x : x = p.about
      OBVIOUS
    <2>2. InOrder(chain, <<>>, f, x)
      BY <1>1, <1>2, <2>1 DEF Whole
    <2>3. PICK j \in 1..Len(chain), k \in 1..Len(chain) :
            j < k /\ Tells(chain[j], f, "plan.created", x) /\ Tells(chain[k], f, "policy.decision", x)
      BY <1>3, <2>2 DEF InOrder
    <2>4. j \in Recorded(f, "plan.created", x) /\ k \in Recorded(f, "policy.decision", x)
      BY <1>4, <2>3 DEF Recorded, Tells
    <2>5. QED
      BY <2>1, <2>3, <2>4
  <1>9. (flows[f].status = "waiting_for_approval") <=> Of(f, "plan") # {}
    <2>1. flows[f].status = "waiting_for_approval" <=> \E x : Has(saved, f, "plan", x)
      BY <1>1 DEF EndsRight
    <2>2. (\E x : Has(saved, f, "plan", x)) <=> Of(f, "plan") # {}
      BY <1>2
    <2>3. QED
      BY <2>1, <2>2
  <1>10. QED
    BY <1>5, <1>6, <1>7, <1>8, <1>9

LEMMA SocInvWhole == SocInv => FlowRecordIsWhole
  <1>1. SUFFICES ASSUME SocInv
                 PROVE  FlowRecordIsWhole
    OBVIOUS
  <1>2. QED
    BY <1>1, WholeRecords DEF FlowRecordIsWhole

(* FlowRecordIsWhole (SocWorkflow), for any number of requests at a time: a *)
(* flow of the orchestrator that has ended has its groups, its agent runs   *)
(* recorded once each, incidents with stored evidence, plans recorded       *)
(* before their decisions, and the status that fits its plans.              *)
THEOREM FlowRecordHolds == SocSpec => []FlowRecordIsWhole
  BY SocInvariant, SocInvWhole, PTL

(* The chain, while one request is served at a time.                       *)
ChainInv ==
  /\ \A k \in 1..Len(chain) : chain[k].prev = k - 1
  /\ \A h \in Handlers : handler[h].step \in {"number", "append"} => handler[h].prev = Len(chain)

LEMMA ChainStays ==
  ASSUME SocInv, ChainInv, NEW h \in Handlers, NEW d, handler' = [handler EXCEPT ![h] = d], chain' = chain,
         d.step \in {"number", "append"} => d.prev = Len(chain)
  PROVE  ChainInv'
  <1>1. handler \in [Handlers -> HandlerRecords]
    BY DEF SocInv, SocTyped
  <1>2. handler'[h] = d /\ \A g \in Handlers : g # h => handler'[g] = handler[g]
    BY <1>1
  <1>3. \A g \in Handlers : handler'[g].step \in {"number", "append"} => handler'[g].prev = Len(chain)
    BY <1>2 DEF ChainInv
  <1>4. QED
    BY <1>3 DEF ChainInv

(* A stage starts when nothing is left to record.                          *)
LEMMA NothingNumbered ==
  ASSUME SocInv, NEW h \in Handlers, handler[h].events = <<>>
  PROVE  handler[h].step \notin {"number", "append"}
  <1>1. HandlerInv(handler[h], flows, chain, saved)
    BY OwnState
  <1>2. Len(<<>>) = 0
    OBVIOUS
  <1>3. QED
    BY <1>1, <1>2 DEF HandlerInv

LEMMA AppendKeepsChain ==
  ASSUME SocInv, ChainInv, NEW h \in Handlers, \A g \in Handlers : g = h, AppendEntry(h)
  PROVE  ChainInv'
  <1>1. handler[h].prev = Len(chain)
    BY DEF ChainInv, AppendEntry
  <1>2. PICK n \in Nat : n = Len(chain)
    BY OwnState
  <1>3. PICK e : e = [id |-> counter, kind |-> Head(handler[h].events).kind,
                      flow |-> handler[h].flow, about |-> Head(handler[h].events).about, prev |-> n]
    OBVIOUS
  <1>4. e.prev = n /\ chain' = Append(chain, e)
    BY <1>1, <1>2, <1>3 DEF AppendEntry
  <1>5. chain \in Seq(EntryRecords)
    BY OwnState
  <1>6. Len(chain') = n + 1 /\ chain'[n + 1] = e /\ \A k \in 1..n : chain'[k] = chain[k]
    BY <1>2, <1>4, <1>5
  <1>7. \A k \in 1..Len(chain') : chain'[k].prev = k - 1
    <2>1. SUFFICES ASSUME NEW k \in 1..Len(chain')
                   PROVE  chain'[k].prev = k - 1
      OBVIOUS
    <2>2. CASE k \in 1..n
      BY <1>2, <1>6, <2>2 DEF ChainInv
    <2>3. CASE k = n + 1
      BY <1>4, <1>6, <2>3
    <2>4. k \in 1..n \/ k = n + 1
      BY <1>6
    <2>5. QED
      BY <2>2, <2>3, <2>4
  <1>8. handler'[h].step = "prev"
    <2>1. handler \in [Handlers -> HandlerRecords] /\ handler[h] \in HandlerRecords
      BY OwnState
    <2>2. PICK d : d = [handler[h] EXCEPT !.events = Tail(handler[h].events), !.step = "prev"]
      OBVIOUS
    <2>3. d.step = "prev"
      BY <2>1, <2>2 DEF HandlerRecords
    <2>4. handler' = [handler EXCEPT ![h] = d]
      BY <2>2 DEF AppendEntry
    <2>5. QED
      BY <2>1, <2>3, <2>4
  <1>9. \A g \in Handlers : handler'[g].step \notin {"number", "append"}
    BY <1>8
  <1>10. QED
    BY <1>7, <1>9 DEF ChainInv

LEMMA StageKeepsChain ==
  ASSUME SocInv, ChainInv, NEW h \in Handlers,
         StartFlow(h) \/ IngestBatch(h) \/ TriageGroup(h) \/ MapIncident(h) \/ PlanRemediation(h) \/ FinishFlow(h)
  PROVE  ChainInv'
  <1>1. PICK c \in HandlerRecords : c = handler[h]
    BY OwnState
  <1>2. c.events = <<>> /\ chain' = chain
    BY <1>1 DEF StartFlow, IngestBatch, TriageGroup, MapIncident, PlanRemediation, FinishFlow, Free
  <1>3. c.step \notin {"number", "append"}
    BY <1>1, <1>2, NothingNumbered
  <1>4. \A at, ev : [c EXCEPT !.at = at, !.events = ev, !.step = "prev"].step = "prev"
    BY DEF HandlerRecords
  <1>5. \A at, gs, ev : [c EXCEPT !.at = at, !.groups = gs, !.events = ev].step = c.step
    BY DEF HandlerRecords
  <1>6. \A at, gs, w, ev : [c EXCEPT !.at = at, !.groups = gs, !.waiting = w, !.events = ev].step = c.step
    BY DEF HandlerRecords
  <1>7. \E d : handler' = [handler EXCEPT ![h] = d] /\ d.step \notin {"number", "append"}
    <2>1. CASE StartFlow(h)
      <3>1. PICK d : d = [Resting EXCEPT !.at = "ingest", !.flow = Len(flows) + 1, !.step = "prev",
                                         !.events = <<Event("flow.started", 0)>> \o Traced]
        OBVIOUS
      <3>2. d.step = "prev"
        BY <3>1 DEF Resting
      <3>3. handler' = [handler EXCEPT ![h] = d]
        BY <2>1, <3>1 DEF StartFlow
      <3>4. QED
        BY <3>2, <3>3
    <2>2. CASE IngestBatch(h)
      <3>1. PICK b : b = flows[handler[h].flow].batch
        OBVIOUS
      <3>2. PICK d : d = [c EXCEPT !.at = "groups", !.groups = AlertGroups(b), !.events = Called]
        OBVIOUS
      <3>3. d.step = c.step /\ Resting.step = "none"
        BY <1>5, <3>2 DEF Resting
      <3>4. handler' = [handler EXCEPT ![h] = Resting] \/ handler' = [handler EXCEPT ![h] = d]
        BY <1>1, <2>2, <3>1, <3>2 DEF IngestBatch
      <3>5. QED
        BY <1>3, <3>3, <3>4
    <2>3. CASE TriageGroup(h)
      <3>1. PICK at, gs, ev : handler' = [handler EXCEPT ![h] = [handler[h] EXCEPT !.at = at, !.groups = gs, !.events = ev]]
        BY <2>3 DEF TriageGroup
      <3>2. PICK d : d = [c EXCEPT !.at = at, !.groups = gs, !.events = ev]
        OBVIOUS
      <3>3. d.step = c.step
        BY <1>5, <3>2
      <3>4. handler' = [handler EXCEPT ![h] = d]
        BY <1>1, <3>1, <3>2
      <3>5. QED
        BY <1>3, <3>3, <3>4
    <2>4. CASE MapIncident(h)
      <3>1. PICK ev : handler' = [handler EXCEPT ![h] = [handler[h] EXCEPT !.at = "plan", !.events = ev, !.step = "prev"]]
        BY <2>4 DEF MapIncident, Enter
      <3>2. QED
        BY <1>1, <1>4, <3>1
    <2>5. CASE PlanRemediation(h)
      <3>1. PICK gs, w, ev : handler' = [handler EXCEPT ![h] =
                [handler[h] EXCEPT !.at = "groups", !.groups = gs, !.waiting = w, !.events = ev]]
        BY <2>5 DEF PlanRemediation
      <3>2. PICK d : d = [c EXCEPT !.at = "groups", !.groups = gs, !.waiting = w, !.events = ev]
        OBVIOUS
      <3>3. d.step = c.step
        BY <1>6, <3>2
      <3>4. handler' = [handler EXCEPT ![h] = d]
        BY <1>1, <3>1, <3>2
      <3>5. QED
        BY <1>3, <3>3, <3>4
    <2>6. CASE FinishFlow(h)
      <3>1. PICK ev : handler' = [handler EXCEPT ![h] = [handler[h] EXCEPT !.at = "idle", !.events = ev, !.step = "prev"]]
        BY <2>6 DEF FinishFlow, Enter
      <3>2. QED
        BY <1>1, <1>4, <3>1
    <2>7. QED
      BY <2>1, <2>2, <2>3, <2>4, <2>5, <2>6
  <1>8. PICK d : handler' = [handler EXCEPT ![h] = d] /\ d.step \notin {"number", "append"}
    BY <1>7
  <1>9. QED
    BY <1>2, <1>8, ChainStays

LEMMA RecordKeepsChain ==
  ASSUME SocInv, ChainInv, NEW h \in Handlers, ReadPrev(h) \/ Number(h)
  PROVE  ChainInv'
  <1>1. PICK c \in HandlerRecords : c = handler[h]
    BY OwnState
  <1>2. CASE ReadPrev(h)
    <2>1. PICK n \in Nat : n = Len(chain)
      BY OwnState
    <2>2. PICK d : d = [c EXCEPT !.prev = n, !.step = "number"]
      OBVIOUS
    <2>3. d.prev = n
      BY <2>2 DEF HandlerRecords
    <2>4. handler' = [handler EXCEPT ![h] = d] /\ chain' = chain
      BY <1>1, <1>2, <2>1, <2>2 DEF ReadPrev
    <2>5. QED
      BY <2>1, <2>3, <2>4, ChainStays
  <1>3. CASE Number(h)
    <2>1. PICK d : d = [c EXCEPT !.step = "append"]
      OBVIOUS
    <2>2. d.prev = c.prev
      BY <2>1 DEF HandlerRecords
    <2>3. c.prev = Len(chain)
      BY <1>1, <1>3 DEF Number, ChainInv
    <2>4. handler' = [handler EXCEPT ![h] = d] /\ chain' = chain
      BY <1>1, <1>3, <2>1 DEF Number
    <2>5. QED
      BY <2>2, <2>3, <2>4, ChainStays
  <1>4. QED
    BY <1>2, <1>3

LEMMA ChainInvariant ==
  ASSUME \A g, h \in Handlers : g = h
  PROVE  SocSpec => []ChainInv
  <1>1. SocInit => ChainInv
    <2>1. SUFFICES ASSUME SocInit
                   PROVE  ChainInv
      OBVIOUS
    <2>2. Len(chain) = 0 /\ \A h \in Handlers : handler[h].step = "none"
      BY <2>1 DEF SocInit, Resting
    <2>3. QED
      BY <2>2 DEF ChainInv
  <1>2. SocInv /\ ChainInv /\ [SocNext]_socVars => ChainInv'
    <2>1. SUFFICES ASSUME SocInv, ChainInv, [SocNext]_socVars
                   PROVE  ChainInv'
      OBVIOUS
    <2>2. CASE UNCHANGED socVars
      <3>1. chain' = chain /\ handler' = handler
        BY <2>2 DEF socVars
      <3>2. QED
        BY <2>1, <3>1 DEF ChainInv
    <2>3. CASE SocNext
      <3>1. PICK h \in Handlers : \/ ReadPrev(h) \/ Number(h) \/ AppendEntry(h)
                                  \/ StartFlow(h) \/ IngestBatch(h) \/ TriageGroup(h) \/ MapIncident(h)
                                  \/ PlanRemediation(h) \/ FinishFlow(h)
        BY <2>3 DEF SocNext
      <3>2. QED
        BY <2>1, <3>1, RecordKeepsChain, AppendKeepsChain, StageKeepsChain
    <2>4. QED
      BY <2>1, <2>2, <2>3
  <1>3. QED
    BY <1>1, <1>2, SocInvariant, PTL DEF SocSpec

(* FlowsAreRecorded (SocWorkflow), where the server runs one request at a   *)
(* time: the audit chain verifies and the record of every ended flow is     *)
(* whole.  With two requests the chain breaks, which the run SocAudit       *)
(* shows, so the assumption is needed.                                      *)
THEOREM OneRequestRecorded ==
  ASSUME \A g, h \in Handlers : g = h
  PROVE  SocSpec => []FlowsAreRecorded
  <1>1. SocInv /\ ChainInv => FlowsAreRecorded
    <2>1. SUFFICES ASSUME SocInv, ChainInv
                   PROVE  FlowsAreRecorded
      OBVIOUS
    <2>2. chain \in Seq(EntryRecords)
      BY <2>1 DEF SocInv, SocTyped
    <2>3. ChainIntact
      BY <2>1, <2>2 DEF ChainIntact, FirstBreak, ChainInv
    <2>4. QED
      BY <2>1, <2>3, SocInvWhole DEF FlowsAreRecorded
  <1>2. QED
    BY <1>1, SocInvariant, ChainInvariant, PTL

=============================================================================
