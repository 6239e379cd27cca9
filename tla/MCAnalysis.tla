----------------------------- MODULE MCAnalysis -----------------------------
(* Detection, reports, notices and the console's cache for model checking.   *)
(* Each behaviour is about one of them, its subject; what the others keep    *)
(* stays as it is.                                                           *)
EXTENDS NetworkAnalysis, Briefings, Notifications, ConsoleCache, TLC

CONSTANTS w1, w2, b1, b2, c1, c2

(* Network records: a probe across two hours that arrives backwards.       *)
SomeTimes == (1 :> 4) @@ (2 :> 3) @@ (3 :> 1)
SomePorts == (1 :> 1) @@ (2 :> 2) @@ (3 :> 3)

(* Two rows of the first day and stage, one of the second.                 *)
SomeDays == (1 :> 1) @@ (2 :> 1) @@ (3 :> 2)
SomeStages == (1 :> 1) @@ (2 :> 1) @@ (3 :> 2)

VARIABLE subject

all == <<anaVars, briefingVars, noticeVars, cacheVars, subject>>

MCInit ==
    /\ AnaInit /\ BriefingInit /\ NoticeInit /\ CacheInit
    /\ subject \in {"network", "briefings", "notices", "cache"}

IsNetwork == /\ subject = "network"
             /\ UNCHANGED <<briefingVars, noticeVars, cacheVars, subject>>
IsBriefings == /\ subject = "briefings"
               /\ UNCHANGED <<anaVars, noticeVars, cacheVars, subject>>
IsNotices == subject = "notices" /\ UNCHANGED <<anaVars, briefingVars, cacheVars, subject>>
IsCache == subject = "cache" /\ UNCHANGED <<anaVars, briefingVars, noticeVars, subject>>

MCNext ==
    \/ IsNetwork /\ AnaNext
    \/ IsBriefings /\ BriefingNext
    \/ IsNotices /\ NoticeNext
    \/ IsCache /\ CacheNext

(* The fairness of each component for the behaviours about it.             *)
MCFairness ==
    /\ \A w \in Workers : WF_all(IsNetwork /\ Tick(w))
    /\ \A b \in BriefingWorkers :
         SF_all(IsBriefings /\ CommitPage(b)) /\ WF_all(IsBriefings /\ ReadPage(b))
    /\ WF_all(IsNotices /\ DeliveryTick)
    /\ \A i \in NoticeIncidents : WF_all(IsNotices /\ Score(i))
    /\ WF_all(IsCache /\ Invalidate) /\ WF_all(IsCache /\ Keep)

MCSpec == MCInit /\ [][MCNext]_all /\ MCFairness

(* Analysis, reports, notices and the console keep up: again and again     *)
(* everything received is analysed and announced, every finished day is    *)
(* reported, the inbox says what its topics are and the console shows      *)
(* every change, whatever crashed, was refused or came late on the way.    *)
ConsoleKeepsUp ==
    []<>(/\ AnalysisDone /\ DaysReported /\ ChangesShown
         /\ subject = "notices" => InboxUpToDate)
=============================================================================
