---------------------------- MODULE MCCollection ----------------------------
(* The collectors and the recovery packages for model checking.  They share  *)
(* no state, so each behaviour is about one of them, its subject, and what   *)
(* the others keep stays as it is.  Packages are built and restored while    *)
(* the HTTP collector works, or while notices and SSH records move.          *)
EXTENDS SshCollection, NetworkCollection, HttpRecovery, RecoveryStore

CONSTANTS n1, n2   \* peers

VARIABLE subject

all == <<vars, netVars, recoveryVars, shelfVars, subject>>

MCInit ==
    /\ Init /\ NetInit /\ RecoveryInit /\ ShelfInit
    /\ subject \in {"ssh", "network", "http", "http packages", "notice packages", "shelf"}

IsSsh == subject = "ssh" /\ UNCHANGED <<netVars, recoveryVars, shelfVars, subject>>
IsNetwork == subject = "network" /\ UNCHANGED <<vars, recoveryVars, shelfVars, subject>>
IsHttp ==
    /\ subject = "http"
    /\ UNCHANGED <<vars, netVars, deploymentVars, packageVars, shelfVars, subject>>
IsPackages(s) == subject = s /\ UNCHANGED <<vars, netVars, shelfVars, subject>>
IsShelf == subject = "shelf" /\ UNCHANGED <<vars, netVars, recoveryVars, subject>>

MCNext ==
    \/ IsSsh /\ Next
    \/ IsNetwork /\ NetNext
    \/ IsHttp /\ HttpNext
    \/ IsPackages("http packages")
         /\ (Logs \/ Collector \/ CollectorFaults \/ Build \/ BuildFails \/ Restore)
    \/ IsPackages("notice packages")
         /\ (SshStore \/ SshAdvance \/ SaveNotice \/ Worker \/ Build \/ BuildFails \/ Restore)
    \/ IsShelf /\ ShelfNext

(* The fairness of each component for the behaviours about it.             *)
MCFairness ==
    /\ WF_all(IsSsh /\ StartRun) /\ WF_all(IsSsh /\ BuildPending) /\ WF_all(IsSsh /\ Send)
    /\ WF_all(IsSsh /\ CommitCursor) /\ WF_all(IsSsh /\ Unlink)
    /\ WF_all(IsNetwork /\ NetCollectorStep) /\ WF_all(IsNetwork /\ StoreAnswers)
    /\ WF_all(IsHttp /\ CollectorStep) /\ WF_all(IsHttp /\ ReopenLog)
    /\ WF_all(IsHttp /\ LogQuiet)
    /\ WF_all(IsPackages("notice packages") /\ Worker)
    /\ WF_all(IsShelf /\ Prune) /\ \A n \in Peers : WF_all(IsShelf /\ Pull(n))

MCSpec == MCInit /\ [][MCNext]_all /\ MCFairness

(* What is written, logged, announced or packaged arrives: again and again *)
(* every entry, record and line is stored or reported as missing, the      *)
(* console has the last notice also across restores, and the peers have    *)
(* the packages, whatever was killed, lost or retried on the way.          *)
EverythingArrives ==
    []<>(/\ EntriesAccountedFor /\ RecordsReceipted /\ NoticeImported /\ PeersHaveAll
         /\ subject = "http" => HttpLinesSettled)
=============================================================================
