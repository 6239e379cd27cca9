------------------------------- MODULE MCJoint ------------------------------
(* The joint store and the three queues that spend money, for model checking. *)
(* Each behaviour is about one of them, its subject; what the others keep     *)
(* stays as it is.                                                            *)
EXTENDS AiJobs, JointRefresh, JointAi, EvaluationBudget, TLC

CONSTANTS w1, w2, e1, e2, e3

(* The second revision of the second incident is not eligible.             *)
SomeRefused == {<<2, 2>>}

(* One incident with two upsets, or two incidents, one of them revised,     *)
(* with one upset.                                                          *)
SomeScenarios == {[last |-> <<1, 0>>, upsets |-> 2], [last |-> <<1, 2>>, upsets |-> 1]}

(* Two dossiers of one case.                                               *)
OneCase == (1 :> 1) @@ (2 :> 1)

(* Two evaluations write one tape, with different budgets.                 *)
TwoTapes == (e1 :> 1) @@ (e2 :> 2) @@ (e3 :> 1)
SomeBudgets == (e1 :> 5) @@ (e2 :> 5) @@ (e3 :> 4)

VARIABLE subject

all == <<vars, jointVars, reviewVars, evalVars, subject>>

MCInit ==
    /\ Init /\ JointInit /\ ReviewInit /\ EvalInit
    /\ subject \in {"ai", "store", "reviews", "evaluation"}
    /\ subject # "store" => last = <<1, 0>>
    /\ subject # "reviews" => mode = "api"

IsAi == subject = "ai" /\ UNCHANGED <<jointVars, reviewVars, evalVars, subject>>
IsStore == subject = "store" /\ UNCHANGED <<vars, reviewVars, evalVars, subject>>
IsReviews == subject = "reviews" /\ UNCHANGED <<vars, jointVars, evalVars, subject>>
IsEvaluation == subject = "evaluation" /\ UNCHANGED <<vars, jointVars, reviewVars, subject>>

MCNext ==
    \/ IsAi /\ Next
    \/ IsStore /\ JointNext
    \/ IsReviews /\ ReviewNext
    \/ IsEvaluation /\ EvalNext

(* The fairness of each component for the behaviours about it.             *)
MCFairness ==
    /\ \A w \in Workers : WF_all(IsAi /\ WorkerStep(w))
    /\ \A j \in Jobs : WF_all(IsAi /\ Holder(j) = {} /\ LeaseExpires(j))
    /\ WF_all(IsStore /\ JobStep) /\ WF_all(IsStore /\ Tick)
    /\ \A w \in JointWorkers : WF_all(IsReviews /\ ThreadStep(w))
    /\ \A j \in Dossiers : WF_all(IsReviews /\ HolderOf(j) = {} /\ LeaseEnds(j))
    /\ WF_all(IsReviews /\ OwnerBack)
    /\ \A e \in Evaluators : WF_all(IsEvaluation /\ EvalWork(e))

MCSpec == MCInit /\ [][MCNext]_all /\ MCFairness

(* What was started is finished and what was paid for is shown: again and  *)
(* again no job is queued or running, every receipt is shown or taped, and *)
(* the joint store has caught up with its sources, whatever died, timed    *)
(* out or was restored on the way.                                         *)
WorkIsFinished ==
    []<>(/\ JobsSettled /\ PaidAnswersShown /\ ReceiptsShown /\ PaidAnswersTaped
         /\ subject = "store" => StoreIsCurrent)
=============================================================================
