------------------------------ MODULE MCAiJobs ------------------------------
(* Two cases, two workers that are alike.                                  *)
EXTENDS AiJobs, TLC

CONSTANTS w1, w2

AlikeWorkers == Permutations({w1, w2})

=============================================================================
