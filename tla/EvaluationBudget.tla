-------------------------- MODULE EvaluationBudget --------------------------
(***************************************************************************)
(* Paid evaluations of the triage model: the ledger that every evaluation    *)
(* shares (src/backend/app/agents/triage_budget.py), the paid call           *)
(* (APITriage.triage of triage_api.py) and the loop over the cases that      *)
(* records each answer on a tape (src/backend/app/evaluation/triage.py).     *)
(*                                                                           *)
(* An evaluator is a process run from the command line with a tape and a     *)
(* budget, and is run again after it ends or dies.  A call is a case of a    *)
(* tape: call_id is a hash of the two.  The provider's bill for a call is    *)
(* history: the ledger learns of it only from a reply.                       *)
(***************************************************************************)
EXTENDS Integers, FiniteSets, FiniteSetsExt

CONSTANTS
  Evaluators,      \* processes
  TapeOf,          \* evaluator -> its tape
  BudgetOf,        \* evaluator -> --budget-usd
  Cases,           \* the cases of an evaluation are 1 .. Cases
  Amount,          \* APIConfig.reservation()
  Bills,           \* what the provider may bill for one call; 0: it never saw the request
  MaxEvalCrashes   \* interrupted runs of a behaviour

ASSUME EvaluationAssumption ==
  /\ IsFiniteSet(Evaluators)
  /\ Cases \in Nat /\ Amount \in Nat \ {0} /\ Bills \subseteq Nat /\ MaxEvalCrashes \in Nat
  /\ BudgetOf \in [Evaluators -> Nat \ {0}]

Tapes == {TapeOf[e] : e \in Evaluators}
PaidCalls == Tapes \X (1 .. Cases)
Unsettled == -1

VARIABLES
  ceiling,      \* budget.ceiling, 0 until the ledger is created
  evalHalted,   \* budget.halted
  rows,         \* call -> calls row: [status, charged]
  tapes,        \* tape -> the cases recorded on it
  evals,        \* evaluator -> [pc, at, known, stop, charge]
  billed,       \* history: call -> what the provider billed
  sends,        \* history: call -> requests sent
  evalCrashes

evalVars == <<ceiling, evalHalted, rows, tapes, evals, billed, sends, evalCrashes>>

NoRow == [status |-> "none", charged |-> Unsettled]
Off == [pc |-> "off", at |-> 0, known |-> {}, stop |-> FALSE, charge |-> Unsettled]

EvalInit ==
  /\ ceiling = 0 /\ evalHalted = FALSE
  /\ rows = [c \in PaidCalls |-> NoRow]
  /\ tapes = [t \in Tapes |-> {}]
  /\ evals = [e \in Evaluators |-> Off]
  /\ billed = [c \in PaidCalls |-> 0] /\ sends = [c \in PaidCalls |-> 0]
  /\ evalCrashes = 0

TapedCall(e) == <<TapeOf[e], evals[e].at>>
EvalGoto(e, pc) == evals' = [evals EXCEPT ![e].pc = pc]

\* The loop goes on to the next case; `stop` is stopped_by_budget or stopped_by_api.
Skip(e, stop) ==
  evals' = [evals EXCEPT ![e] = [pc |-> "next", at |-> @.at + 1, known |-> @.known,
                                 stop |-> @.stop \/ stop, charge |-> Unsettled]]

\* SUM(COALESCE(charged, reserved)).
UsedBy(c) ==
  IF rows[c].status = "none" THEN 0 ELSE IF rows[c].charged = Unsettled THEN Amount ELSE rows[c].charged
Used == SumFunctionOnSet([c \in PaidCalls |-> UsedBy(c)], PaidCalls)

-----------------------------------------------------------------------------
\* A run starts: BudgetLedger() creates the ledger or checks that it has this
\* budget, and RecordedTriage reads the tape.
OpenLedger(e) ==
  /\ evals[e].pc = "off"
  /\ ceiling \in {0, BudgetOf[e]}
  /\ ceiling' = BudgetOf[e]
  /\ evals' = [evals EXCEPT ![e] = [Off EXCEPT !.pc = "next", !.at = 1, !.known = tapes[TapeOf[e]]]]
  /\ UNCHANGED <<evalHalted, rows, tapes, billed, sends, evalCrashes>>

\* The next case: replayed, left out once the run has stopped paying, or paid for.
LookUpCase(e) ==
  /\ evals[e].pc = "next"
  /\ IF evals[e].at > Cases THEN evals' = [evals EXCEPT ![e] = Off]
     ELSE IF evals[e].at \in evals[e].known \/ evals[e].stop THEN Skip(e, FALSE)
     ELSE EvalGoto(e, "reserve")
  /\ UNCHANGED <<ceiling, evalHalted, rows, tapes, billed, sends, evalCrashes>>

(* Mutant of Retryable: an attempt that failed is taken for one that never was. *)
RetryUncertain(row) == row.status \in {"none", "uncertain"}
\* reserve: a row of an earlier attempt is never paid for again.
Retryable(row) == row.status = "none"

\* BudgetLedger.reserve, one transaction.
ReserveCall(e) ==
  /\ evals[e].pc = "reserve"
  /\ LET c == TapedCall(e)
         fits == ~evalHalted /\ Used + Amount <= ceiling
     IN \/ /\ rows[c].status = "complete" /\ EvalGoto(e, "append") /\ UNCHANGED rows
        \/ /\ rows[c].status # "complete" /\ ~Retryable(rows[c]) /\ Skip(e, TRUE) /\ UNCHANGED rows
        \/ /\ Retryable(rows[c]) /\ ~fits /\ Skip(e, TRUE) /\ UNCHANGED rows
        \/ /\ Retryable(rows[c]) /\ fits
           /\ rows' = [rows EXCEPT ![c] = [status |-> "pending", charged |-> Unsettled]]
           /\ EvalGoto(e, "send")
  /\ UNCHANGED <<ceiling, evalHalted, tapes, billed, sends, evalCrashes>>

\* normalize: the provider bills a call, and its reply either carries usage
\* that has a price or is an APIError (an unpriced model or tier, usage that
\* does not add up, a reply that is not one).
Replies ==
  {[bill |-> b, charge |-> Unsettled] : b \in Bills} \cup {[bill |-> b, charge |-> b] : b \in Bills \ {0}}

\* _send: a timeout or a status other than 200 is an APIError too.
SendCall(e) ==
  /\ evals[e].pc = "send"
  /\ \E r \in Replies :
       /\ sends' = [sends EXCEPT ![TapedCall(e)] = @ + 1]
       /\ billed' = [billed EXCEPT ![TapedCall(e)] = @ + r.bill]
       /\ evals' = [evals EXCEPT ![e].pc = "settle", ![e].charge = r.charge]
  /\ UNCHANGED <<ceiling, evalHalted, rows, tapes, evalCrashes>>

\* BudgetLedger.complete.  A charge above the reservation halts the ledger.
CompleteCall(e) ==
  /\ evals[e].pc = "settle" /\ evals[e].charge # Unsettled
  /\ rows[TapedCall(e)].status = "pending"
  /\ rows' = [rows EXCEPT ![TapedCall(e)] = [status |-> "complete", charged |-> evals[e].charge]]
  /\ evalHalted' = (evalHalted \/ evals[e].charge > Amount)
  /\ EvalGoto(e, "append")
  /\ UNCHANGED <<ceiling, tapes, billed, sends, evalCrashes>>

\* BudgetLedger.fail: the row keeps its reservation and the run stops paying.
FailCall(e) ==
  /\ evals[e].pc = "settle" /\ evals[e].charge = Unsettled
  /\ rows' = [rows EXCEPT ![TapedCall(e)].status = IF @ = "pending" THEN "uncertain" ELSE @]
  /\ Skip(e, TRUE)
  /\ UNCHANGED <<ceiling, evalHalted, tapes, billed, sends, evalCrashes>>

(* Mutant of AppendKept: the tape is not written when the answer came from the ledger. *)
AppendNew(e) == IF sends[TapedCall(e)] = 1 /\ evals[e].charge # Unsettled THEN {evals[e].at} ELSE {}
\* The answer goes to the tape whether it was paid for now or found in the ledger.
AppendKept(e) == {evals[e].at}

\* _append: written and synced.
AppendCall(e) ==
  /\ evals[e].pc = "append"
  /\ tapes' = [tapes EXCEPT ![TapeOf[e]] = @ \cup AppendKept(e)]
  /\ Skip(e, FALSE)
  /\ UNCHANGED <<ceiling, evalHalted, rows, billed, sends, evalCrashes>>

\* The process is interrupted.
CrashEval(e) ==
  /\ evals[e].pc # "off" /\ evalCrashes < MaxEvalCrashes
  /\ evalCrashes' = evalCrashes + 1
  /\ evals' = [evals EXCEPT ![e] = Off]
  /\ UNCHANGED <<ceiling, evalHalted, rows, tapes, billed, sends>>

EvalWork(e) ==
  OpenLedger(e) \/ LookUpCase(e) \/ ReserveCall(e) \/ SendCall(e) \/ CompleteCall(e) \/ FailCall(e)
    \/ AppendCall(e)
EvalNext == \E e \in Evaluators : EvalWork(e) \/ CrashEval(e)

\* An evaluation is run again until its tape is complete, and a run goes on
\* unless it is interrupted.
EvalSpec == EvalInit /\ [][EvalNext]_evalVars /\ \A e \in Evaluators : WF_evalVars(EvalWork(e))

-----------------------------------------------------------------------------
(* Properties. *)

EvalTypeOK ==
  /\ ceiling \in Nat /\ evalHalted \in BOOLEAN /\ evalCrashes \in 0 .. MaxEvalCrashes
  /\ rows \in [PaidCalls -> [status : {"none", "pending", "uncertain", "complete"}, charged : Bills \cup {Unsettled}]]
  /\ tapes \in [Tapes -> SUBSET (1 .. Cases)]
  /\ evals \in [Evaluators -> [pc : {"off", "next", "reserve", "send", "settle", "append"}, at : 0 .. Cases + 1,
                               known : SUBSET (1 .. Cases), stop : BOOLEAN, charge : Bills \cup {Unsettled}]]
  /\ billed \in [PaidCalls -> Nat] /\ sends \in [PaidCalls -> Nat]

\* Across processes, restarts, lost replies and unpriced answers, no call is
\* sent twice, what the provider billed exceeds the ceiling by no more than the
\* calls that cost more than their reservation, a second such call never being
\* reserved after the first was settled, and a case on a tape is one whose
\* charge the ledger has in full (triage_budget.py:3-5, :68-84).
EvalSpendIsSafe ==
  LET excess(c) == IF billed[c] > Amount THEN billed[c] - Amount ELSE 0
  IN /\ \A c \in PaidCalls : sends[c] <= 1
     /\ ceiling > 0 => SumFunctionOnSet([c \in PaidCalls |-> billed[c] - excess(c)], PaidCalls) <= ceiling
     /\ \A t \in Tapes, k \in 1 .. Cases : k \in tapes[t] =>
          rows[<<t, k>>] = [status |-> "complete", charged |-> billed[<<t, k>>]]

\* Every answer that was paid for is on its tape, whenever the process stopped
\* (triage_budget.py:6; the append after the settlement, evaluation/triage.py:168).
PaidAnswersTaped ==
  \A t \in Tapes, k \in 1 .. Cases : rows[<<t, k>>].status = "complete" => k \in tapes[t]
=============================================================================
