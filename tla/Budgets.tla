------------------------------- MODULE Budgets -------------------------------
(***************************************************************************)
(* The budget counters of an episode (harness_api/app/core/budgets.py).    *)
(* A counter is its used amount; its limit is fixed by the task manifest,  *)
(* so the pair (used, remaining) the code stores is the used amount here   *)
(* and Limit - used.  Every write clamps the used amount to 0 .. limit:    *)
(* a charge larger than what remains would be lost without a trace.        *)
(***************************************************************************)
EXTENDS Integers

CONSTANT Limit          \* the manifest's BudgetSpec: counter name -> limit

BudgetKeys == {"steps", "tool_calls", "wall_time_ms", "input_bytes",
               "artifact_bytes"}

\* The field bounds of BudgetSpec.
ASSUME LimitAssumption ==
  /\ Limit \in [BudgetKeys -> Nat]
  /\ Limit["steps"] >= 1
  /\ Limit["wall_time_ms"] >= 1

Budget == [BudgetKeys -> Nat]

\* min(max(used, 0), limit)
Clamp(limit, used) ==
  IF used < 0 THEN 0 ELSE IF used > limit THEN limit ELSE used

Remaining(budget, k) == Limit[k] - budget[k]

InitialBudget == [k \in BudgetKeys |-> 0]

\* An increment for each counter; wall time is set from the clock instead.
NoCharge == [k \in BudgetKeys |-> 0]

UpdateBudget(budget, elapsed, charge) ==
  [k \in BudgetKeys |->
     Clamp(Limit[k], IF k = "wall_time_ms" THEN elapsed
                                           ELSE budget[k] + charge[k])]

Exhausted(budget) ==
  \/ Remaining(budget, "steps") = 0
  \/ Remaining(budget, "wall_time_ms") = 0
=============================================================================
