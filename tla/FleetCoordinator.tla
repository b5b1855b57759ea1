-------------------------- MODULE FleetCoordinator --------------------------
(***************************************************************************)
(* src/fleet/coordinator.cyr and rust-old/src/fleet/coordinator.rs: fan-   *)
(* out of tasks to nodes, with the run that goes with it, and the retry of *)
(* what failed.  Which node a task is on is read by queries only; here it  *)
(* decides who takes part in the run.  The two differ in one comparison:   *)
(* MayRetry is the Cyrius tree's, the Rust tree retries once less.         *)
(***************************************************************************)
EXTENDS FleetState

CONSTANTS
    Tasks,
    Plans,              \* the fan-outs a caller may ask for: tasks, placement
    MaxRetries,         \* AGN_FC_MAX_RETRIES
    MaxRetainedTasks,   \* AGNOSAI_MAX_RETAINED_TASKS
    MaxFailures         \* failures reported of one task, a bound

ASSUME PlansAssumption == \A p \in Plans :
    /\ p.tasks \subseteq Tasks /\ DOMAIN p.place \subseteq p.tasks
    /\ \A t \in DOMAIN p.place : p.place[t] \in Nodes
ASSUME RetriesAssumption == MaxRetries \in Nat /\ MaxRetainedTasks \in Nat /\ MaxFailures \in Nat

VARIABLES
    status,     \* AGN_FT_STATUS of a task in AGN_FC_TASKS, "unknown" outside it
    count,      \* AGN_FC_RETRY_COUNTS, 0 when there is no entry
    retried     \* how often Retry was answered since the task became known

taskVars == <<status, count, retried>>
vars == <<runVars, taskVars>>

Statuses == {"unknown", "pending", "assigned", "completed", "failed", "reassigned"}
Known == {t \in Tasks : status[t] # "unknown"}
Over == {t \in Tasks : status[t] \in {"completed", "failed"}}

Init ==
    /\ RunsInit
    /\ status = [t \in Tasks |-> "unknown"]
    /\ count = [t \in Tasks |-> 0] /\ retried = [t \in Tasks |-> 0]

\* At the limit every task that is over is dropped.
EvictedTasks == IF Cardinality(Known) < MaxRetainedTasks THEN {} ELSE Over

\* Wrong variant: the retry counts of what is dropped are kept.
CountsKept_All == count

\* A dropped task's retry count goes with it; the one of a task that is fanned
\* out again while it is known stays.
CountsKept == [t \in Tasks |-> IF t \in EvictedTasks THEN 0 ELSE count[t]]

\* agnosai_fleet_coordinator_fan_out of a plan's tasks, those in DOMAIN place
\* placed on a node, as the run r.
FanOut(r, plan) ==
    /\ CreateRun(r, {plan.place[t] : t \in DOMAIN plan.place})
    /\ status' = [t \in Tasks |->
                    IF t \in DOMAIN plan.place THEN "assigned"
                    ELSE IF t \in plan.tasks THEN "pending"
                    ELSE IF t \in EvictedTasks THEN "unknown" ELSE status[t]]
    /\ count' = CountsKept
    /\ retried' = [t \in Tasks |-> IF t \in EvictedTasks THEN 0 ELSE retried[t]]

TaskCompleted(t) ==
    /\ t \in Known
    /\ status' = [status EXCEPT ![t] = "completed"]
    /\ UNCHANGED <<count, retried, runVars>>

\* While the count is at most the limit.
MayRetry(n) == n <= MaxRetries

\* Counted first, then compared; also for a task that is over.
TaskFailed(t) ==
    /\ t \in Known /\ count[t] < MaxFailures
    /\ count' = [count EXCEPT ![t] = @ + 1]
    /\ status' = [status EXCEPT ![t] = IF MayRetry(count'[t]) THEN "reassigned" ELSE "failed"]
    /\ retried' = [retried EXCEPT ![t] = IF MayRetry(count'[t]) THEN @ + 1 ELSE @]
    /\ UNCHANGED runVars

\* From any status, and without touching the count.
Reassign(t) ==
    /\ t \in Known
    /\ status' = [status EXCEPT ![t] = "assigned"]
    /\ UNCHANGED <<count, retried, runVars>>

TaskStep(t) == TaskCompleted(t) \/ TaskFailed(t) \/ Reassign(t)

Next ==
    \/ \E r \in Runs, plan \in Plans : FanOut(r, plan)
    \/ \E t \in Tasks : TaskStep(t)
    \/ \E r \in Runs : RunStep(r) /\ UNCHANGED taskVars

Spec == Init /\ [][Next]_vars
-----------------------------------------------------------------------------
TypeOK ==
    /\ RunsTypeOK
    /\ status \in [Tasks -> Statuses]
    /\ count \in [Tasks -> 0..MaxFailures]
    /\ retried \in [Tasks -> 0..MaxFailures]

\* max_retries is the number of retries: while a task is known it is retried at
\* most so often, and it has failed for good only after it was retried exactly
\* so often, however it was reassigned, completed or fanned out again, and
\* whatever an earlier task of the same id did before it was dropped.
RetryExact == \A t \in Tasks :
    /\ retried[t] <= MaxRetries
    /\ status[t] = "failed" => retried[t] = MaxRetries
    /\ status[t] = "reassigned" => retried[t] = count[t]
=============================================================================
