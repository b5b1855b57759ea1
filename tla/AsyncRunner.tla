---------------------------- MODULE AsyncRunner ----------------------------
(***************************************************************************)
(* rust-old/src/orchestrator/crew_runner.rs, CrewRunner: one crew run in   *)
(* its process mode on a tokio runtime.  Each task is executed as          *)
(* TaskExecution says, in line with the runner (sequential, and            *)
(* hierarchical, which falls back to it) or spawned into a JoinSet whose   *)
(* members run on any thread and may panic (parallel, dag).                *)
(*                                                                         *)
(* The caller may raise the cancel flag at any time, and the orchestrator  *)
(* drops the whole run when its time is over; dropping a JoinSet aborts    *)
(* what it holds.  Agents, profiles and event payloads are left out.       *)
(***************************************************************************)
EXTENDS TaskExecution, Sequences, Functions, SequencesExt

CONSTANTS
    Line,       \* spec.tasks, in order
    Modes,      \* the process modes considered
    Limits,     \* max_concurrency, for parallel
    DepChoices  \* functions from the tasks to the ids they depend on

ASSUME RunnerAssumption ==
    /\ Line \in Seq(Tasks) /\ Range(Line) = Tasks /\ Limits \subseteq Nat
    /\ Modes \subseteq {"sequential", "hierarchical", "parallel", "dag"}

VARIABLES
    mode, limit, deps,  \* the specification that is run
    phase,              \* where the runner stands
    cursor,             \* run_sequential's i
    remaining,          \* run_dag's remaining
    joining,            \* what the JoinSet still holds
    waveFailed,         \* run_dag's wave_failed
    result,             \* results: the status each task's result carries
    nils,               \* results synthesized for panics, under the nil id
    taskStatus,         \* spec.tasks[..].status
    started, ended,     \* the task_started and task_completed events emitted
    cancelled,          \* the cancel token
    crewStatus          \* CrewState::status

runnerVars == <<mode, limit, deps, phase, cursor, remaining, joining, waveFailed,
                result, nils, taskStatus, started, ended, cancelled, crewStatus>>

specVars == <<mode, limit, deps>>
Ends == {"ended", "errored", "timed out"}
Inline == mode \in {"sequential", "hierarchical"}

RunnerInit ==
    /\ mode \in Modes /\ limit \in Limits /\ deps \in DepChoices
    /\ phase = "new" /\ cursor = 1
    /\ remaining = {} /\ joining = {} /\ waveFailed = FALSE
    /\ result = [t \in Tasks |-> "none"] /\ nils = 0
    /\ taskStatus = [t \in Tasks |-> "pending"]
    /\ started = {} /\ ended = {}
    /\ cancelled = FALSE /\ crewStatus = "none"

\* topological_sort_tasks succeeds: dependencies on no task of the crew do not
\* count, and every set of tasks has one that waits for none of the others.
Orderable == \A S \in (SUBSET Tasks) \ {{}} : \E t \in S : deps[t] \cap S = {}

\* run_dag's test; a dependency on no task of the crew is never completed.
Completed == {t \in Tasks : result[t] = "completed"}

\* Wrong variant: a failed dependency counts as done.
Runnable_Answered(S) == {t \in S : deps[t] \subseteq {d \in Tasks : result[d] # "none"}}

Runnable(S) == {t \in S : deps[t] \subseteq Completed}

\* run: crew_started, then what the mode does before its first task.
Begin ==
    /\ phase = "new"
    /\ CASE Inline -> /\ phase' = "line"
                      /\ UNCHANGED <<remaining, joining, taskStatus, started>>
         [] mode = "parallel" ->
              /\ phase' = "joining" /\ joining' = Tasks /\ started' = Tasks
              /\ taskStatus' = [t \in Tasks |-> "queued"]
              /\ UNCHANGED remaining
         [] mode = "dag" ->
              /\ phase' = IF Orderable THEN "head" ELSE "errored"
              /\ remaining' = Tasks
              /\ UNCHANGED <<joining, taskStatus, started>>
    /\ UNCHANGED <<specVars, cursor, waveFailed, result, nils, ended, cancelled, crewStatus, execVars>>

Report(t) ==
    /\ result' = [result EXCEPT ![t] = outcome[t]]
    /\ ended' = ended \cup {t}

\* run_sequential, the head of the loop: the flag, then the next task.
LineHead ==
    /\ phase = "line" /\ (cancelled \/ cursor > Len(Line))
    /\ phase' = "closing"
    /\ UNCHANGED <<specVars, cursor, remaining, joining, waveFailed, result, nils,
                   taskStatus, started, ended, cancelled, crewStatus, execVars>>

LineStart ==
    /\ phase = "line" /\ ~cancelled /\ cursor <= Len(Line)
    /\ ExecStart(Line[cursor])
    /\ taskStatus' = [taskStatus EXCEPT ![Line[cursor]] = "running"]
    /\ started' = started \cup {Line[cursor]}
    /\ phase' = "awaiting"
    /\ UNCHANGED <<specVars, cursor, remaining, joining, waveFailed, result, nils, ended,
                   cancelled, crewStatus>>

LineReport ==
    /\ phase = "awaiting" /\ stage[Line[cursor]] = "done"
    /\ Report(Line[cursor])
    /\ taskStatus' = [taskStatus EXCEPT ![Line[cursor]] = outcome[Line[cursor]]]
    /\ cursor' = cursor + 1 /\ phase' = "line"
    /\ UNCHANGED <<specVars, remaining, joining, waveFailed, nils, started, cancelled,
                   crewStatus, execVars>>

\* run_dag, the head of the loop: nothing left or the flag ends it, nothing
\* ready is an error, and the ready front is spawned as one wave.
WaveHead ==
    /\ phase = "head"
    /\ LET ready == Runnable(remaining) IN
       IF remaining = {} \/ cancelled
       THEN phase' = "closing" /\ UNCHANGED <<remaining, joining, taskStatus, started>>
       ELSE IF ready = {}
       THEN phase' = "errored" /\ UNCHANGED <<remaining, joining, taskStatus, started>>
       ELSE /\ phase' = "joining" /\ joining' = ready /\ remaining' = remaining \ ready
            /\ started' = started \cup ready
            /\ taskStatus' = [t \in Tasks |-> IF t \in ready THEN "queued" ELSE taskStatus[t]]
    /\ waveFailed' = FALSE
    /\ UNCHANGED <<specVars, cursor, result, nils, ended, cancelled, crewStatus, execVars>>

Running == {t \in joining : stage[t] = "infer"}

\* Wrong variant: one more than there are permits.
PermitFree_OneMore == Cardinality(Running) <= limit

PermitFree == Cardinality(Running) < limit

\* A spawned task begins: a wave's at once; a parallel one looks at the flag,
\* waits for a permit, looks again.  What the flag stops is a failed result.
SpawnedStart(t) ==
    /\ phase = "joining" /\ t \in joining /\ stage[t] = "idle"
    /\ \/ mode = "dag" /\ ExecStart(t)
       \/ mode = "parallel" /\ ~cancelled /\ PermitFree /\ ExecStart(t)
       \/ /\ mode = "parallel" /\ cancelled
          /\ Finish(t, "failed", NoAnswer)
          /\ UNCHANGED <<llm, cache, attempt, rounds, asked>>
    /\ UNCHANGED runnerVars

\* join_next: the results come in the order the tasks end in.  A panic leaves
\* run_parallel a failed result without a task, and run_dag none at all.
Join(t) ==
    /\ phase = "joining" /\ t \in joining /\ stage[t] \in {"done", "dropped"}
    /\ joining' = joining \ {t}
    /\ IF stage[t] = "done"
       THEN Report(t) /\ UNCHANGED nils
       ELSE nils' = nils + (IF mode = "parallel" THEN 1 ELSE 0) /\ UNCHANGED <<result, ended>>
    /\ waveFailed' = (waveFailed \/ outcome[t] # "completed")
    /\ taskStatus' = IF mode = "dag" /\ stage[t] = "done"
                     THEN [taskStatus EXCEPT ![t] = outcome[t]] ELSE taskStatus
    /\ UNCHANGED <<specVars, phase, cursor, remaining, started, cancelled, crewStatus, execVars>>

\* The JoinSet is empty: run_parallel copies the statuses, run_dag goes on
\* unless something failed and nothing that is left can run.
Joined ==
    /\ phase = "joining" /\ joining = {}
    /\ phase' = IF mode = "dag" /\ ~ (waveFailed /\ remaining # {} /\ Runnable(remaining) = {})
                THEN "head" ELSE "closing"
    /\ taskStatus' = IF mode = "dag" THEN taskStatus
                     ELSE [t \in Tasks |-> IF result[t] # "none" THEN result[t] ELSE taskStatus[t]]
    /\ UNCHANGED <<specVars, cursor, remaining, joining, waveFailed, result, nils, started,
                   ended, cancelled, crewStatus, execVars>>

\* Wrong variant: the flag is not asked.
EndStatus_ByResults ==
    IF nils = 0 /\ \A t \in Tasks : result[t] \in {"none", "completed"}
    THEN "completed" ELSE "failed"

\* The flag, then whether every result there is completed.
EndStatus ==
    IF cancelled THEN "cancelled"
    ELSE IF nils = 0 /\ \A t \in Tasks : result[t] \in {"none", "completed"}
    THEN "completed" ELSE "failed"

Close ==
    /\ phase = "closing"
    /\ crewStatus' = EndStatus /\ phase' = "ended"
    /\ UNCHANGED <<specVars, cursor, remaining, joining, waveFailed, result, nils, taskStatus,
                   started, ended, cancelled, execVars>>

RunnerCancel ==
    /\ phase \notin Ends /\ ~cancelled
    /\ cancelled' = TRUE
    /\ UNCHANGED <<specVars, phase, cursor, remaining, joining, waveFailed, result, nils,
                   taskStatus, started, ended, crewStatus, execVars>>

\* tokio::time::timeout drops the run: every execution in it ends where it is.
TimeOut ==
    /\ phase \notin Ends \cup {"new"}
    /\ phase' = "timed out"
    /\ stage' = [t \in Tasks |-> IF stage[t] = "infer" THEN "dropped" ELSE stage[t]]
    /\ joining' = {}
    /\ UNCHANGED <<specVars, cursor, remaining, waveFailed, result, nils, taskStatus, started,
                   ended, cancelled, crewStatus, llm, cache, attempt, rounds, asked, outcome, output>>

Panic(t) ==
    /\ phase = "joining" /\ t \in joining /\ stage[t] = "infer"
    /\ Drop(t) /\ UNCHANGED runnerVars

TaskStep(t) == SpawnedStart(t) \/ Join(t) \/ (Infers(t) /\ UNCHANGED runnerVars)

RunnerStep == Begin \/ LineHead \/ LineStart \/ LineReport \/ WaveHead \/ Joined \/ Close

RunnerNext ==
    \/ RunnerStep \/ RunnerCancel \/ TimeOut
    \/ \E t \in Tasks : TaskStep(t) \/ Panic(t)
    \/ \E k \in CacheKeys : CacheForgets(k) /\ UNCHANGED runnerVars
-----------------------------------------------------------------------------
\* What a crew is said to have done is what its tasks did: completed means that
\* every task completed, or that a task of a DAG panicked (such a task leaves no
\* result, and takes what depends on it along); cancelled means that the flag
\* was raised; and an event says that a task ended exactly if its result is
\* there, after one that said it had started.
OutcomeHonest ==
    /\ crewStatus = "completed" =>
         \/ \A t \in Tasks : result[t] = "completed"
         \/ mode = "dag" /\ \E t \in Tasks : stage[t] = "dropped"
    /\ crewStatus = "cancelled" => cancelled
    /\ crewStatus = "failed" => nils > 0 \/ \E t \in Tasks : result[t] = "failed"
    /\ ended = {t \in Tasks : result[t] # "none"} /\ ended \subseteq started

\* No task of a DAG is executed before all it depends on completed, a parallel
\* crew has no more inferences in flight than its limit, a line one; and a run
\* ends with none in flight.
WorkContained ==
    /\ mode = "dag" => \A t \in Tasks : stage[t] # "idle" => deps[t] \subseteq Completed
    /\ mode = "parallel" => Cardinality(Running) <= limit
    /\ Inline => Cardinality({t \in Tasks : stage[t] = "infer"}) <= 1
    /\ phase \in Ends => \A t \in Tasks : stage[t] # "infer"
=============================================================================
