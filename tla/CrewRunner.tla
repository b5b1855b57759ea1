----------------------------- MODULE CrewRunner -----------------------------
(***************************************************************************)
(* One run of a crew: agnosai_crew_runner_run of                           *)
(* src/orchestrator/crew_runner.cyr, its three process modes, and the      *)
(* worker thread each task of a wave runs on.                              *)
(*                                                                         *)
(* The runner's thread and its workers share the job of each task, the     *)
(* cancel flag and the timed-out word, with no lock.  A caller may cancel, *)
(* the clock may pass the deadline, and a client may subscribe to the      *)
(* crew's events at any moment.                                            *)
(*                                                                         *)
(* A task is its index in the spec.  What a task does is a result; which   *)
(* agent it gets changes no control here.                                  *)
(***************************************************************************)
EXTENDS Naturals, Sequences, FiniteSets, Functions

CONSTANTS
    N,          \* tasks in the spec
    Kinds,      \* process modes to run: see Begin
    Ghost,      \* an id that names no task of the spec
    Graphs,     \* the dependency graphs a DAG crew may have
    Limit,      \* max_concurrency of a wave; 0 is all of it at once
    World       \* what may happen to a run, out of Hap

\* A cancel, the deadline, subscribers, a thread that cannot be made, an LLM
\* client (without one a task is a placeholder, which completes), tools.
Hap == {"cancel", "deadline", "watch", "no thread", "client", "tools"}

ASSUME NAssumption == N \in Nat /\ Limit \in Nat
ASSUME KindsAssumption == Kinds \subseteq {"sequential", "hierarchical", "parallel", "dag"}
ASSUME GhostAssumption == Ghost \notin 1..N
ASSUME GraphsAssumption == Graphs \subseteq [1..N -> SUBSET (1..N \cup {Ghost})]
ASSUME WorldAssumption == World \subseteq Hap

Tasks == 1..N
NoDeps == [t \in Tasks |-> {}]

VARIABLES
    kind, deps,     \* the spec: its process mode and its dependencies
    pc,             \* where the runner's thread is
    todo,           \* tasks of this run, or of this wave, not yet dispatched
    batch,          \* tasks of this batch, dispatched and not yet reported
    spawned,        \* how many this batch has dispatched
    remaining,      \* DAG: sorted tasks not yet in a wave
    wave,           \* DAG: the tasks of the wave in progress
    completed,      \* DAG: tasks that ended COMPLETED
    anyFailed,      \* DAG: sticky
    job,            \* each task's worker
    res,            \* AGN_CJ_RESULT of each task
    tstat,          \* the status word of each task
    results,        \* the result list, as task and status
    cancelled,      \* the shared flag
    expired,        \* clock_now_ns() >= deadline
    timedOut,       \* AGN_CR_TIMED_OUT
    watched,        \* somebody is subscribed
    wants,          \* wants_events as the run or the wave last read it
    events,         \* what the runner and its workers have sent
    audited,        \* tasks in the audit trail
    gauge, counted, \* crews_active, and the tasks folded into the counters
    outcome         \* what the run returned

specVars == <<kind, deps>>
dagVars == <<remaining, wave, completed, anyFailed>>
jobVars == <<job, res>>
envVars == <<cancelled, expired, watched>>
endVars == <<gauge, counted, outcome>>
vars == <<kind, deps, pc, todo, batch, spawned, remaining, wave, completed,
          anyFailed, job, res, tstat, results, cancelled, expired, timedOut,
          watched, wants, events, audited, gauge, counted, outcome>>
-----------------------------------------------------------------------------
Ev(type, t) == [type |-> type, task |-> t]
Emit(on, e) == IF on THEN Append(events, e) ELSE events

JobStates == {"none", "spawned", "inline", "working", "stopped", "done"}
Alive == {"spawned", "inline", "working", "stopped"}
ResultTasks == {results[i].task : i \in DOMAIN results}

\* The orders agnosai_topological_sort_tasks_a may answer, over the ids the
\* spec holds: none when they form a cycle.  (Scheduler says which one.)
SortedOrders ==
    {s \in [Tasks -> Tasks] :
        /\ \A i, j \in Tasks : i # j => s[i] # s[j]
        /\ \A i, j \in Tasks : s[i] \in deps[s[j]] => i < j}

\* Wrong variant: a task with a failed dependency is ready too.
DepsReady_AnyResult(t) == deps[t] \subseteq ResultTasks

\* _agnosai_crew_deps_ready
DepsReady(t) == deps[t] \subseteq completed

\* What a loop over s pushes when it pushes the tasks of S.
Pushed(s, S) ==
    LET pushed[j \in 0..Len(s)] ==
          IF j = 0 THEN <<>>
          ELSE IF s[j] \in S THEN Append(pushed[j - 1], s[j]) ELSE pushed[j - 1] IN
      pushed[Len(s)]

\* The ready front and the rest, each in the order of s.
ReadyPart(s) == Pushed(s, {t \in Tasks : DepsReady(t)})
NotReadyPart(s) == Pushed(s, {t \in Tasks : ~DepsReady(t)})

\* Only a parallel crew has a max_concurrency; 0 or less is the whole wave.
BatchLimit == IF kind # "parallel" \/ Limit = 0 THEN N ELSE Limit
-----------------------------------------------------------------------------
Init ==
    /\ kind \in Kinds
    /\ deps \in IF kind = "dag" THEN Graphs ELSE {NoDeps}
    /\ pc = "begin"
    /\ todo = <<>> /\ batch = <<>> /\ spawned = 0
    /\ remaining = <<>> /\ wave = <<>> /\ completed = {} /\ anyFailed = FALSE
    /\ job = [t \in Tasks |-> "none"]
    /\ res = [t \in Tasks |-> "none"]
    /\ tstat = [t \in Tasks |-> "pending"]
    /\ results = <<>>
    /\ cancelled = FALSE /\ expired = FALSE /\ timedOut = FALSE
    /\ watched \in (IF "watch" \in World THEN BOOLEAN ELSE {FALSE}) /\ wants = FALSE
    /\ events = <<>> /\ audited = <<>>
    /\ gauge = 0 /\ counted = {} /\ outcome = "none"

\* The head of agnosai_crew_runner_run.  Every exit from here on must take
\* the gauge down again.
Begin ==
    /\ pc = "begin" /\ pc' = "mode"
    /\ events' = Emit(watched, Ev("crew_started", Ghost))
    /\ gauge' = gauge + 1
    /\ UNCHANGED <<specVars, todo, batch, spawned, dagVars, jobVars, tstat, results,
                   envVars, timedOut, wants, audited, counted, outcome>>

\* A hierarchical crew falls back to sequential.
RunSequential ==
    /\ pc = "mode" /\ kind \in {"sequential", "hierarchical"}
    /\ pc' = "seqHead" /\ todo' = [i \in Tasks |-> i]
    /\ wants' = watched
    /\ UNCHANGED <<specVars, batch, spawned, dagVars, jobVars, tstat, results, envVars,
                   timedOut, events, audited, endVars>>

\* The head of _agnosai_crew_run_wave: read wants_events, queue every task.
StartWave(tasks) ==
    /\ todo' = tasks
    /\ wants' = watched
    /\ tstat' = [t \in Tasks |-> IF t \in Range(tasks) THEN "queued" ELSE tstat[t]]

RunParallel ==
    /\ pc = "mode" /\ kind = "parallel"
    /\ pc' = "batchHead"
    /\ StartWave([i \in Tasks |-> i])
    /\ UNCHANGED <<specVars, batch, spawned, dagVars, jobVars, results, envVars, timedOut,
                   events, audited, endVars>>

RunDag ==
    /\ pc = "mode" /\ kind = "dag" /\ SortedOrders # {}
    /\ pc' = "dagHead"
    /\ remaining' \in SortedOrders
    /\ UNCHANGED <<specVars, todo, batch, spawned, wave, completed, anyFailed, jobVars,
                   tstat, results, envVars, timedOut, wants, events, audited, endVars>>

\* A run that is an error has no state and sends no crew_completed; only the
\* gauge unwinds.
ErrorOut ==
    /\ pc' = "over" /\ outcome' = "error"
    /\ gauge' = gauge - 1

RefuseCycle ==
    /\ pc = "mode" /\ kind = "dag" /\ SortedOrders = {}
    /\ ErrorOut
    /\ UNCHANGED <<specVars, todo, batch, spawned, dagVars, jobVars, tstat, results,
                   envVars, timedOut, wants, events, audited, counted>>

\* Wrong variant: the deadline alone stops a loop.
Stopped_DeadlineOnly == expired

\* What every loop head asks, in this order: cancelled, then out of time.
Stopped == cancelled \/ expired

TimedOutAtHead == timedOut \/ (~cancelled /\ expired)

\* Wrong variant: whether anybody listens is asked again at every event.
Notes_Reread == watched

\* Whether task events are sent: what wants_events read at the head.
Notes == wants
-----------------------------------------------------------------------------
(* Sequential.                                                             *)

SeqHead ==
    /\ pc = "seqHead"
    /\ IF todo = <<>> \/ Stopped
         THEN /\ pc' = "end"
              /\ timedOut' = IF todo = <<>> THEN timedOut ELSE TimedOutAtHead
              /\ UNCHANGED <<todo, batch, job, tstat, events>>
         ELSE /\ pc' = "seqTask"
              /\ batch' = <<Head(todo)>> /\ todo' = Tail(todo)
              /\ tstat' = [tstat EXCEPT ![Head(todo)] = "running"]
              /\ events' = Emit(Notes, Ev("task_started", Head(todo)))
              /\ job' = [job EXCEPT ![Head(todo)] = "working"]
              /\ UNCHANGED timedOut
    /\ UNCHANGED <<specVars, spawned, dagVars, res, results, envVars, wants, audited,
                   endVars>>

\* The task this thread executed has its result: report it and audit it.
SeqReport ==
    /\ pc = "seqTask" /\ job[Head(batch)] = "done"
    /\ pc' = "seqHead"
    /\ LET t == Head(batch) IN
         /\ tstat' = [tstat EXCEPT ![t] = res[t]]
         /\ results' = Append(results, [task |-> t, status |-> res[t]])
         /\ events' = Emit(Notes, Ev("task_completed", t))
         /\ audited' = Append(audited, t)
    /\ batch' = <<>>
    /\ UNCHANGED <<specVars, todo, spawned, dagVars, jobVars, envVars, timedOut, wants,
                   endVars>>
-----------------------------------------------------------------------------
(* A wave: batches of at most BatchLimit workers, joined in dispatch order. *)

BatchHead ==
    /\ pc = "batchHead"
    /\ spawned' = 0
    /\ IF todo = <<>> \/ Stopped
         THEN /\ pc' = IF kind = "dag" THEN "waveOver" ELSE "end"
              /\ timedOut' = IF todo = <<>> THEN timedOut ELSE TimedOutAtHead
         ELSE /\ pc' = "dispatch"
              /\ UNCHANGED timedOut
    /\ UNCHANGED <<specVars, todo, batch, dagVars, jobVars, tstat, results, envVars,
                   wants, events, audited, endVars>>

BatchFull == spawned >= BatchLimit \/ todo = <<>>

\* Announce a task and hand it to a detached thread, or run it here when no
\* thread can be made.
Dispatch ==
    /\ pc = "dispatch" /\ ~BatchFull
    /\ LET t == Head(todo) IN
         /\ events' = Emit(Notes, Ev("task_started", t))
         /\ batch' = Append(batch, t) /\ todo' = Tail(todo)
         /\ \/ /\ job' = [job EXCEPT ![t] = "spawned"] /\ pc' = pc
            \/ /\ "no thread" \in World
               /\ job' = [job EXCEPT ![t] = "inline"] /\ pc' = "inline"
    /\ spawned' = spawned + 1
    /\ UNCHANGED <<specVars, dagVars, res, tstat, results, envVars, timedOut, wants,
                   audited, endVars>>

\* The worker this thread runs itself has returned.
InlineDone ==
    /\ pc = "inline"
    /\ job[batch[Len(batch)]] = "done"
    /\ pc' = "dispatch"
    /\ UNCHANGED <<specVars, todo, batch, spawned, dagVars, jobVars, tstat, results,
                   envVars, timedOut, wants, events, audited, endVars>>

BatchSent ==
    /\ pc = "dispatch" /\ BatchFull
    /\ pc' = "join"
    /\ UNCHANGED <<specVars, todo, batch, spawned, dagVars, jobVars, tstat, results,
                   envVars, timedOut, wants, events, audited, endVars>>

\* Wrong variant: a worker that has stored no DONE yet is passed over.
Joinable_NoWait(t) == TRUE

\* _agnosai_crew_job_wait
Joinable(t) == job[t] = "done"

\* Wait for the next worker in dispatch order and report its task.
Join ==
    /\ pc = "join" /\ batch # <<>>
    /\ LET t == Head(batch) IN
         /\ Joinable(t)
         /\ IF res[t] = "none" THEN UNCHANGED <<tstat, events, results>>
            ELSE /\ tstat' = [tstat EXCEPT ![t] = res[t]]
                 /\ events' = Emit(Notes, Ev("task_completed", t))
                 /\ results' = Append(results, [task |-> t, status |-> res[t]])
    /\ batch' = Tail(batch)
    /\ UNCHANGED <<specVars, pc, todo, spawned, dagVars, jobVars, envVars, timedOut,
                   wants, audited, endVars>>

BatchJoined ==
    /\ pc = "join" /\ batch = <<>>
    /\ pc' = "batchHead"
    /\ UNCHANGED <<specVars, todo, batch, spawned, dagVars, jobVars, tstat, results,
                   envVars, timedOut, wants, events, audited, endVars>>
-----------------------------------------------------------------------------
(* A worker thread, _agnosai_crew_worker.                                  *)

\* Wrong variant: the job of a cancelled crew is left without its DONE.
Skipped_NoDone == "spawned"

\* What a job is after the early return for a cancelled crew.
Skipped == "done"

\* It asks about the cancel before it starts; a cancelled job is a failure.
WorkerStart(t) ==
    /\ job[t] \in {"spawned", "inline"}
    /\ IF cancelled
         THEN /\ job' = [job EXCEPT ![t] = Skipped]
              /\ res' = [res EXCEPT ![t] = "failed"]
         ELSE /\ job' = [job EXCEPT ![t] = "working"]
              /\ UNCHANGED res
    /\ UNCHANGED <<specVars, pc, todo, batch, spawned, dagVars, tstat, results, envVars,
                   timedOut, wants, events, audited, endVars>>

\* Between two turns of tool calls the deadline stops the task, unless a
\* cancel did, and the runner's timed-out word is raised from here.
TaskHalts(t) ==
    /\ "tools" \in World
    /\ job[t] = "working" /\ ~cancelled /\ expired
    /\ job' = [job EXCEPT ![t] = "stopped"]
    /\ timedOut' = TRUE
    /\ UNCHANGED <<specVars, pc, todo, batch, spawned, dagVars, res, tstat, results,
                   envVars, wants, events, audited, endVars>>

\* A task that was stopped failed; one that no client serves completes.
Answers(t) ==
    IF job[t] = "stopped" THEN {"failed"}
    ELSE IF "client" \in World THEN {"completed", "failed"} ELSE {"completed"}

\* A completed task that a model answered sends its token if somebody is
\* subscribed; a wave gives its workers the sender only if wants_events read
\* 1.  DONE is the worker's last touch of the job.
TaskFinishes(t) ==
    /\ job[t] \in {"working", "stopped"}
    /\ job' = [job EXCEPT ![t] = "done"]
    /\ \E st \in Answers(t) :
         /\ res' = [res EXCEPT ![t] = st]
         /\ events' = Emit(/\ "client" \in World /\ st = "completed"
                           /\ watched /\ (pc # "seqTask" => wants), Ev("token", t))
    /\ UNCHANGED <<specVars, pc, todo, batch, spawned, dagVars, tstat, results, envVars,
                   timedOut, wants, audited, endVars>>
-----------------------------------------------------------------------------
(* A DAG: waves of ready tasks.                                            *)

DagHead ==
    /\ pc = "dagHead"
    /\ LET ready == ReadyPart(remaining) IN
         \/ /\ remaining = <<>> \/ Stopped
            /\ pc' = "end"
            /\ timedOut' = IF remaining = <<>> THEN timedOut ELSE TimedOutAtHead
            /\ UNCHANGED <<remaining, wave, todo, wants, tstat, gauge, outcome>>
         \/ /\ remaining # <<>> /\ ~Stopped /\ ready = <<>> /\ anyFailed
            /\ pc' = "end"
            /\ UNCHANGED <<remaining, wave, todo, wants, tstat, timedOut, gauge, outcome>>
         \/ \* DAG deadlock: no state, only the gauge unwinds.
            /\ remaining # <<>> /\ ~Stopped /\ ready = <<>> /\ ~anyFailed
            /\ ErrorOut
            /\ UNCHANGED <<remaining, wave, todo, wants, tstat, timedOut>>
         \/ /\ remaining # <<>> /\ ~Stopped /\ ready # <<>>
            /\ pc' = "batchHead"
            /\ wave' = ready
            /\ remaining' = NotReadyPart(remaining)
            /\ StartWave(ready)
            /\ UNCHANGED <<timedOut, gauge, outcome>>
    /\ UNCHANGED <<specVars, batch, spawned, completed, anyFailed, jobVars, results,
                   envVars, events, audited, counted>>

\* Wrong variant: the failure flag is reset every wave (2.1.5).
FailedAfter_ThisWave(done) == \E t \in Range(wave) : t \notin done

\* A ready task that did not end COMPLETED failed, with a result or without.
FailedAfter(done) == anyFailed \/ \E t \in Range(wave) : t \notin done

\* After a wave: fold it in, and stop once a failure has stranded the rest.
WaveOver ==
    /\ pc = "waveOver"
    /\ completed' = {results[i].task : i \in {j \in DOMAIN results :
                                                results[j].status = "completed"}}
    /\ anyFailed' = FailedAfter(completed')
    /\ pc' = IF /\ anyFailed' /\ remaining # <<>>
                /\ \A t \in Range(remaining) : ~(deps[t] \subseteq completed')
             THEN "end" ELSE "dagHead"
    /\ todo' = <<>> /\ wave' = <<>>
    /\ UNCHANGED <<specVars, batch, spawned, remaining, jobVars, tstat, results, envVars,
                   timedOut, wants, events, audited, endVars>>
-----------------------------------------------------------------------------
AllCompleted ==
    /\ \A i \in DOMAIN results : results[i].status = "completed"
    /\ Len(results) = N

\* A timeout beats everything, then a cancel, then the results.
EndStatus ==
    IF timedOut THEN "failed"
    ELSE IF cancelled THEN "cancelled" ELSE IF AllCompleted THEN "completed" ELSE "failed"

\* The end of agnosai_crew_runner_run: a timed-out run reports no results.
End ==
    /\ pc = "end" /\ pc' = "over"
    /\ outcome' = EndStatus
    /\ gauge' = gauge - 1
    /\ counted' = ResultTasks
    /\ results' = IF timedOut THEN <<>> ELSE results
    /\ events' = Emit(watched, [type |-> "crew_completed", task |-> Ghost,
                                status |-> EndStatus, count |-> Len(results')])
    /\ UNCHANGED <<specVars, todo, batch, spawned, dagVars, jobVars, tstat, envVars,
                   timedOut, wants, audited>>
-----------------------------------------------------------------------------
(* The world outside the run.                                              *)

Cancel ==
    /\ "cancel" \in World
    /\ pc # "over" /\ ~cancelled /\ cancelled' = TRUE
    /\ UNCHANGED <<specVars, pc, todo, batch, spawned, dagVars, jobVars, tstat, results,
                   expired, watched, timedOut, wants, events, audited, endVars>>

Expire ==
    /\ "deadline" \in World
    /\ pc # "over" /\ ~expired /\ expired' = TRUE
    /\ UNCHANGED <<specVars, pc, todo, batch, spawned, dagVars, jobVars, tstat, results,
                   cancelled, watched, timedOut, wants, events, audited, endVars>>

\* The first subscriber comes, or the last one goes.
Watch ==
    /\ "watch" \in World
    /\ pc # "over" /\ watched' = ~watched
    /\ UNCHANGED <<specVars, pc, todo, batch, spawned, dagVars, jobVars, tstat, results,
                   cancelled, expired, timedOut, wants, events, audited, endVars>>

\* The run has returned, and nothing of it is left running.
Returned == pc = "over" /\ UNCHANGED vars

RunnerStep ==
    \/ Begin \/ RunSequential \/ RunParallel \/ RunDag \/ RefuseCycle
    \/ SeqHead \/ SeqReport
    \/ BatchHead \/ Dispatch \/ InlineDone \/ BatchSent \/ Join \/ BatchJoined
    \/ DagHead \/ WaveOver \/ End

WorkerStep(t) == WorkerStart(t) \/ TaskHalts(t) \/ TaskFinishes(t)

Next ==
    \/ RunnerStep \/ (\E t \in Tasks : WorkerStep(t))
    \/ Cancel \/ Expire \/ Watch \/ Returned

Spec == Init /\ [][Next]_vars

\* The runner's thread and every worker thread keep running: no task blocks
\* forever (a gateway that never answers is outside this model).
Fairness == WF_vars(RunnerStep) /\ \A t \in Tasks : WF_vars(WorkerStep(t))

LiveSpec == Spec /\ Fairness
-----------------------------------------------------------------------------
Places == {"begin", "mode", "seqHead", "seqTask", "batchHead", "dispatch", "inline",
           "join", "dagHead", "waveOver", "end", "over"}
Statuses == {"pending", "queued", "running", "completed", "failed"}

\* Every variable holds what the code could store in it.
TypeOK ==
    /\ kind \in Kinds /\ deps \in Graphs \cup {NoDeps}
    /\ pc \in Places
    /\ \A s \in {todo, batch, remaining, wave, audited} : s \in Seq(Tasks)
    /\ spawned \in 0..N
    /\ completed \subseteq Tasks /\ anyFailed \in BOOLEAN
    /\ job \in [Tasks -> JobStates]
    /\ res \in [Tasks -> {"none", "completed", "failed"}]
    /\ tstat \in [Tasks -> Statuses]
    /\ results \in Seq([task : Tasks, status : {"completed", "failed"}])
    /\ {cancelled, expired, timedOut, watched, wants} \subseteq BOOLEAN
    /\ gauge \in 0..1 /\ counted \subseteq Tasks
    /\ outcome \in {"none", "completed", "failed", "cancelled", "error"}

\* No more than max_concurrency tasks of a wave run at once (the comment on
\* _agnosai_crew_run_wave), counting the one a failed thread creation runs on
\* the runner's own thread.
AtMostLimit == Cardinality({t \in Tasks : job[t] \in Alive}) <= BatchLimit

\* No worker outlives its wave: once the wave's loop is done, no worker can touch
\* the job, the sender or the crew's arena, which the orchestrator may scrub.
NoWorkerLeft ==
    pc \in {"batchHead", "waveOver", "dagHead", "end", "over"} =>
        \A t \in Tasks : job[t] \notin Alive

\* Both hold of the workers at every moment of every wave.
WorkersContained == AtMostLimit /\ NoWorkerLeft

\* A DAG task is dispatched only after every dependency has ended COMPLETED,
\* whatever the wave, the batch and the order its workers answered in.
DepsRespected ==
    kind = "dag" => \A t \in Tasks :
        job[t] # "none" => \A d \in deps[t] : d \in Tasks /\ res[d] = "completed"

\* What a run does to its tasks: every variable holds what the code could store
\* in it, workers stay within their limit and their wave, dependencies come first.
RunnerSound == TypeOK /\ WorkersContained /\ DepsRespected

\* A crew reported COMPLETED ran every task of its spec, and each of them
\* completed and is in the result list once.
CompletedMeansAll ==
    outcome = "completed" =>
        /\ \A t \in Tasks : res[t] = "completed"
        /\ ResultTasks = Tasks /\ Len(results) = N

\* A crew reported FAILED timed out, or its own result list shows a failure.
FailureHasCause ==
    outcome = "failed" =>
        timedOut \/ \E i \in DOMAIN results : results[i].status = "failed"

\* A task that was never dispatched is explained by how the run is reported:
\* a cancel, a timeout, an error, or a dependency that did not complete.
ShortRunExplained ==
    pc = "over" => \A t \in Tasks : job[t] = "none" =>
        \/ outcome \in {"cancelled", "error"} \/ timedOut
        \/ kind = "dag" /\ \E d \in deps[t] : d = Ghost \/ res[d] # "completed"

\* A timed-out run is FAILED with no results, even when a cancel landed after
\* the loop head that saw the deadline: the case the comment in
\* agnosai_crew_runner_run says no suite can produce.
TimeoutOutranks ==
    pc = "over" /\ timedOut => outcome = "failed" /\ results = <<>>

\* The error return is for a spec that is wrong, a cycle or a dependency on a
\* task it does not hold; a failure that strands its dependents never takes it.
ErrorMeansBadSpec ==
    outcome = "error" =>
        \/ SortedOrders = {}
        \/ \E t \in Tasks : Ghost \in deps[t] /\ res[t] = "none"

\* Every exit from a run balances the crews_active gauge.
GaugeBalanced == gauge = IF pc \in {"begin", "over"} THEN 0 ELSE 1

\* Every task that ran is folded into the counters, but for the error return.
RanIsCounted ==
    pc = "over" /\ outcome # "error" =>
        \A t \in Tasks : res[t] # "none" => t \in counted

\* What a run reports is what happened in it: each outcome has its cause, the
\* ranks of timeout, cancel and failure are kept, and the accounts are closed.
OutcomeExact ==
    /\ CompletedMeansAll /\ FailureHasCause /\ ShortRunExplained
    /\ TimeoutOutranks /\ ErrorMeansBadSpec /\ GaugeBalanced /\ RanIsCounted

Sent(type) == {i \in DOMAIN events : events[i].type = type}
Before(type, i) == \E j \in Sent(type) : j < i /\ events[j].task = events[i].task

\* The stream pairs up: a task_completed follows its task_started, a token
\* never trails its task_completed, and a run that ends leaves no task started
\* and not completed.
StreamPairs ==
    /\ \A i \in Sent("task_completed") : Before("task_started", i)
    /\ \A i \in Sent("token") : ~Before("task_completed", i)
    /\ pc \in {"end", "over"} => \A i \in Sent("task_started") :
         \E j \in Sent("task_completed") : events[j].task = events[i].task

\* After a cancel no task begins: not the sequential run's next one, and not
\* one a worker thread was already made for.
CancelStops ==
    [][cancelled => \A t \in Tasks : job'[t] = "working" => job[t] = "working"]_vars

\* A run returns, whatever is cancelled, expires or fails on the way.
RunReturns == <>(pc = "over")
=============================================================================
