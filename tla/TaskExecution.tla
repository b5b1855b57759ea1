--------------------------- MODULE TaskExecution ---------------------------
(***************************************************************************)
(* rust-old/src/orchestrator/crew_runner.rs, execute_task, with what it    *)
(* calls: the response cache, llm/retry.rs around every inference, and the *)
(* output_validation.rs loop that asks again for an answer of the shape    *)
(* the task's schema wants.  Tasks of one crew run side by side and share  *)
(* the cache.                                                              *)
(*                                                                         *)
(* An answer is whose request it answers and whether it has the shape      *)
(* asked for; prompts, temperatures and metadata are left out.  The cache  *)
(* is hoosh's (external): what was inserted last under a key, or, once it  *)
(* has expired or been evicted, nothing.  Its key is made of the model and *)
(* the context messages, not of the task's description: KeyOf need not be  *)
(* injective.                                                              *)
(***************************************************************************)
EXTENDS Integers, FiniteSets

CONSTANTS
    Tasks,                  \* ids of the crew's tasks
    KeyOf,                  \* cache_key of each task's request
    HasSchema,              \* the tasks with an output_schema
    MaxRetries,             \* RetryConfig::max_retries
    MaxValidationRetries    \* MAX_VALIDATION_RETRIES

ASSUME ExecutionAssumption ==
    /\ IsFiniteSet(Tasks) /\ HasSchema \subseteq Tasks
    /\ MaxRetries \in Nat /\ MaxValidationRetries \in Nat

VARIABLES
    llm,        \* whether the runner was given a client
    cache,      \* ResponseCache: the answer under each key
    stage,      \* where each execution stands
    attempt,    \* with_retry's counter in the present inference
    rounds,     \* validation attempts used
    asked,      \* inferences that were answered, of each task
    outcome,    \* TaskResult::status
    output      \* TaskResult::output

execVars == <<llm, cache, stage, attempt, rounds, asked, outcome, output>>

CacheKeys == {KeyOf[t] : t \in Tasks}
NoAnswer == [of |-> "nobody", valid |-> FALSE]
Placeholder == [of |-> "placeholder", valid |-> FALSE]
Answer(t, v) == [of |-> t, valid |-> v]
Stages == {"idle", "infer", "done", "dropped"}

ExecInit ==
    /\ llm \in BOOLEAN
    /\ cache = [k \in CacheKeys |-> NoAnswer]
    /\ stage = [t \in Tasks |-> "idle"]
    /\ attempt = [t \in Tasks |-> 0] /\ rounds = [t \in Tasks |-> 0]
    /\ asked = [t \in Tasks |-> 0]
    /\ outcome = [t \in Tasks |-> "none"]
    /\ output = [t \in Tasks |-> NoAnswer]

Finish(t, status, a) ==
    /\ stage' = [stage EXCEPT ![t] = "done"]
    /\ outcome' = [outcome EXCEPT ![t] = status]
    /\ output' = [output EXCEPT ![t] = a]

\* Up to the first await: no client is the placeholder, a hit is the answer.
ExecStart(t) ==
    /\ stage[t] = "idle"
    /\ IF ~llm THEN Finish(t, "completed", Placeholder)
       ELSE IF cache[KeyOf[t]] # NoAnswer THEN Finish(t, "completed", cache[KeyOf[t]])
       ELSE stage' = [stage EXCEPT ![t] = "infer"] /\ UNCHANGED <<outcome, output>>
    /\ UNCHANGED <<llm, cache, attempt, rounds, asked>>

\* Wrong variant: the last attempt is retried as well.
MayRetry_Inclusive(t, retryable) == attempt[t] <= MaxRetries /\ retryable

\* with_retry: is another attempt made after an error?
MayRetry(t, retryable) == attempt[t] < MaxRetries /\ retryable

\* An inference fails: after a delay with_retry asks again, or gives up.
InferFails(t, retryable) ==
    /\ stage[t] = "infer"
    /\ IF MayRetry(t, retryable)
       THEN attempt' = [attempt EXCEPT ![t] = @ + 1] /\ UNCHANGED <<stage, outcome, output>>
       ELSE Finish(t, "failed", NoAnswer) /\ UNCHANGED attempt
    /\ UNCHANGED <<llm, cache, rounds, asked>>

\* Wrong variant: an answer of the wrong shape is taken at once.
AsksAgain_Never(t, v) == FALSE

\* The validation loop: an answer of the wrong shape is sent back, so often.
AsksAgain(t, v) == t \in HasSchema /\ ~v /\ rounds[t] < MaxValidationRetries

\* An inference is answered.  The last answer is kept whatever its shape, put
\* in the cache and made the task's output.
InferAnswers(t, v) ==
    /\ stage[t] = "infer"
    /\ asked' = [asked EXCEPT ![t] = @ + 1]
    /\ IF AsksAgain(t, v)
       THEN /\ rounds' = [rounds EXCEPT ![t] = @ + 1]
            /\ attempt' = [attempt EXCEPT ![t] = 0]
            /\ UNCHANGED <<cache, stage, outcome, output>>
       ELSE /\ cache' = [cache EXCEPT ![KeyOf[t]] = Answer(t, v)]
            /\ Finish(t, "completed", Answer(t, v))
            /\ UNCHANGED <<rounds, attempt>>
    /\ UNCHANGED llm

\* A spawned execution panics, or is dropped with the JoinSet that owns it.
Drop(t) ==
    /\ stage' = [stage EXCEPT ![t] = "dropped"]
    /\ UNCHANGED <<llm, cache, attempt, rounds, asked, outcome, output>>

\* The cache forgets an answer by itself (time to live, capacity).
CacheForgets(k) ==
    /\ cache[k] # NoAnswer
    /\ cache' = [cache EXCEPT ![k] = NoAnswer]
    /\ UNCHANGED <<llm, stage, attempt, rounds, asked, outcome, output>>

\* An answer to a task without a schema has no shape to miss.
Shapes(t) == IF t \in HasSchema THEN BOOLEAN ELSE {TRUE}

Infers(t) ==
    \/ \E r \in BOOLEAN : InferFails(t, r)
    \/ \E v \in Shapes(t) : InferAnswers(t, v)
-----------------------------------------------------------------------------
ExecTypeOK ==
    /\ llm \in BOOLEAN
    /\ \A k \in CacheKeys : cache[k] = NoAnswer \/ cache[k].of \in Tasks
    /\ stage \in [Tasks -> Stages]
    /\ attempt \in [Tasks -> 0..MaxRetries]
    /\ rounds \in [Tasks -> 0..MaxValidationRetries]
    /\ asked \in [Tasks -> 0..(MaxValidationRetries + 1)]
    /\ outcome \in [Tasks -> {"none", "completed", "failed"}]

\* What a task answers was answered to a request with its cache key, a wrong
\* shape gets out only after every round of re-asking by whoever asked, nobody
\* asks the gateway more often than the two limits allow together, and a task
\* without an answer failed: never an empty success.
AnswersAccounted == \A t \in Tasks :
    /\ asked[t] <= MaxValidationRetries + 1 /\ attempt[t] <= MaxRetries
    /\ outcome[t] = "failed" => output[t] = NoAnswer
    /\ outcome[t] = "completed" /\ output[t] # Placeholder =>
         LET by == output[t].of IN
           /\ by \in Tasks /\ KeyOf[by] = KeyOf[t] /\ outcome[by] = "completed"
           /\ by \in HasSchema /\ ~output[t].valid => rounds[by] = MaxValidationRetries
           /\ by # t => asked[t] = 0
=============================================================================
