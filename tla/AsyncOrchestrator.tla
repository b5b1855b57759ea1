-------------------------- MODULE AsyncOrchestrator --------------------------
(***************************************************************************)
(* rust-old/src/orchestrator/orchestrator.rs: run_crew and cancel_crew as  *)
(* tasks of a tokio runtime.  What runs between two awaits, or under the   *)
(* write lock of the state, is one step; the cancel tokens are in a map of *)
(* their own, outside that lock.                                           *)
(*                                                                         *)
(* A crew id is run once.  The runner (AsyncRunner) is the time from the   *)
(* token to its answer; it reads its flag for the last time as it returns. *)
(* Its answer is a state, an error (a DAG that cannot be ordered or that   *)
(* stops moving) or nothing within the time the budget gives.              *)
(***************************************************************************)
EXTENDS Integers, FiniteSets

CONSTANTS
    Crews,
    MaxConcurrent,      \* budget.max_concurrent_tasks: permits
    MaxRetainedCrews,   \* MAX_RETAINED_CREWS
    MaxCancels          \* crews that may be cancelled in all, a bound

ASSUME OrchestratorAssumption ==
    /\ IsFiniteSet(Crews) /\ MaxConcurrent \in Nat \ {0} /\ MaxRetainedCrews \in Nat /\ MaxCancels \in Nat

VARIABLES
    at,         \* where the run of each crew stands
    status,     \* active_crews: the status shown, or "absent"
    token,      \* whether cancel_tokens holds the crew's token
    flag,       \* the token itself
    channel,    \* whether the event bus holds the crew's channel
    answer,     \* what the runner returned
    canceller,  \* a cancel_crew call between its two steps
    heard       \* cancels that raised the flag before the runner's last look

orchVars == <<at, status, token, flag, channel, answer, canceller, heard>>

Terminal == {"completed", "failed", "cancelled"}
Answers == Terminal \cup {"error", "timeout"}
Holding == {"permitted", "registered", "running", "returned", "stored"}

OrchInit ==
    /\ at = [c \in Crews |-> "submitted"]
    /\ status = [c \in Crews |-> "absent"]
    /\ token = [c \in Crews |-> FALSE] /\ flag = [c \in Crews |-> FALSE]
    /\ channel = [c \in Crews |-> FALSE]
    /\ answer = [c \in Crews |-> "none"]
    /\ canceller = [c \in Crews |-> "idle"] /\ heard = {}

\* crew_semaphore.acquire; the acceptance is put in the audit chain.
Acquire(c) ==
    /\ at[c] = "submitted"
    /\ Cardinality({d \in Crews : at[d] \in Holding}) < MaxConcurrent
    /\ at' = [at EXCEPT ![c] = "permitted"]
    /\ UNCHANGED <<status, token, flag, channel, answer, canceller, heard>>

Retained == {c \in Crews : status[c] # "absent"}

\* Wrong variant: pending crews are evicted with the others.
Evictable_Any == Retained

\* What eviction lets go of, by the status alone.
Evictable == {c \in Crews : status[c] \in Terminal}

Evicted == IF Cardinality(Retained) >= MaxRetainedCrews THEN Evictable ELSE {}

\* Under the write lock: evict at capacity, insert as pending.
Register(c) ==
    /\ at[c] = "permitted"
    /\ status' = [d \in Crews |-> IF d = c THEN "pending"
                                  ELSE IF d \in Evicted THEN "absent" ELSE status[d]]
    /\ at' = [at EXCEPT ![c] = "registered"]
    /\ UNCHANGED <<token, flag, channel, answer, canceller, heard>>

\* After the lock: the token, the runner, its event channel.
StartRunner(c) ==
    /\ at[c] = "registered"
    /\ token' = [token EXCEPT ![c] = TRUE]
    /\ channel' = [channel EXCEPT ![c] = TRUE]
    /\ at' = [at EXCEPT ![c] = "running"]
    /\ UNCHANGED <<status, flag, answer, canceller, heard>>

\* Wrong variant: the status is made of the results alone.
RunnerAnswers_ByResults(c) == {"completed", "failed", "error", "timeout"}

\* CrewRunner::run: a raised flag wins over the results, not over an error.
RunnerAnswers(c) ==
    {"error", "timeout"} \cup IF flag[c] THEN {"cancelled"} ELSE {"completed", "failed"}

\* The runner returns, or the timeout drops it.
RunnerReturns(c, a) ==
    /\ at[c] = "running" /\ a \in RunnerAnswers(c)
    /\ answer' = [answer EXCEPT ![c] = a]
    /\ at' = [at EXCEPT ![c] = IF a = "error" THEN "left" ELSE "returned"]
    /\ UNCHANGED <<status, token, flag, channel, canceller, heard>>

\* The state made of a timeout is a failed one.
FinalStatus(a) == IF a = "timeout" THEN "failed" ELSE a

\* The final state is inserted over whatever the entry shows by now, be it
\* cancelled or no entry at all.
Store(c) ==
    /\ at[c] = "returned"
    /\ status' = [status EXCEPT ![c] = FinalStatus(answer[c])]
    /\ at' = [at EXCEPT ![c] = "stored"]
    /\ UNCHANGED <<token, flag, channel, answer, canceller, heard>>

\* Wrong variant: the channel is left to the next clean-up.
CleanUp_KeepsChannel(c) ==
    /\ at[c] = "stored"
    /\ token' = [token EXCEPT ![c] = FALSE]
    /\ at' = [at EXCEPT ![c] = "left"]
    /\ UNCHANGED <<status, flag, channel, answer, canceller, heard>>

\* The token and the channel go, and with the return the permit.
CleanUp(c) ==
    /\ at[c] = "stored"
    /\ token' = [token EXCEPT ![c] = FALSE]
    /\ channel' = [channel EXCEPT ![c] = FALSE]
    /\ at' = [at EXCEPT ![c] = "left"]
    /\ UNCHANGED <<status, flag, answer, canceller, heard>>

\* cancel_crew, before the lock: raise the flag if there is a token.
CancelSignal(c) ==
    /\ canceller[c] = "idle"
    /\ Cardinality({d \in Crews : canceller[d] # "idle"}) < MaxCancels
    /\ canceller' = [canceller EXCEPT ![c] = "signalled"]
    /\ flag' = [flag EXCEPT ![c] = @ \/ token[c]]
    /\ heard' = IF token[c] /\ at[c] = "running" THEN heard \cup {c} ELSE heard
    /\ UNCHANGED <<at, status, token, channel, answer>>

\* cancel_crew, under the lock: the entry is marked whatever it showed; a crew
\* that is not there is an error.
CancelMark(c) ==
    /\ canceller[c] = "signalled"
    /\ canceller' = [canceller EXCEPT ![c] = IF status[c] = "absent" THEN "refused" ELSE "done"]
    /\ status' = [status EXCEPT ![c] = IF @ = "absent" THEN @ ELSE "cancelled"]
    /\ UNCHANGED <<at, token, flag, channel, answer, heard>>

CrewStep(c) ==
    \/ Acquire(c) \/ Register(c) \/ StartRunner(c)
    \/ \E a \in Answers : RunnerReturns(c, a)
    \/ Store(c) \/ CleanUp(c)

OrchNext == \E c \in Crews : CrewStep(c) \/ CancelSignal(c) \/ CancelMark(c)
-----------------------------------------------------------------------------
OrchTypeOK ==
    /\ at \in [Crews -> Holding \cup {"submitted", "left"}]
    /\ status \in [Crews -> Terminal \cup {"absent", "pending"}]
    /\ answer \in [Crews -> Answers \cup {"none"}]
    /\ heard \subseteq Crews

\* A cancel that raised the flag of a running crew is the crew's end unless an
\* error or the timeout is; and what a poller sees of a crew between its
\* registration and its end is pending, or cancelled by a caller, or nothing
\* because an eviction took the cancelled entry of a crew that still runs.
CancelHeard == \A c \in Crews :
    /\ c \in heard /\ at[c] \in {"returned", "stored", "left"} =>
         answer[c] \in {"cancelled", "error", "timeout"}
    /\ at[c] \in {"registered", "running", "returned"} =>
         \/ status[c] = "pending"
         \/ status[c] \in {"cancelled", "absent"} /\ canceller[c] = "done"

\* A crew that left behind its token, its channel or an entry that says pending
\* left with an error: every other end takes all three away.
LeavesNothing == \A c \in Crews :
    at[c] = "left" /\ (token[c] \/ channel[c] \/ status[c] = "pending") => answer[c] = "error"
=============================================================================
