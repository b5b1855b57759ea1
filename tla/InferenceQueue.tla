--------------------------- MODULE InferenceQueue ---------------------------
(***************************************************************************)
(* src/llm/inference_queue.cyr: callers enqueue a request at a priority    *)
(* and wait on a one-slot reply channel; worker threads poll the queue,    *)
(* run the inference and reply, until they are told to stop.               *)
(*                                                                         *)
(* majra's priority queue is external: one FIFO per level, and dequeue     *)
(* takes from the lowest level number (the most urgent) that is not empty. *)
(***************************************************************************)
EXTENDS Integers, Sequences, FiniteSets

CONSTANTS
    Requests,       \* requests; each is enqueued at most once
    TaskPriorities, \* agnosai priorities a caller may give
    Workers,        \* the threads that take requests:
    Drainers,       \* those in agnosai_inference_queue_drain, the others workers
    NoRequest

Levels == 0..4      \* majra's PRIORITY_CRITICAL to PRIORITY_BACKGROUND

ASSUME DrainersAssumption == Drainers \subseteq Workers
ASSUME TaskPrioritiesAssumption == TaskPriorities \subseteq Int
ASSUME NoRequestAssumption == NoRequest \notin Requests

VARIABLES
    levels,     \* the queue
    priority,   \* the priority each request was given
    reply,      \* "none" before the request, "open", then "ok" or "error"
    running,    \* the request each worker runs, or NoRequest
    at,         \* each worker's place: "head", "take", "run", "exited"
    stop        \* AGN_IQW_STOP

iqVars == <<levels, priority, reply, running, at, stop>>

InferenceInit ==
    /\ levels = [l \in Levels |-> <<>>]
    /\ priority = [q \in Requests |-> 0] /\ reply = [q \in Requests |-> "none"]
    /\ running = [w \in Workers |-> NoRequest] /\ at = [w \in Workers |-> "head"]
    /\ stop = [w \in Workers |-> FALSE]

\* agnosai_map_priority: agnosai counts up, majra counts down, and what is not
\* one of the five is normal.
MapPriority(p) == IF p \in 0..4 THEN 4 - p ELSE 2

EnqueueRequest(q, p) ==
    /\ reply[q] = "none"
    /\ reply' = [reply EXCEPT ![q] = "open"]
    /\ priority' = [priority EXCEPT ![q] = p]
    /\ levels' = [levels EXCEPT ![MapPriority(p)] = Append(@, q)]
    /\ UNCHANGED <<running, at, stop>>

Urgent(l) == levels[l] # <<>> /\ \A m \in Levels : m < l => levels[m] = <<>>

\* The head of the worker's loop; a drain has no flag to look at.
SeeStop(w) ==
    /\ at[w] = "head"
    /\ at' = [at EXCEPT ![w] = IF stop[w] /\ w \notin Drainers THEN "exited" ELSE "take"]
    /\ UNCHANGED <<levels, priority, reply, running, stop>>

\* The flag was read clear; a stop that comes now is seen after this item.
TakeRequest(w) ==
    /\ at[w] = "take"
    /\ \E l \in Levels :
         /\ Urgent(l)
         /\ running' = [running EXCEPT ![w] = Head(levels[l])]
         /\ levels' = [levels EXCEPT ![l] = Tail(@)]
    /\ at' = [at EXCEPT ![w] = "run"]
    /\ UNCHANGED <<priority, reply, stop>>

\* Wrong variant: an empty queue ends the worker.
AfterEmpty_Exit(w) == "exited"

\* An empty queue ends a drain; a worker sleeps in slices and looks at its flag.
AfterEmpty(w) == IF w \in Drainers THEN "exited" ELSE "head"

Nap(w) ==
    /\ at[w] = "take" /\ \A l \in Levels : levels[l] = <<>>
    /\ at' = [at EXCEPT ![w] = AfterEmpty(w)]
    /\ UNCHANGED <<levels, priority, reply, running, stop>>

\* agnosai_inference_queue_settle: the answer of the gateway, or its error.
Settle(w) ==
    /\ at[w] = "run"
    /\ \E a \in {"ok", "error"} : reply' = [reply EXCEPT ![running[w]] = a]
    /\ running' = [running EXCEPT ![w] = NoRequest]
    /\ at' = [at EXCEPT ![w] = "head"]
    /\ UNCHANGED <<levels, priority, stop>>

StopWorker(w) ==
    /\ ~stop[w] /\ w \notin Drainers
    /\ stop' = [stop EXCEPT ![w] = TRUE]
    /\ UNCHANGED <<levels, priority, reply, running, at>>

WorkerStep(w) == SeeStop(w) \/ TakeRequest(w) \/ Nap(w) \/ Settle(w)

InferenceNext ==
    \/ \E q \in Requests, p \in TaskPriorities : EnqueueRequest(q, p)
    \/ \E w \in Workers : WorkerStep(w) \/ StopWorker(w)
-----------------------------------------------------------------------------
InQueue(q) == \E l \in Levels : \E i \in 1..Len(levels[l]) : levels[l][i] = q

InferenceTypeOK ==
    /\ levels \in [Levels -> Seq(Requests)]
    /\ priority \in [Requests -> TaskPriorities \cup {0}]
    /\ reply \in [Requests -> {"none", "open", "ok", "error"}]
    /\ running \in [Workers -> Requests \cup {NoRequest}]
    /\ at \in [Workers -> {"head", "take", "run", "exited"}]
    /\ stop \in [Workers -> BOOLEAN]

\* An open request is in exactly one place, the queue or one thread.
OnePlace == \A q \in Requests :
    reply[q] = "open" => InQueue(q) # (\E w \in Workers : running[w] = q)

\* What a thread takes is not outranked, in agnosai's order, by what it leaves.
NotOutranked ==
    [][\A w \in Workers : running[w] # running'[w] /\ running'[w] # NoRequest =>
         \A x \in Requests : InQueue(x) => priority[x] <= priority[running'[w]]]_iqVars

\* A caller gets an answer: its request is in one place, is taken in its turn, and
\* is settled in the end unless all workers were stopped before it was taken.  One
\* that was taken is settled also then.
Served ==
    /\ []OnePlace /\ NotOutranked
    /\ \A q \in Requests :
         reply[q] = "open" ~> (reply[q] \in {"ok", "error"} \/
                               (InQueue(q) /\ \A w \in Workers \ Drainers : stop[w]))
=============================================================================
