----------------------------- MODULE AsyncQueue -----------------------------
(***************************************************************************)
(* rust-old/src/llm/inference_queue.rs: requests are put into majra's      *)
(* priority queue (external: one FIFO per level, the most urgent first) by *)
(* a task spawned for the purpose, and taken by workers that run until     *)
(* their handle is aborted.  The caller waits on a oneshot channel, which  *)
(* is closed when whoever holds its sender is dropped.                     *)
(***************************************************************************)
EXTENDS Integers, Sequences, FiniteSets

CONSTANTS
    Asks,           \* requests; each is made at most once
    TaskTiers,      \* task priorities 0 (background) to 4 (critical)
    Pollers,        \* workers
    NoAsk

ASSUME AsyncQueueAssumption == TaskTiers \subseteq 0..4 /\ NoAsk \notin Asks

VARIABLES
    lanes,      \* the queue, by level: 0 is critical
    tierOf,     \* the priority given with each request
    askState,      \* "none", "spawned", "queued", "taken", then "ok", "error", "closed"
    busy,       \* what each worker infers, or NoAsk
    aborted     \* workers whose handle was aborted

aqVars == <<lanes, tierOf, askState, busy, aborted>>

AsyncQueueInit ==
    /\ lanes = [l \in 0..4 |-> <<>>] /\ tierOf = [a \in Asks |-> 0]
    /\ askState = [a \in Asks |-> "none"]
    /\ busy = [w \in Pollers |-> NoAsk] /\ aborted = {}

\* Wrong variant: the number of the task priority is taken for majra's.
Level_Straight(tier) == tier

\* map_priority: majra counts the other way round.
Level(tier) == 4 - tier

\* enqueue returns at once; enqueue_normal and enqueue_background fix the tier.
Ask(a, tier) ==
    /\ askState[a] = "none"
    /\ askState' = [askState EXCEPT ![a] = "spawned"]
    /\ tierOf' = [tierOf EXCEPT ![a] = tier]
    /\ UNCHANGED <<lanes, busy, aborted>>

\* The spawned task gets to the queue, in no particular order.
Enter(a) ==
    /\ askState[a] = "spawned"
    /\ askState' = [askState EXCEPT ![a] = "queued"]
    /\ lanes' = [lanes EXCEPT ![Level(tierOf[a])] = Append(@, a)]
    /\ UNCHANGED <<tierOf, busy, aborted>>

First(l) == lanes[l] # <<>> /\ \A m \in 0..4 : m < l => lanes[m] = <<>>

TakeAsk(w, l) ==
    /\ w \notin aborted /\ busy[w] = NoAsk /\ First(l)
    /\ busy' = [busy EXCEPT ![w] = Head(lanes[l])]
    /\ askState' = [askState EXCEPT ![Head(lanes[l])] = "taken"]
    /\ lanes' = [lanes EXCEPT ![l] = Tail(@)]
    /\ UNCHANGED <<tierOf, aborted>>

AnswerAsk(w, how) ==
    /\ busy[w] # NoAsk
    /\ askState' = [askState EXCEPT ![busy[w]] = how]
    /\ busy' = [busy EXCEPT ![w] = NoAsk]
    /\ UNCHANGED <<lanes, tierOf, aborted>>

\* The worker's future is dropped, and with it the sender of what it held.
AbortWorker(w) ==
    /\ w \notin aborted
    /\ aborted' = aborted \cup {w}
    /\ askState' = [a \in Asks |-> IF a = busy[w] THEN "closed" ELSE askState[a]]
    /\ busy' = [busy EXCEPT ![w] = NoAsk]
    /\ UNCHANGED <<lanes, tierOf>>

PollerStep(w) ==
    \/ \E l \in 0..4 : TakeAsk(w, l)
    \/ \E how \in {"ok", "error"} : AnswerAsk(w, how)

AsyncQueueNext ==
    \/ \E a \in Asks : Enter(a) \/ \E tier \in TaskTiers : Ask(a, tier)
    \/ \E w \in Pollers : PollerStep(w) \/ AbortWorker(w)
-----------------------------------------------------------------------------
\* Whoever is taken was asked for with the highest priority of all that had got
\* to the queue; and an answer, or the closing of the channel by an abort, comes
\* only to what a worker holds, once.
AsksInOrder ==
    [][\A a \in Asks : askState'[a] # askState[a] =>
         CASE askState[a] = "queued" ->
                askState'[a] = "taken" /\ \A b \in Asks : askState[b] = "queued" => tierOf[b] <= tierOf[a]
           [] askState[a] = "taken" ->
                \E w \in Pollers : busy[w] = a /\ (askState'[a] = "closed" <=> w \in aborted' \ aborted)
           [] OTHER -> askState[a] \in {"none", "spawned"}]_aqVars
=============================================================================
