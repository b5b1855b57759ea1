----------------------------- MODULE Scheduler -----------------------------
(***************************************************************************)
(* src/orchestrator/scheduler.cyr: five FIFO priority tiers, a loaded DAG  *)
(* with its ready set, and two topological sorts, each with the order it   *)
(* answers fixed down to the ties.                                         *)
(*                                                                         *)
(* A DAG is its keys in insertion order, its edges and its priorities; a   *)
(* task vector is a sequence of tasks with a list of dependencies each.    *)
(* Keys are numbers, so that the sort by name is the order of numbers, and *)
(* an edge or a dependency may name a key that is not there.  A key stands *)
(* for its task's id as well: load_dag's id_to_key is one to one.          *)
(*                                                                         *)
(* rust-old/src/orchestrator/scheduler.rs has the same DAG and the same    *)
(* sorts but for ties: those, ready_tasks' order and the clamp of a        *)
(* priority to its tier are the Cyrius tree's.                             *)
(***************************************************************************)
EXTENDS Integers, Sequences, FiniteSets, Functions, SequencesExt

CONSTANTS
    Dags,           \* the DAGs a caller may load
    Vectors,        \* the task vectors a crew may hold
    Priorities,     \* what agnosai_task_priority may answer
    MaxArrivals,    \* tasks enqueued in all, a bound
    MaxLoads        \* DAGs and vectors offered in all, a bound

Tiers == 0..4       \* AGNOSAI_SCHED_TIERS

ASSUME PrioritiesAssumption == Priorities \subseteq Int

\* A key is in the map of a DAG once; what it names and lists is finite.
ASSUME DagsAssumption == \A d \in Dags :
    /\ d.keys \in Seq(Int) /\ IsInjective(d.keys)
    /\ \A k \in Range(d.keys) : d.priority[k] \in Int
    /\ IsFiniteSet(d.edges) /\ d.edges \subseteq Int \X Int
ASSUME VectorsAssumption == Vectors \subseteq Seq([deps : Seq(Int), priority : Int])
ASSUME LimitsAssumption == MaxArrivals \in Nat /\ MaxLoads \in Nat

VARIABLES
    queues,     \* AGN_SCH_QUEUES
    arrivals,   \* how many tasks have been enqueued
    taken,      \* the task dequeue last answered, and what it left waiting
    dag,        \* the loaded DAG
    offered,    \* the DAG load_dag was last given
    accepted,   \* and what it answered
    done,       \* the caller's completed ids, in the order they completed
    vec, order, \* the vector last sorted, and the answer
    loads

schedulerVars == <<queues, arrivals, taken, dag, offered, accepted, done, vec, order, loads>>
-----------------------------------------------------------------------------
(* Kahn's algorithm over keys.                                             *)

Keys(d) == Range(d.keys)
DependenciesOf(d, k) == {e[1] : e \in {x \in d.edges : x[2] = k}}
DependentsOf(d, k) == {e[2] : e \in {x \in d.edges : x[1] = k}}

\* The elements of S in ascending order.
Sorted(S) == CHOOSE s \in SetToSeqs(S) : \A i, j \in DOMAIN s : i < j => s[i] < s[j]

\* Wrong variant: a successor is queued by the first of its dependencies.
Freed_AtOnce(degree, lowered) == lowered

\* The successors whose in-degree reaches 0.
Freed(degree, lowered) == {t \in lowered : degree[t] = 0}

\* One turn of the loop: take the i-th of the queue, lower its successors, and
\* append those that are free.  A successor the DAG does not hold is skipped.
KahnTurn(d, s, i) ==
    IF i > Len(s.queue) THEN s
    ELSE LET lowered == DependentsOf(d, s.queue[i]) \cap Keys(d) IN
         LET degree == [k \in Keys(d) |->
                          s.degree[k] - IF k \in lowered THEN 1 ELSE 0] IN
           [queue |-> s.queue \o Sorted(Freed(degree, lowered)), degree |-> degree]

\* agnosai_scheduler_kahn_sort: every queued key, in the order it was queued.
\* Edges are sets: one listed twice counts once (_agnosai_sched_add_edge).
KahnQueue(d) ==
    LET degree == [k \in Keys(d) |-> Cardinality(DependenciesOf(d, k))] IN
    LET start == [queue |-> Sorted({k \in Keys(d) : degree[k] = 0}), degree |-> degree] IN
    LET after[i \in 0..Len(d.keys)] ==
          IF i = 0 THEN start ELSE KahnTurn(d, after[i - 1], i) IN
      after[Len(d.keys)].queue

\* A cycle, or an edge from a key that is not there, leaves a key unqueued.
KahnAccepts(d) == Len(KahnQueue(d)) = Len(d.keys)
-----------------------------------------------------------------------------
(* agnosai_topological_sort_tasks_a, over a vector v of tasks.             *)

Waiting(v, s) == {c \in DOMAIN v : ~s.taken[c] /\ s.degree[c] = 0}

\* Wrong variant: of equal priorities the later task wins.
Beats_Late(v, a, b) ==
    v[a].priority > v[b].priority \/ (v[a].priority = v[b].priority /\ a > b)

\* The scan keeps the first task of the highest priority.
Beats(v, a, b) ==
    v[a].priority > v[b].priority \/ (v[a].priority = v[b].priority /\ a < b)

Best(v, s) == CHOOSE a \in Waiting(v, s) : \A b \in Waiting(v, s) \ {a} : Beats(v, a, b)

\* How often c lists a dependency on b: a dependency listed twice counts twice,
\* and is lowered twice.
Listed(v, c, b) == Cardinality({i \in DOMAIN v[c].deps : v[c].deps[i] = b})

\* One turn of the loop; with nothing waiting the code returns 0 for good.
SortTurn(v, s) ==
    IF Waiting(v, s) = {} THEN s
    ELSE LET b == Best(v, s) IN
           [order |-> Append(s.order, b), taken |-> [s.taken EXCEPT ![b] = TRUE],
            degree |-> [c \in DOMAIN v |-> s.degree[c] - Listed(v, c, b)]]

\* A dependency that names no task of the vector is ignored.
InDegree(v, c) == Cardinality({i \in DOMAIN v[c].deps : v[c].deps[i] \in DOMAIN v})

\* The order, shorter than the vector when the code answers 0.
TopologicalSort(v) ==
    LET start == [order |-> <<>>, taken |-> [c \in DOMAIN v |-> FALSE],
                  degree |-> [c \in DOMAIN v |-> InDegree(v, c)]] IN
    LET after[i \in 0..Len(v)] ==
          IF i = 0 THEN start ELSE SortTurn(v, after[i - 1]) IN
      after[Len(v)].order
-----------------------------------------------------------------------------
NoDag == [keys |-> <<>>, edges |-> {}, priority |-> <<>>]

SchedulerInit ==
    /\ queues = [t \in Tiers |-> <<>>]
    /\ arrivals = 0 /\ taken = <<>>
    /\ dag = NoDag /\ offered = NoDag /\ accepted = TRUE
    /\ done = <<>>
    /\ vec = <<>> /\ order = <<>> /\ loads = 0

\* Wrong variant: a priority above the range goes to the lowest tier.
TierOf_Wrapped(p) == p % 5

\* A priority outside the range is clamped to it.
TierOf(p) == IF p < 0 THEN 0 ELSE IF p > 4 THEN 4 ELSE p

Enqueue(p) ==
    /\ arrivals < MaxArrivals
    /\ arrivals' = arrivals + 1
    /\ queues' = [queues EXCEPT ![TierOf(p)] = Append(@, [priority |-> p, at |-> arrivals])]
    /\ UNCHANGED <<taken, dag, offered, accepted, done, vec, order, loads>>

\* The head of the highest tier that is not empty.
Dequeue ==
    \E t \in Tiers :
      /\ queues[t] # <<>> /\ \A u \in Tiers : u > t => queues[u] = <<>>
      /\ taken' = <<Head(queues[t])>>
      /\ queues' = [queues EXCEPT ![t] = Tail(@)]
      /\ UNCHANGED <<arrivals, dag, offered, accepted, done, vec, order, loads>>

\* Wrong variant: the new DAG is stored before it is checked.
LoadDag_CommitsFirst(d) ==
    /\ loads < MaxLoads /\ loads' = loads + 1
    /\ offered' = d /\ accepted' = KahnAccepts(d)
    /\ dag' = d
    /\ done' = IF accepted' THEN <<>> ELSE done
    /\ UNCHANGED <<queues, arrivals, taken, vec, order>>

\* agnosai_scheduler_load_dag: check the new DAG before the old one is touched.
\* A caller starts a DAG it loaded with nothing completed.
LoadDag(d) ==
    /\ loads < MaxLoads /\ loads' = loads + 1
    /\ offered' = d /\ accepted' = KahnAccepts(d)
    /\ dag' = IF accepted' THEN d ELSE dag
    /\ done' = IF accepted' THEN <<>> ELSE done
    /\ UNCHANGED <<queues, arrivals, taken, vec, order>>

DependenciesMet(k) == DependenciesOf(dag, k) \subseteq Range(done)

\* Where the tasks stand that are neither completed nor wait for another.
Unblocked ==
    {i \in DOMAIN dag.keys : dag.keys[i] \notin Range(done) /\ DependenciesMet(dag.keys[i])}

\* By priority, and by insertion where it is the same.
Ahead(i, j) ==
    LET p(k) == dag.priority[dag.keys[k]] IN p(i) > p(j) \/ (p(i) = p(j) /\ i < j)

\* agnosai_scheduler_ready_tasks: in insertion order, then stably by priority.
ReadyTasks ==
    LET ranked == CHOOSE s \in SetToSeqs(Unblocked) :
                    \A i, j \in DOMAIN s : i < j => Ahead(s[i], s[j]) IN
      [i \in DOMAIN ranked |-> dag.keys[ranked[i]]]

\* The caller has run one of the ready tasks.
Finish(k) ==
    /\ k \in Range(ReadyTasks)
    /\ done' = Append(done, k)
    /\ UNCHANGED <<queues, arrivals, taken, dag, offered, accepted, vec, order, loads>>

\* A DAG crew sorts its tasks (_agnosai_crew_run_dag).
SortTasks(v) ==
    /\ loads < MaxLoads /\ loads' = loads + 1
    /\ vec' = v /\ order' = TopologicalSort(v)
    /\ UNCHANGED <<queues, arrivals, taken, dag, offered, accepted, done>>

QueueStep == (\E p \in Priorities : Enqueue(p)) \/ Dequeue

LoadStep == (\E d \in Dags : LoadDag(d)) \/ (\E v \in Vectors : SortTasks(v))

SchedulerNext == QueueStep \/ LoadStep \/ \E k \in Keys(dag) : Finish(k)

SchedulerSpec == SchedulerInit /\ [][SchedulerNext]_schedulerVars
-----------------------------------------------------------------------------
Waiters == UNION {Range(queues[t]) : t \in Tiers}

\* Every variable holds what the code could store in it.
SchedulerTypeOK ==
    /\ queues \in [Tiers -> Seq([priority : Priorities, at : Nat])]
    /\ arrivals \in 0..MaxArrivals /\ loads \in 0..MaxLoads
    /\ taken \in Seq([priority : Priorities, at : Nat])
    /\ dag = NoDag \/ dag \in Dags
    /\ offered = NoDag \/ offered \in Dags
    /\ accepted \in BOOLEAN /\ done \in Seq(Keys(dag))
    /\ vec = <<>> \/ vec \in Vectors
    /\ order \in Seq(DOMAIN vec)

\* Dequeue takes a task no waiting task outranks, and of those it could take
\* the one that came first; priorities outside the range rank as its ends.
TakesInOrder ==
    [][taken' # taken => \A w \in Waiters :
         LET x == taken'[1] IN
           \/ w.priority < x.priority
           \/ /\ x.at <= w.at
              /\ w.priority = x.priority \/ x.priority >= 4 \/ w.priority <= 0]_schedulerVars

\* An order of the keys in which every edge between two of them goes forward.
Forward(d, s) ==
    /\ Len(s) = Len(d.keys) /\ Range(s) = Keys(d)
    /\ \A i, j \in DOMAIN s : <<s[i], s[j]>> \in d.edges => i < j

\* load_dag accepts a DAG exactly when its keys can be ordered and no edge
\* comes into it from a key it does not hold; the order it found is one.
KahnExact ==
    /\ accepted <=> /\ \E s \in SetToSeqs(Keys(offered)) : Forward(offered, s)
                    /\ \A e \in offered.edges : e[2] \in Keys(offered) => e[1] \in Keys(offered)
    /\ accepted => Forward(offered, KahnQueue(offered))

\* A loaded DAG never gets stuck: until every key has completed, one is ready.
NeverStuck == Range(done) # Keys(dag) => ReadyTasks # <<>>

\* However the caller picks from the ready tasks, they complete in an order
\* that respects every edge, and each once.
RunsForward == \A i, j \in DOMAIN done :
    /\ i # j => done[i] # done[j]
    /\ <<done[i], done[j]>> \in dag.edges => i < j

\* A loaded DAG runs through: never stuck, and along its edges.
RunsThrough == NeverStuck /\ RunsForward

Needs(v, c) == {v[c].deps[i] : i \in DOMAIN v[c].deps} \cap DOMAIN v

\* The order agnosai_topological_sort_tasks answers, or 0 for a cycle: complete
\* exactly when some order exists, forward along every dependency, and at each
\* place the first task of the highest priority among those that could stand
\* there.
SortExact ==
    /\ Len(order) = Len(vec) <=>
         \E s \in SetToSeqs(DOMAIN vec) :
           \A i, j \in DOMAIN s : s[i] \in Needs(vec, s[j]) => i < j
    /\ \A i, j \in DOMAIN order : i < j =>
         /\ order[i] # order[j] /\ order[j] \notin Needs(vec, order[i])
         /\ Needs(vec, order[j]) \subseteq {order[h] : h \in 1..(i - 1)} =>
              \/ vec[order[i]].priority > vec[order[j]].priority
              \/ /\ vec[order[i]].priority = vec[order[j]].priority
                 /\ order[i] < order[j]
=============================================================================
