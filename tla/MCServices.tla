---------------------------- MODULE MCServices ----------------------------
(* The parts that share nothing with one another, each by itself: every      *)
(* behaviour is about one of them.  Every small DAG and every small task     *)
(* vector, for Scheduler.                                                    *)
EXTENDS Scheduler, AuditChain, InferenceQueue

CONSTANT K      \* keys of a DAG, and tasks of a vector

\* Any of the keys, in any insertion order, with edges between any of them.
AllDags ==
    [keys : {s \in UNION {[1..n -> 1..K] : n \in 0..K} : IsInjective(s)},
     edges : SUBSET ((1..K) \X (1..K)),
     priority : {[k \in 1..K |-> k % 2]}]

\* Dependency lists of length 0 to 2, over the tasks and one id outside (0), a
\* dependency on oneself and one listed twice included.
AllVectors ==
    [1..K -> [deps : {s \in UNION {[1..n -> 0..K] : n \in 0..2} :
                        Len(s) = 2 => s[1] <= s[2]},
              priority : {1, 2}]]

MixedPriorities == {-1, 0, 2, 4, 6}

VARIABLE side   \* the part this behaviour is about

servicesVars == <<side, schedulerVars, auditVars, iqVars>>

ServicesInit ==
    /\ side \in {"queues", "orders", "audit", "inference"}
    /\ SchedulerInit /\ AuditInit /\ InferenceInit

ServicesNext ==
    /\ UNCHANGED side
    /\ \/ side = "queues" /\ QueueStep /\ UNCHANGED <<auditVars, iqVars>>
       \/ side = "orders" /\ loads < MaxLoads /\ LoadStep /\ UNCHANGED <<auditVars, iqVars>>
       \/ side = "orders" /\ (\E k \in Keys(dag) : Finish(k)) /\ UNCHANGED <<auditVars, iqVars>>
       \/ side = "audit" /\ AuditNext /\ UNCHANGED <<schedulerVars, iqVars>>
       \/ side = "inference" /\ InferenceNext /\ UNCHANGED <<schedulerVars, auditVars>>

\* A worker thread goes on; callers and whoever stops a worker need not.
ServicesSpec ==
    /\ ServicesInit /\ [][ServicesNext]_servicesVars
    /\ \A w \in Workers : WF_iqVars(side = "inference" /\ WorkerStep(w))

\* Every variable of every part holds what the code could store in it.
ServicesTypeOK == SchedulerTypeOK /\ AuditTypeOK /\ InferenceTypeOK

\* load_dag accepts exactly what can be ordered and what it accepts runs through,
\* verify notices tampering, and every variable keeps its type.
ServicesSound == ServicesTypeOK /\ KahnExact /\ RunsThrough /\ TamperShows

\* The scheduler's queue serves its tiers in order and each first in, first out; the
\* inference queue answers every request unless all its workers were stopped.
QueuesServe == TakesInOrder /\ Served
=============================================================================
