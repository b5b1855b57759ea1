------------------------------ MODULE MCFleet ------------------------------
(* One run's barriers in full while it is the only run, and a second run    *)
(* fanned out at any time, for FleetCoordinator.                            *)
EXTENDS FleetCoordinator

CONSTANTS t1, t2, t3, n1, n2, n3

\* Three tasks on three nodes, or on two; one alone, placed or not.
FourPlans ==
    {[tasks |-> Tasks, place |-> [t \in Tasks |-> IF t = t1 THEN n1 ELSE IF t = t2 THEN n2 ELSE n3]],
     [tasks |-> Tasks, place |-> [t \in {t1, t2} |-> IF t = t1 THEN n1 ELSE n2]],
     [tasks |-> {t1}, place |-> [t \in {t1} |-> n1]],
     [tasks |-> {t1}, place |-> [t \in {} |-> n1]]}

\* Runs share nothing but the retention limit: while a second run is there,
\* runs end and are dropped, and nothing else happens to them.  Tasks share
\* nothing either: the failures of one of them are followed.
Focus ==
    \/ \E r \in Runs, plan \in Plans : FanOut(r, plan)
    \/ TaskStep(t1)
    \/ Cardinality(Present) = 1 /\ \E r \in Runs : RunStep(r) /\ UNCHANGED taskVars
    \/ \E r \in Runs, p \in Terminals : EndRun(r, p) /\ UNCHANGED taskVars

FocusSpec == Init /\ [][Focus]_vars
=============================================================================
