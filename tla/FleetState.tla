----------------------------- MODULE FleetState -----------------------------
(***************************************************************************)
(* src/fleet/state.cyr and rust-old/src/fleet/state.rs, which agree: the   *)
(* runs of distributed crews, each with a phase, its participating nodes   *)
(* and the arrivals at its named barriers.                                 *)
(*                                                                         *)
(* A caller makes one call at a time (nothing here takes a lock), but the  *)
(* calls of the nodes come in any order: late, repeated, after the run has *)
(* ended, after the node was removed.  The counts in a progress report and *)
(* the contents of a checkpoint are stored and never looked at again; only *)
(* what the calls do to the phase is kept.                                 *)
(***************************************************************************)
EXTENDS Integers, FiniteSets

CONSTANTS
    Runs,               \* the ids create_run may mint; each is minted once
    Nodes,
    Barriers,           \* barrier names
    MaxRetainedRuns     \* AGNOSAI_MAX_RETAINED_RUNS

ASSUME NodesAssumption == IsFiniteSet(Nodes)
ASSUME RetainedAssumption == MaxRetainedRuns \in Nat

VARIABLES
    phase,      \* AGN_DCS_PHASE with its detail; "unmade" before, "gone" after
    nodes,      \* AGN_DCS_PARTICIPATING
    tracked,    \* the keys of AGN_DCS_NODE_PROGRESS
    arrived     \* AGN_CSM_BARRIERS: arrivals, {} when there is no such entry

runVars == <<phase, nodes, tracked, arrived>>

\* A phase is a tag and a detail; "" stands for every detail nobody compares.
Phase(tag) == <<tag, "">>
WaitingAt(b) == <<"waiting", b>>
Terminals == {Phase("completed"), Phase("failed"), Phase("cancelled")}
Absent == {Phase("unmade"), Phase("gone")}
Phases == Terminals \cup Absent \cup {Phase("initializing"), Phase("running")}
                    \cup {WaitingAt(b) : b \in Barriers}

Present == {r \in Runs : phase[r] \notin Absent}
Ended == {r \in Runs : phase[r] \in Terminals}

RunsInit ==
    /\ phase = [r \in Runs |-> Phase("unmade")]
    /\ nodes = [r \in Runs |-> {}] /\ tracked = [r \in Runs |-> {}]
    /\ arrived = [r \in Runs |-> [b \in Barriers |-> {}]]

\* At the limit every ended run is dropped, with its barriers; live runs never.
EvictedRuns == IF Cardinality(Present) < MaxRetainedRuns THEN {} ELSE Ended

\* agnosai_crew_state_manager_create_run over the set N of nodes.
CreateRun(r, N) ==
    /\ phase[r] = Phase("unmade")
    /\ phase' = [x \in Runs |-> IF x \in EvictedRuns THEN Phase("gone")
                                ELSE IF x = r THEN Phase("initializing") ELSE phase[x]]
    /\ nodes' = [x \in Runs |-> IF x \in EvictedRuns THEN {}
                                ELSE IF x = r THEN N ELSE nodes[x]]
    /\ tracked' = [x \in Runs |-> IF x \in EvictedRuns THEN {}
                                  ELSE IF x = r THEN N ELSE tracked[x]]
    /\ arrived' = [x \in Runs |-> IF x \in EvictedRuns THEN [b \in Barriers |-> {}]
                                  ELSE arrived[x]]

\* Wrong variant: whatever the phase, a report makes it running.
Advanced_Always(r) == Phase("running")

\* A first report or checkpoint starts the run; every other phase is preserved.
Advanced(r) == IF phase[r] = Phase("initializing") THEN Phase("running") ELSE phase[r]

ReportProgress(r, n) ==
    /\ r \in Present /\ n \in tracked[r]
    /\ phase' = [phase EXCEPT ![r] = Advanced(r)]
    /\ UNCHANGED <<nodes, tracked, arrived>>

Checkpoint(r) ==
    /\ r \in Present
    /\ phase' = [phase EXCEPT ![r] = Advanced(r)]
    /\ UNCHANGED <<nodes, tracked, arrived>>

\* Wrong variant: the last node is not waited for.
AllReached_Early(N, A) == Cardinality(A) + 1 >= Cardinality(N)

\* reach_barrier compares two counts, whoever was counted.
AllReached(N, A) == Cardinality(A) >= Cardinality(N)

\* A node that does not take part is answered UNKNOWN_NODE and changes nothing.
\* The arrivals are not cleared when the barrier opens.
ReachBarrier(r, n, b) ==
    /\ r \in Present /\ n \in nodes[r]
    /\ arrived' = [arrived EXCEPT ![r][b] = @ \cup {n}]
    /\ phase' = [phase EXCEPT ![r] = IF AllReached(nodes[r], arrived[r][b] \cup {n})
                                     THEN Phase("running") ELSE WaitingAt(b)]
    /\ UNCHANGED <<nodes, tracked>>

\* Running whatever it was, the arrivals at this barrier erased.
ForceBarrier(r, b) ==
    /\ r \in Present
    /\ arrived' = [arrived EXCEPT ![r][b] = {}]
    /\ phase' = [phase EXCEPT ![r] = Phase("running")]
    /\ UNCHANGED <<nodes, tracked>>

\* Wrong variant: looked for among the nodes the run had before the removal.
Satisfied_Before(r, n) == {b \in Barriers : arrived[r][b] # {} /\ nodes[r] \subseteq arrived[r][b]}

\* The barriers every node that is left has reached, once n is out.
Satisfied(r, n) ==
    {b \in Barriers : arrived[r][b] # {} /\ (nodes[r] \ {n}) \subseteq arrived[r][b]}

\* The satisfied barriers are erased; the phase is cleared only if it waits for
\* one of them.
RemoveNode(r, n) ==
    /\ r \in Present
    /\ nodes' = [nodes EXCEPT ![r] = @ \ {n}]
    /\ tracked' = [tracked EXCEPT ![r] = @ \ {n}]
    /\ arrived' = [arrived EXCEPT ![r] = [b \in Barriers |->
                                            IF b \in Satisfied(r, n) THEN {} ELSE @[b]]]
    /\ phase' = [phase EXCEPT ![r] = IF \E b \in Satisfied(r, n) : @ = WaitingAt(b)
                                     THEN Phase("running") ELSE @]

\* complete, fail and cancel: from any phase.
EndRun(r, p) ==
    /\ r \in Present /\ p \in Terminals
    /\ phase' = [phase EXCEPT ![r] = p]
    /\ UNCHANGED <<nodes, tracked, arrived>>

RunStep(r) ==
    \/ \E n \in Nodes : ReportProgress(r, n)
    \/ Checkpoint(r)
    \/ \E n \in Nodes, b \in Barriers : ReachBarrier(r, n, b)
    \/ \E b \in Barriers : ForceBarrier(r, b)
    \/ \E n \in Nodes : RemoveNode(r, n)
    \/ \E p \in Terminals : EndRun(r, p)
-----------------------------------------------------------------------------
RunsTypeOK ==
    /\ phase \in [Runs -> Phases]
    /\ nodes \in [Runs -> SUBSET Nodes]
    /\ tracked \in [Runs -> SUBSET Nodes]
    /\ arrived \in [Runs -> [Barriers -> SUBSET Nodes]]

\* A run that waits at a barrier waits for a node that can still come: there
\* are arrivals, somebody who takes part is missing from them, and whoever is
\* missing is still known to the run (a removed node is never waited for, and
\* the last arrival never leaves the run waiting).
NoStuckWait == \A r \in Runs, b \in Barriers : phase[r] = WaitingAt(b) =>
    /\ arrived[r][b] # {}
    /\ nodes[r] \ arrived[r][b] # {}
    /\ tracked[r] = nodes[r]

\* When an arrival opens a barrier, every node that takes part has arrived, or
\* a node that was removed after it had arrived is counted in somebody's place.
OpensForAll ==
    [][\A r \in Runs, n \in Nodes, b \in Barriers :
         ReachBarrier(r, n, b) /\ phase'[r] = Phase("running") =>
           \/ nodes[r] \subseteq arrived'[r][b]
           \/ ~ (arrived[r][b] \subseteq nodes[r])]_runVars

\* BarrierResult::AllReached as it is documented: an arrival that is answered
\* AllReached means that every participating node has reached the barrier.
AllReachedIsAll ==
    [][\A r \in Runs, n \in Nodes, b \in Barriers :
         ReachBarrier(r, n, b) /\ phase'[r] = Phase("running") =>
           nodes[r] \subseteq arrived'[r][b]]_runVars

\* Late reports and checkpoints never revive a run that has ended, and only an
\* ended run leaves the manager; what is left of it then is nothing.
EndedStands ==
    [][\A r \in Runs : phase'[r] # phase[r] =>
         /\ r \in Ended =>
              \/ phase'[r] \in Terminals \cup {Phase("gone")}
              \/ \E b \in Barriers : ForceBarrier(r, b) \/ \E n \in Nodes : ReachBarrier(r, n, b)
         /\ phase'[r] = Phase("gone") =>
              r \in Ended /\ \A b \in Barriers : arrived'[r][b] = {}]_runVars
=============================================================================
