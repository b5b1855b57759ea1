----------------------------- MODULE Federation -----------------------------
(***************************************************************************)
(* rust-old/src/fleet/federation.rs: one FederationManager per cluster,    *)
(* with its own view of the others, and elections with terms.              *)
(*                                                                         *)
(* How heartbeats and declarations get from one cluster to another is left *)
(* to the embedder (external): a heartbeat may come at any time or never,  *)
(* a declaration late, more than once or never.                            *)
(***************************************************************************)
EXTENDS Integers, FiniteSets

CONSTANTS
    Clusters,       \* ids: numbers, compared as the strings are
    SuspectTimeout, OfflineTimeout, EvictTTL,
    MaxTerm, MaxFedClock    \* bounds

ASSUME FederationAssumption ==
    /\ Clusters \subseteq Nat \ {0} /\ {SuspectTimeout, OfflineTimeout, EvictTTL, MaxTerm, MaxFedClock} \subseteq Nat
    /\ SuspectTimeout <= OfflineTimeout

VARIABLES
    peers,      \* what each knows of each other: status, role, last heartbeat
    fedRole,    \* each cluster's own role
    term, leader,   \* ElectionState; 0 while there is none
    declared,   \* declarations made so far: term and id
    fedClock, checked   \* the time, and when each last checked for liveness

fedVars == <<peers, fedRole, term, leader, declared, fedClock, checked>>

NoPeer == [status |-> "unknown", role |-> "follower", beat |-> 0]

FedInit ==
    /\ peers = [m \in Clusters |-> [c \in Clusters |-> NoPeer]]
    /\ fedRole = [m \in Clusters |-> "follower"]
    /\ term = [m \in Clusters |-> 0] /\ leader = [m \in Clusters |-> 0]
    /\ declared = {} /\ fedClock = 1 /\ checked = [m \in Clusters |-> 0]

\* A peer that is known keeps its role.
HeartbeatFrom(m, c) ==
    /\ m # c
    /\ peers' = [peers EXCEPT ![m][c].status = "online", ![m][c].beat = fedClock]
    /\ UNCHANGED <<fedRole, term, leader, declared, fedClock, checked>>

Liveness(p) ==
    LET elapsed == fedClock - p.beat IN
      IF elapsed > OfflineTimeout /\ p.status # "offline" THEN "offline"
      ELSE IF elapsed > SuspectTimeout /\ p.status = "online" THEN "suspect" ELSE p.status

CheckLiveness(m) ==
    /\ peers' = [peers EXCEPT ![m] = [c \in Clusters |->
         IF @[c] = NoPeer THEN NoPeer ELSE [@[c] EXCEPT !.status = Liveness(peers[m][c])]]]
    /\ checked' = [checked EXCEPT ![m] = fedClock]
    /\ UNCHANGED <<fedRole, term, leader, declared, fedClock>>

StartElection(m) ==
    /\ term[m] < MaxTerm
    /\ term' = [term EXCEPT ![m] = @ + 1] /\ leader' = [leader EXCEPT ![m] = 0]
    /\ fedRole' = [fedRole EXCEPT ![m] = "candidate"]
    /\ UNCHANGED <<peers, declared, fedClock, checked>>

\* Wrong variant: the term of the declaration is not taken over.
TermAfter_Own(m, t) == term[m]

TermAfter(m, t) == t

\* The rest of declare_coordinator, for a term that is not stale.
Accept(m, t, c) ==
    /\ term' = [term EXCEPT ![m] = TermAfter(m, t)] /\ leader' = [leader EXCEPT ![m] = c]
    /\ fedRole' = [fedRole EXCEPT ![m] = IF c = m THEN "coordinator" ELSE "follower"]
    /\ peers' = [peers EXCEPT ![m] = [d \in Clusters |->
         IF @[d] = NoPeer THEN NoPeer
         ELSE [@[d] EXCEPT !.role = IF d = c THEN "coordinator" ELSE "follower"]]]

\* declare_coordinator, on a declaration of another: a stale one is ignored.
DeclareCoordinator(m, d) ==
    /\ d[1] >= term[m]
    /\ Accept(m, d[1], d[2])
    /\ UNCHANGED <<declared, fedClock, checked>>

Online(m) == {c \in Clusters : peers[m][c].status = "online"} \cup {m}

\* elect_by_lowest_id: an election and its declaration in one.
ElectByLowestId(m) ==
    LET winner == CHOOSE c \in Online(m) : \A d \in Online(m) : c <= d IN
      /\ term[m] < MaxTerm
      /\ Accept(m, term[m] + 1, winner)
      /\ declared' = declared \cup {<<term[m] + 1, winner>>}
      /\ UNCHANGED <<fedClock, checked>>

EvictOffline(m) ==
    /\ peers' = [peers EXCEPT ![m] = [c \in Clusters |->
         IF @[c].status = "offline" /\ fedClock - @[c].beat > EvictTTL THEN NoPeer ELSE @[c]]]
    /\ UNCHANGED <<fedRole, term, leader, declared, fedClock, checked>>

FedTick ==
    /\ fedClock < MaxFedClock /\ fedClock' = fedClock + 1
    /\ UNCHANGED <<peers, fedRole, term, leader, declared, checked>>

FedNext ==
    \/ FedTick
    \/ \E m \in Clusters :
         \/ \E c \in Clusters : HeartbeatFrom(m, c)
         \/ \E d \in declared : DeclareCoordinator(m, d)
         \/ CheckLiveness(m) \/ StartElection(m) \/ ElectByLowestId(m) \/ EvictOffline(m)
-----------------------------------------------------------------------------
\* However declarations are delayed and repeated: whom a cluster follows was
\* declared in the very term it is in; it acts as coordinator exactly when it
\* names itself; it shows at most one peer as coordinator, the one it names, or
\* the last one while it elects; and a peer's status is what its last heartbeat
\* was to the last check.
FollowsItsTerm ==
    \A m \in Clusters :
      /\ leader[m] # 0 => <<term[m], leader[m]>> \in declared
      /\ (fedRole[m] = "coordinator") <=> (leader[m] = m)
      /\ fedRole[m] = "candidate" => leader[m] = 0
      /\ leader[m] = 0 /\ fedRole[m] = "follower" => term[m] = 0
      /\ \A c \in Clusters : peers[m][c].role = "coordinator" =>
           leader[m] \in {0, c} /\ \A d \in Clusters \ {c} : peers[m][d].role = "follower"
      /\ \A c \in Clusters : peers[m][c] # NoPeer =>
           peers[m][c].status = IF checked[m] - peers[m][c].beat > OfflineTimeout THEN "offline"
                                ELSE IF checked[m] - peers[m][c].beat > SuspectTimeout THEN "suspect"
                                ELSE "online"
=============================================================================
