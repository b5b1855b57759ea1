------------------------------ MODULE NodeFleet ------------------------------
(***************************************************************************)
(* rust-old/src/fleet/registry.rs and placement.rs, and the hardware of    *)
(* core/resource.rs: nodes that are online while they send heartbeats, and *)
(* the choice of a node for a task.                                        *)
(*                                                                         *)
(* The registry has one owner (&mut self).  Statuses change in sweeps, so  *)
(* a placement sees what the last sweep saw.  A score is a fraction, a     *)
(* pair of numbers; the list of nodes given to a placement is in an order  *)
(* that a hash map chose.                                                  *)
(***************************************************************************)
EXTENDS Integers, Sequences, FiniteSets, FiniteSetsExt

CONSTANTS
    Machines,       \* nodes
    Traits,         \* what each is: gpus, vram, caps, cores, devices (type and memory)
    Asked,          \* placement requests
    HeartbeatTTL, OfflineTTL,
    MaxFleetClock   \* readings of the clock, a bound

ASSUME NodeFleetAssumption ==
    /\ {HeartbeatTTL, OfflineTTL, MaxFleetClock} \subseteq Nat /\ 0 < HeartbeatTTL /\ HeartbeatTTL <= OfflineTTL
    /\ IsFiniteSet(Machines) /\ \A n \in Machines : {Traits[n].gpus, Traits[n].vram} \subseteq Nat
    /\ \A r \in Asked : r.policy \in {"gpu", "balanced", "locality", "cost", "manual"} /\ IsFiniteSet(r.caps)

VARIABLES
    nodeStatus,     \* Online, Suspect, Offline; "unknown" for a node that is not registered
    lastHeartbeat,  \* last_heartbeat_instant
    fleetClock,
    lastSweep,      \* when update_statuses ran last
    placed          \* the placement just made, if any: request, order of the nodes, choice

nodeVars == <<nodeStatus, lastHeartbeat, fleetClock, lastSweep, placed>>

NotPlaced == {}

NodesInit ==
    /\ nodeStatus = [n \in Machines |-> "unknown"] /\ lastHeartbeat = [n \in Machines |-> 0]
    /\ fleetClock = 1 /\ lastSweep = 0 /\ placed = NotPlaced

Members == {n \in Machines : nodeStatus[n] # "unknown"}
-----------------------------------------------------------------------------
(* resource.rs                                                             *)

Family(accel) ==
    CASE accel = "cpu" -> "cpu" [] accel = "tpu" -> "tpu"
      [] OTHER -> "gpu"

\* Devices enough, and one of them large enough.
EnoughDevices(found, need) ==
    /\ found # {} /\ Cardinality(found) >= need.devices
    /\ need.memory > 0 => \E d \in found : d[3] >= need.memory

\* HardwareInventory::satisfies: the family counts before the list of types; with
\* neither, devices and their memory are not looked at.
SatisfiesHardware(n, need) ==
    LET has(P(_)) == {d \in Traits[n].devices : P(d[2])} IN
      /\ Traits[n].cores >= need.cores
      /\ IF need.family # "none" THEN EnoughDevices(has(LAMBDA a : Family(a) = need.family), need)
         ELSE need.types # {} => EnoughDevices(has(LAMBDA a : a \in need.types), need)
-----------------------------------------------------------------------------
(* placement.rs                                                            *)

Disqualified(r, n) ==
    \/ nodeStatus[n] # "online"
    \/ IF r.hardware # "none" THEN ~SatisfiesHardware(n, r.need)
       ELSE (r.gpu /\ Traits[n].gpus = 0) \/ (r.vram > 0 /\ Traits[n].vram < r.vram)

VramCeiling == 1000000

\* score_node, for the i-th of count nodes.
PolicyScore(r, n, i, count) ==
    CASE r.policy = "gpu" -> IF Traits[n].gpus = 0 THEN <<0, 1>>
                               ELSE <<IF Traits[n].vram > VramCeiling THEN VramCeiling ELSE Traits[n].vram, VramCeiling>>
      [] r.policy = "balanced" -> IF count <= 1 THEN <<1, 1>> ELSE <<count - (i - 1), count>>
      [] r.policy = "locality" -> IF r.caps = {} THEN <<1, 1>>
                                  ELSE <<Cardinality(r.caps \cap Traits[n].caps), Cardinality(r.caps)>>
      [] r.policy = "cost" -> <<1, 1 + Traits[n].gpus + Traits[n].vram>>
      [] r.policy = "manual" -> <<IF n = r.preferred THEN 1 ELSE 0, 1>>

Score(r, list, i) ==
    IF Disqualified(r, list[i]) THEN <<0, 1>> ELSE PolicyScore(r, list[i], i, Len(list))

Better(a, b) == a[1] * b[2] > b[1] * a[2]

\* Wrong variant: a score of nothing is a score.
Candidates_All(r, list) == DOMAIN list

\* rank_nodes keeps what scores above nothing.
Candidates(r, list) == {i \in DOMAIN list : Score(r, list, i)[1] > 0}

\* The sort is stable: the first of the best.
BestPlace(r, list) ==
    LET c == Candidates(r, list) IN
      {i \in c : \A j \in c : ~Better(Score(r, list, j), Score(r, list, i))
                              /\ (j < i => Better(Score(r, list, i), Score(r, list, j)))}

Orders(S) == {f \in [1..Cardinality(S) -> S] : \A i, j \in DOMAIN f : f[i] = f[j] => i = j}

\* place, over list()
Place(r, list) ==
    /\ list \in Orders(Members)
    /\ placed' = {[request |-> r, list |-> list, choice |-> {list[i] : i \in BestPlace(r, list)}]}
    /\ UNCHANGED <<nodeStatus, lastHeartbeat, fleetClock, lastSweep>>
-----------------------------------------------------------------------------
(* registry.rs                                                             *)

\* register; ids are new, a node that left comes back as another: the same name
\* is used again here, which forgets nothing else.
RegisterNode(n) ==
    /\ nodeStatus[n] = "unknown"
    /\ nodeStatus' = [nodeStatus EXCEPT ![n] = "online"]
    /\ lastHeartbeat' = [lastHeartbeat EXCEPT ![n] = fleetClock]
    /\ placed' = NotPlaced /\ UNCHANGED <<fleetClock, lastSweep>>

\* heartbeat of an unknown node is refused.
HeartbeatNode(n) ==
    /\ nodeStatus[n] # "unknown"
    /\ nodeStatus' = [nodeStatus EXCEPT ![n] = "online"]
    /\ lastHeartbeat' = [lastHeartbeat EXCEPT ![n] = fleetClock]
    /\ placed' = NotPlaced /\ UNCHANGED <<fleetClock, lastSweep>>

Unregister(n) ==
    /\ nodeStatus[n] # "unknown"
    /\ nodeStatus' = [nodeStatus EXCEPT ![n] = "unknown"]
    /\ placed' = NotPlaced /\ UNCHANGED <<lastHeartbeat, fleetClock, lastSweep>>

\* Wrong variant: the shorter limit is looked at first.
Swept_SuspectFirst(n) ==
    IF fleetClock - lastHeartbeat[n] >= HeartbeatTTL THEN "suspect" ELSE nodeStatus[n]

Swept(n) ==
    LET elapsed == fleetClock - lastHeartbeat[n] IN
      IF elapsed >= OfflineTTL THEN "offline"
      ELSE IF elapsed >= HeartbeatTTL THEN "suspect" ELSE nodeStatus[n]

UpdateStatuses ==
    /\ nodeStatus' = [n \in Machines |-> IF n \in Members THEN Swept(n) ELSE "unknown"]
    /\ lastSweep' = fleetClock
    /\ placed' = NotPlaced /\ UNCHANGED <<lastHeartbeat, fleetClock>>

FleetTick ==
    /\ fleetClock < MaxFleetClock /\ fleetClock' = fleetClock + 1
    /\ placed' = NotPlaced /\ UNCHANGED <<nodeStatus, lastHeartbeat, lastSweep>>

NodesNext ==
    \/ UpdateStatuses \/ FleetTick
    \/ \E n \in Machines : RegisterNode(n) \/ HeartbeatNode(n) \/ Unregister(n)
    \/ \E r \in Asked, list \in Orders(Members) : placed = NotPlaced /\ Place(r, list)
-----------------------------------------------------------------------------
\* The request is better served by m than by n, as its policy says; memory beyond
\* the ceiling does not count.
Preferred(r, m, n) ==
    LET covered(x) == Cardinality(r.caps \cap Traits[x].caps)
        size(x) == Traits[x].gpus + Traits[x].vram IN
      \/ r.policy = "gpu" /\ Traits[m].gpus > 0 /\ Traits[m].vram > Traits[n].vram /\ Traits[n].vram < VramCeiling
      \/ r.policy = "cost" /\ size(m) < size(n)
      \/ r.policy = "locality" /\ covered(m) > covered(n)

\* Whatever the history of heartbeats and sweeps, a node's status is what its
\* last heartbeat was to the last sweep; so a node that a task is placed on sent
\* a heartbeat within the TTL of that sweep, has what the request demands, and
\* no other candidate scores better.  Nodes are found whenever one qualifies,
\* except by affinity to memory, capabilities or a name nobody has.
PlacedWell ==
    /\ \A n \in Members :
         nodeStatus[n] = IF lastSweep - lastHeartbeat[n] >= OfflineTTL THEN "offline"
                         ELSE IF lastSweep - lastHeartbeat[n] >= HeartbeatTTL THEN "suspect" ELSE "online"
    /\ \A p \in placed : \A n \in p.choice :
         /\ lastSweep - lastHeartbeat[n] < HeartbeatTTL
         /\ p.request.hardware # "none" => SatisfiesHardware(n, p.request.need)
         /\ p.request.policy = "gpu" => Traits[n].vram > 0
         /\ p.request.policy = "manual" => n = p.request.preferred
         /\ \A m \in Members : ~Disqualified(p.request, m) => ~Preferred(p.request, m, n)
    /\ \A p \in placed : Cardinality(p.choice) <= 1
    /\ \A p \in placed : p.choice = {} /\ p.request.policy \in {"balanced", "cost"} =>
         \A m \in Members : Disqualified(p.request, m)
-----------------------------------------------------------------------------
(***************************************************************************)
(* rust-old/src/fleet/gpu.rs: ComputeScheduler, the memory of accelerators *)
(* given to tasks.  It has one owner (&mut self).                          *)
(***************************************************************************)
CONSTANTS
    DeviceTasks,
    DeviceKinds,    \* accelerator types; AnyKind asks for any
    AnyKind,
    DeviceSizes, DeviceNeeds,
    MaxDevices      \* devices added, a bound

ASSUME DevicesAssumption ==
    DeviceSizes \cup DeviceNeeds \subseteq Nat /\ MaxDevices \in Nat /\ IsFiniteSet(DeviceTasks)

VARIABLES
    devices,        \* sequence of kind, total, used and the available memory shown
    allocations,    \* what each task holds: device (0: nothing) and memory
    lost            \* per device, what tasks held that were given memory again

devVars == <<devices, allocations, lost>>

NoAllocation == [device |-> 0, memory |-> 0]

DevicesInit == devices = <<>> /\ allocations = [t \in DeviceTasks |-> NoAllocation] /\ lost = <<>>

AddDevice(kind, total) ==
    /\ Len(devices) < MaxDevices
    /\ devices' = Append(devices, [kind |-> kind, total |-> total, used |-> 0, shown |-> total])
    /\ lost' = Append(lost, 0) /\ UNCHANGED allocations

\* memory_available_mb saturates.
Available(d) == IF d.total >= d.used THEN d.total - d.used ELSE 0

With(d, used) == [d EXCEPT !.used = used, !.shown = Available([d EXCEPT !.used = used])]

\* Wrong variant: any device of the kind will do.
Fits_Kind(i, need, kind) == kind = AnyKind \/ devices[i].kind = kind

Fits(i, need, kind) == (kind = AnyKind \/ devices[i].kind = kind) /\ Available(devices[i]) >= need

\* allocate: the last of those with the most memory left.  A task that holds
\* memory gets more, and its old allocation is forgotten without being released.
Allocate(t, need, kind) ==
    LET fit == {i \in DOMAIN devices : Fits(i, need, kind)} IN
    LET most == {i \in fit : \A j \in fit : Available(devices[j]) <= Available(devices[i])} IN
      /\ fit # {}
      /\ devices' = [devices EXCEPT ![Max(most)] = With(@, @.used + need)]
      /\ allocations' = [allocations EXCEPT ![t] = [device |-> Max(most), memory |-> need]]
      /\ lost' = IF allocations[t] = NoAllocation THEN lost
                 ELSE [lost EXCEPT ![allocations[t].device] = @ + allocations[t].memory]

Release(t) ==
    LET a == allocations[t] IN
      /\ a # NoAllocation
      /\ devices' = [devices EXCEPT ![a.device] = With(@, IF @.used >= a.memory THEN @.used - a.memory ELSE 0)]
      /\ allocations' = [allocations EXCEPT ![t] = NoAllocation]
      /\ UNCHANGED lost

DevicesNext ==
    \/ \E k \in DeviceKinds, n \in DeviceSizes : AddDevice(k, n)
    \/ \E t \in DeviceTasks :
         Release(t) \/ \E need \in DeviceNeeds, k \in DeviceKinds \cup {AnyKind} : Allocate(t, need, k)
-----------------------------------------------------------------------------
HeldOn(i) == MapThenSumSet(LAMBDA t : allocations[t].memory, {t \in DeviceTasks : allocations[t].device = i})

\* No device is given out beyond its memory, what it shows as available is what
\* is left, and what is used is what its tasks hold plus what was forgotten when
\* a task was given memory a second time, which nothing ever returns.
MemoryAccounted ==
    \A i \in DOMAIN devices :
      /\ devices[i].used = HeldOn(i) + lost[i]
      /\ devices[i].used <= devices[i].total /\ devices[i].shown = devices[i].total - devices[i].used
-----------------------------------------------------------------------------
(***************************************************************************)
(* How well the devices of a node are linked, from                         *)
(* rust-old/src/fleet/topology.rs.  The functions are pure; the action     *)
(* asks about one node and keeps it beside the answers.  A link joins two  *)
(* devices and is fast from 50 GB/s; nothing says that a pair is listed    *)
(* once.                                                                   *)
(***************************************************************************)
CONSTANTS
    Inventories,    \* the types of a node's devices, sequences
    Topologies      \* sequences of links: a, b, fast

ASSUME TopologyAssumption ==
    Inventories \subseteq Seq(STRING) /\ Topologies \subseteq Seq([a : Nat, b : Nat, fast : BOOLEAN])

VARIABLE linked     \* the node asked about and what was answered, if any was

TopologyInit == linked = {}

GpuCount(inventory) == Cardinality({i \in DOMAIN inventory : inventory[i] # "cpu"})

HighBandwidth(links) == Cardinality({i \in DOMAIN links : links[i].fast})

\* A fraction: a score of 1 for what needs no links, of 0 for what has none.
TopologyScore(links, inventory) ==
    LET n == GpuCount(inventory)
    IN  IF n <= 1 THEN <<1, 1>>
        ELSE IF links = <<>> THEN <<0, 1>>
        ELSE <<HighBandwidth(links), (n * (n - 1)) \div 2>>

\* Wrong variant: a ring is asked for instead of a line.
SupportsTensorParallel_Ring(links, n) == n <= 1 \/ HighBandwidth(links) >= n

SupportsTensorParallel(links, n) == n <= 1 \/ HighBandwidth(links) >= n - 1

AskTopology(inventory, links) ==
    /\ linked = {}
    /\ linked' = {[inventory |-> inventory, links |-> links, score |-> TopologyScore(links, inventory),
                   supports |-> [n \in 0 .. Len(inventory) |-> SupportsTensorParallel(links, n)]]}

TopologyNext == \E inventory \in Inventories, links \in Topologies : AskTopology(inventory, links)
-----------------------------------------------------------------------------
FastPair(links, S, T) == \E i \in DOMAIN links :
    links[i].fast /\ {links[i].a, links[i].b} \cap S # {} /\ {links[i].a, links[i].b} \cap T # {}

Joined(links, S) == \A A \in (SUBSET S) \ {{}, S} : FastPair(links, A, S \ A)

EachPairOnce(links) == \A i, j \in DOMAIN links :
    links[i].a # links[i].b /\ (i # j => {links[i].a, links[i].b} # {links[j].a, links[j].b})

\* Devices that fast links join are never said not to work together, however the
\* links are listed; a node whose devices all have fast links to all others has
\* the full score at least, and no node has more if its pairs are listed once.
LinksCounted == \A l \in linked :
    LET gpus == {i \in DOMAIN l.inventory : l.inventory[i] # "cpu"} IN
      /\ \A S \in SUBSET DOMAIN l.inventory : Joined(l.links, S) => l.supports[Cardinality(S)]
      /\ (\A i, j \in gpus : i # j => FastPair(l.links, {i}, {j})) => l.score[1] >= l.score[2]
      /\ EachPairOnce(l.links) /\ (\A i \in DOMAIN l.links : {l.links[i].a, l.links[i].b} \subseteq gpus)
           => l.score[1] <= l.score[2]
=============================================================================
