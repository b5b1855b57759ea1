---------------------------- MODULE StoreProofs ----------------------------
(***************************************************************************)
(* The stores of the Rust tree, proved for every value of the constants:  *)
(* durable state, the order of asks, publish and subscribe, the plan       *)
(* cache, conversation memory, budgets, IPC frames, learning, the cluster, *)
(* the relay and the placement and memory of the fleet's nodes.  Each      *)
(* store owns its variables, so each has an inductive invariant of its own *)
(* and a step of another store leaves it alone.                            *)
(***************************************************************************)
EXTENDS MCStores, FiniteSetTheorems, SequenceTheorems, TLAPS

\* A step of the whole is a step of one part and leaves the others.
LEMMA EachStore ==
  ASSUME [StoresNext]_storesVars
  PROVE  /\ [PubSubNext]_psVars /\ [IpcNext]_ipcVars /\ [PlanNext]_planVars /\ [TalkNext]_talkVars
         /\ [TrackerNext \/ TenantNext]_budgetVars /\ [DurableNext]_durVars /\ [AsyncQueueNext]_aqVars
         /\ [FedNext]_fedVars /\ [RelayNext]_relayVars
         /\ [ReplayNext \/ ScoreNext \/ QNext \/ BanditNext]_learnVars
         /\ [NodesNext]_nodeVars /\ [DevicesNext]_devVars /\ [TopologyNext]_linked
  <1>1. CASE UNCHANGED storesVars
    BY <1>1 DEF storesVars
  <1>2. CASE StoresNext
    <2>1. [PubSubNext]_psVars /\ [IpcNext]_ipcVars /\ [PlanNext]_planVars
      BY <1>2 DEF StoresNext, Only
    <2>2. [TalkNext]_talkVars /\ [TrackerNext \/ TenantNext]_budgetVars /\ [DurableNext]_durVars
      BY <1>2 DEF StoresNext, Only
    <2>3. [AsyncQueueNext]_aqVars /\ [FedNext]_fedVars /\ [RelayNext]_relayVars
      BY <1>2 DEF StoresNext, Only
    <2>4. [ReplayNext \/ ScoreNext \/ QNext \/ BanditNext]_learnVars
      BY <1>2 DEF StoresNext, Only
    <2>5. [NodesNext]_nodeVars /\ [DevicesNext]_devVars /\ [TopologyNext]_linked
      BY <1>2 DEF StoresNext, Only
    <2> QED BY <2>1, <2>2, <2>3, <2>4, <2>5
  <1> QED BY <1>1, <1>2
-----------------------------------------------------------------------------
(* Snapshots: DurableState.                                                *)

DurableType ==
    /\ inPlace \in BOOLEAN /\ disturbed \in BOOLEAN /\ saves \in Nat
    /\ file \in [kind : {Absent, Torn, "whole"}, version : Nat]
    /\ saving \in [Savers -> [version : Nat, at : {"none", "open", "written"}]]

\* Beside the file a save touches nothing until it is renamed, and each save has a
\* version of its own that the file does not hold yet; in place, a save that nothing
\* came into is alone and has the file torn until it is done.
BesideInv ==
    /\ file.kind # Torn /\ file.version \in safe /\ file.version <= saves
    /\ \A s \in Savers : saving[s].at # "none" =>
         /\ saving[s].version \in 1..saves /\ saving[s].version # file.version
         /\ \A r \in Savers : saving[r].at # "none" /\ saving[r].version = saving[s].version => r = s

InPlaceInv ==
    /\ \A s \in Savers : saving[s].at # "written"
    /\ ~disturbed =>
         /\ UnderWay = {} => file.kind # Torn /\ file.version \in safe
         /\ UnderWay # {} => file.kind = Torn
         /\ \A r, s \in UnderWay : r = s

DurableInv == DurableType /\ (IF inPlace THEN InPlaceInv ELSE BesideInv)

LEMMA DurableStep ==
  ASSUME DurableInv, [DurableNext]_durVars
  PROVE  DurableInv'
  <1> USE DEF DurableType, Absent, Torn
  <1>0. DurableType /\ (inPlace => InPlaceInv) /\ (~inPlace => BesideInv)
    BY DEF DurableInv
  <1>i. inPlace' = inPlace
    BY DEF DurableNext, OpenFile, OpenFails, WriteFile, Rename, SaveFails, Crash, durVars
  <1>q. ASSUME DurableType', inPlace => InPlaceInv', ~inPlace => BesideInv'
        PROVE  DurableInv'
    BY <1>i, <1>q DEF DurableInv
  <1>1. ASSUME NEW s \in Savers, OpenFile(s) PROVE DurableInv'
    <2> USE <1>1 DEF OpenFile
    <2>1. DurableType'
      BY <1>0 DEF Opened
    <2>2. s \notin UnderWay /\ UnderWay' = UnderWay \cup {s}
      BY <1>0 DEF UnderWay, NotSaving
    <2>3. ASSUME ~inPlace PROVE BesideInv'
      <3>1. /\ file' = file /\ saves' = saves + 1 /\ safe' = safe \cup {saves + 1} /\ saves \in Nat
            /\ saving' = [saving EXCEPT ![s] = [version |-> saves + 1, at |-> "open"]]
        BY <1>0, <2>3 DEF Opened
      <3> QED BY <1>0, <2>3, <3>1 DEF BesideInv
    <2>4. ASSUME inPlace PROVE InPlaceInv'
      <3>1. file'.kind = Torn /\ \A r \in Savers : saving'[r].at # "written"
        BY <1>0, <2>4 DEF Opened, InPlaceInv
      <3>2. ~disturbed' => UnderWay' = {s}
        BY <2>2, <2>4
      <3> QED BY <2>2, <3>1, <3>2 DEF InPlaceInv
    <2> QED BY <1>q, <2>1, <2>3, <2>4
  <1>2. ASSUME NEW s \in Savers, OpenFails(s) PROVE DurableInv'
    <2> USE <1>2 DEF OpenFails
    <2>1. DurableType' /\ saves' = saves + 1 /\ saves \in Nat /\ UnderWay' = UnderWay
      BY <1>0 DEF UnderWay
    <2>2. ASSUME ~inPlace PROVE BesideInv'
      BY <1>0, <2>1, <2>2 DEF BesideInv
    <2>3. ASSUME inPlace PROVE InPlaceInv'
      BY <1>0, <2>1, <2>3 DEF InPlaceInv
    <2> QED BY <1>q, <2>1, <2>2, <2>3
  <1>3. ASSUME NEW s \in Savers, WriteFile(s) PROVE DurableInv'
    <2> USE <1>3 DEF WriteFile
    <2>1. DurableType'
      BY <1>0 DEF Overwritten, Whole, NotSaving
    <2>2. ASSUME ~inPlace PROVE BesideInv'
      BY <1>0, <2>2 DEF BesideInv
    <2>3. ASSUME inPlace PROVE InPlaceInv'
      <3>1. s \in UnderWay /\ UnderWay' = UnderWay \ {s}
        BY <1>0, <2>3 DEF UnderWay, NotSaving
      <3>2. \A r \in Savers : saving'[r].at # "written"
        BY <1>0, <2>3 DEF NotSaving, InPlaceInv
      <3>3. ASSUME ~disturbed PROVE UnderWay' = {} /\ file' = Whole(saving[s].version)
        BY <1>0, <2>3, <3>1, <3>3 DEF Overwritten, InPlaceInv
      <3>4. saving[s].version \in safe'
        BY <2>3
      <3> QED BY <2>1, <2>3, <3>2, <3>3, <3>4 DEF Whole, InPlaceInv
    <2> QED BY <1>q, <2>1, <2>2, <2>3
  <1>4. ASSUME NEW s \in Savers, Rename(s) PROVE DurableInv'
    <2> USE <1>4 DEF Rename
    <2>1. DurableType'
      BY <1>0 DEF Whole, NotSaving
    <2>2. ~inPlace /\ BesideInv /\ s \in UnderWay
      BY <1>0 DEF InPlaceInv, UnderWay
    <2>3. /\ file' = Whole(saving[s].version) /\ saving[s].version \in safe' /\ UNCHANGED saves
          /\ saving' = [saving EXCEPT ![s] = NotSaving]
      OBVIOUS
    <2>4. BesideInv'
      BY <1>0, <2>2, <2>3 DEF Whole, NotSaving, BesideInv, UnderWay
    <2> QED BY <1>q, <2>1, <2>2, <2>4
  <1>5. ASSUME NEW s \in Savers, SaveFails(s) PROVE DurableInv'
    <2> USE <1>5 DEF SaveFails
    <2>1. DurableType'
      BY <1>0 DEF AfterError, NotSaving
    <2>2. ASSUME ~inPlace PROVE BesideInv'
      BY <1>0, <2>2 DEF AfterError, NotSaving, BesideInv
    <2>3. ASSUME inPlace PROVE InPlaceInv'
      BY <1>0, <2>3 DEF NotSaving, InPlaceInv
    <2> QED BY <1>q, <2>1, <2>2, <2>3
  <1>6. CASE Crash
    <2> USE <1>6 DEF Crash
    <2>1. DurableType' /\ \A s \in Savers : saving'[s].at = "none"
      BY <1>0 DEF NotSaving
    <2>2. UnderWay' = {}
      BY <2>1 DEF UnderWay
    <2>3. ASSUME ~inPlace PROVE BesideInv'
      BY <1>0, <2>1, <2>3 DEF BesideInv
    <2>4. ASSUME inPlace PROVE InPlaceInv'
      BY <1>0, <2>1, <2>2, <2>4 DEF InPlaceInv
    <2> QED BY <1>q, <2>1, <2>3, <2>4
  <1>7. CASE UNCHANGED durVars
    <2>1. UNCHANGED <<inPlace, file, saving, saves, crashes, safe, disturbed>> /\ UnderWay' = UnderWay
      BY <1>7 DEF durVars, UnderWay
    <2>2. DurableType' /\ (inPlace => InPlaceInv') /\ (~inPlace => BesideInv')
      BY <1>0, <2>1 DEF InPlaceInv, BesideInv
    <2> QED BY <1>q, <2>2
  <1> QED BY <1>1, <1>2, <1>3, <1>4, <1>5, <1>6, <1>7 DEF DurableNext

\* After any crash and any error of the disk the store that renames answers the last
\* snapshot saved or one whose save was under way, never an error and never one whose
\* save failed; the store that writes in place does so when no save is going on and
\* nothing came into the last one, for any number of savers, saves, crashes and errors
\* and any sizes of snapshots.
THEOREM SnapshotsRecover == StoresSpec => []RecoversSnapshot
  <1>1. StoresInit => DurableInv
    <2> SUFFICES ASSUME DurableInit PROVE DurableInv
      BY DEF StoresInit
    <2>1. DurableType
      BY DEF DurableInit, DurableType, NotSaving, Absent, Torn
    <2>2. UnderWay = {} /\ \A s \in Savers : saving[s].at = "none"
      BY DEF DurableInit, UnderWay, NotSaving
    <2> QED BY <2>1, <2>2 DEF DurableInit, DurableInv, InPlaceInv, BesideInv, Absent, Torn, UnderWay
  <1>2. DurableInv /\ [StoresNext]_storesVars => DurableInv'
    BY EachStore, DurableStep
  <1>3. DurableInv => RecoversSnapshot
    BY DEF DurableInv, DurableType, InPlaceInv, BesideInv, RecoversSnapshot, Loads
  <1> QED BY <1>1, <1>2, <1>3, PTL DEF StoresSpec
-----------------------------------------------------------------------------
(* Requests for inference: AsyncQueue.                                     *)

AsksType ==
    /\ lanes \in [0..4 -> Seq(Asks)] /\ tierOf \in [Asks -> 0..4]
    /\ askState \in [Asks -> {"none", "spawned", "queued", "taken", "ok", "error", "closed"}]
    /\ busy \in [Pollers -> Asks \cup {NoAsk}] /\ aborted \subseteq Pollers

\* The lanes hold what is queued, each request once and in the lane of its tier.
LanesExact ==
    /\ \A l \in 0..4 : \A i \in DOMAIN lanes[l] :
         askState[lanes[l][i]] = "queued" /\ l = Level(tierOf[lanes[l][i]])
    /\ \A l \in 0..4 : \A i, j \in DOMAIN lanes[l] : lanes[l][i] = lanes[l][j] => i = j
    /\ \A a \in Asks : askState[a] = "queued" =>
         \E i \in DOMAIN lanes[Level(tierOf[a])] : lanes[Level(tierOf[a])][i] = a

\* What is taken is with one worker, and an aborted worker has nothing.
HandsExact ==
    /\ \A w \in Pollers : busy[w] # NoAsk => askState[busy[w]] = "taken" /\ w \notin aborted
    /\ \A a \in Asks : askState[a] = "taken" => \E w \in Pollers : busy[w] = a
    /\ \A v, w \in Pollers : busy[v] = busy[w] /\ busy[v] # NoAsk => v = w

AsksInv == AsksType /\ LanesExact /\ HandsExact

LEMMA LevelIs ==
  /\ \A n \in 0..4 : Level(n) \in 0..4
  /\ \A m, n \in 0..4 : Level(m) <= Level(n) => n <= m
  /\ TaskTiers \subseteq 0..4 /\ NoAsk \notin Asks
  BY AsyncQueueAssumption DEF Level

LEMMA EnterStep ==
  ASSUME AsksInv, NEW a \in Asks, Enter(a)
  PROVE  AsksInv'
  <1> DEFINE l == Level(tierOf[a])
  <1>0. AsksType /\ LanesExact /\ HandsExact /\ l \in 0..4
    BY LevelIs DEF AsksInv, AsksType
  <1>1. /\ askState[a] = "spawned" /\ askState' = [askState EXCEPT ![a] = "queued"]
        /\ lanes' = [lanes EXCEPT ![l] = Append(@, a)] /\ tierOf' = tierOf /\ busy' = busy /\ aborted' = aborted
    BY DEF Enter
  <1>2. AsksType'
    BY <1>0, <1>1 DEF AsksType
  <1>3. HandsExact'
    BY <1>0, <1>1, LevelIs DEF HandsExact, AsksType
  <1>4. ASSUME NEW m \in 0..4, m # l PROVE lanes'[m] = lanes[m]
    BY <1>0, <1>1, <1>4 DEF AsksType
  <1>5. /\ lanes'[l] = Append(lanes[l], a) /\ lanes[l] \in Seq(Asks)
        /\ DOMAIN lanes'[l] = DOMAIN lanes[l] \cup {Len(lanes[l]) + 1} /\ Len(lanes[l]) + 1 \notin DOMAIN lanes[l]
        /\ lanes'[l][Len(lanes[l]) + 1] = a
        /\ \A i \in DOMAIN lanes[l] : lanes'[l][i] = lanes[l][i] /\ lanes[l][i] # a /\ lanes[l][i] \in Asks
    <2>1. lanes'[l] = Append(lanes[l], a) /\ lanes[l] \in Seq(Asks)
      BY <1>0, <1>1 DEF AsksType
    <2>2. \A i \in DOMAIN lanes[l] : lanes[l][i] # a
      BY <1>0, <1>1 DEF LanesExact
    <2> HIDE DEF l
    <2> QED BY <2>1, <2>2
  <1>6. \A m \in 0..4 : \A i \in DOMAIN lanes[m] : lanes[m][i] \in Asks /\ lanes[m][i] # a
    BY <1>0, <1>1 DEF AsksType, LanesExact
  <1> HIDE DEF l
  <1>7. LanesExact'
    <2>1. ASSUME NEW m \in 0..4, NEW i \in DOMAIN lanes'[m]
          PROVE  askState'[lanes'[m][i]] = "queued" /\ m = Level(tierOf'[lanes'[m][i]])
      <3>1. CASE m # l
        BY <1>0, <1>1, <1>4, <1>6, <2>1, <3>1 DEF LanesExact, AsksType
      <3>2. CASE m = l /\ i = Len(lanes[l]) + 1
        BY <1>0, <1>1, <1>5, <3>2 DEF l, AsksType
      <3>3. CASE m = l /\ i \in DOMAIN lanes[l]
        <4>1. lanes'[m][i] = lanes[l][i] /\ lanes[l][i] \in Asks /\ lanes[l][i] # a
          BY <1>5, <3>3
        <4>2. askState[lanes[l][i]] = "queued" /\ l = Level(tierOf[lanes[l][i]])
          BY <1>0, <3>3 DEF LanesExact
        <4> QED BY <1>0, <1>1, <3>3, <4>1, <4>2 DEF AsksType
      <3> QED BY <1>5, <2>1, <3>1, <3>2, <3>3
    <2>2. ASSUME NEW m \in 0..4, NEW i \in DOMAIN lanes'[m], NEW j \in DOMAIN lanes'[m], lanes'[m][i] = lanes'[m][j]
          PROVE  i = j
      <3>1. CASE m # l
        BY <1>0, <1>4, <2>2, <3>1 DEF LanesExact
      <3>2. CASE m = l
        <4>1. /\ i \in DOMAIN lanes[l] \cup {Len(lanes[l]) + 1} /\ j \in DOMAIN lanes[l] \cup {Len(lanes[l]) + 1}
              /\ lanes'[l][i] = lanes'[l][j]
          BY <1>5, <2>2, <3>2
        <4>2. \A x, y \in DOMAIN lanes[l] : lanes[l][x] = lanes[l][y] => x = y
          BY <1>0 DEF LanesExact
        <4> QED BY <1>5, <4>1, <4>2
      <3> QED BY <3>1, <3>2
    <2>3. ASSUME NEW b \in Asks, askState'[b] = "queued"
          PROVE  \E i \in DOMAIN lanes'[Level(tierOf'[b])] : lanes'[Level(tierOf'[b])][i] = b
      <3>1. CASE b = a
        BY <1>1, <1>5, <3>1 DEF l
      <3>2. CASE b # a
        <4>1. PICK i \in DOMAIN lanes[Level(tierOf[b])] : lanes[Level(tierOf[b])][i] = b
          BY <1>0, <1>1, <2>3, <3>2 DEF LanesExact, AsksType
        <4>2. Level(tierOf[b]) \in 0..4
          BY <1>0, LevelIs DEF AsksType
        <4>3. CASE Level(tierOf[b]) = l
          BY <1>1, <1>5, <4>1, <4>3
        <4>4. CASE Level(tierOf[b]) # l
          BY <1>1, <1>4, <4>1, <4>2, <4>4
        <4> QED BY <4>3, <4>4
      <3> QED BY <3>1, <3>2
    <2> QED BY <2>1, <2>2, <2>3 DEF LanesExact
  <1> QED BY <1>2, <1>3, <1>7 DEF AsksInv

\* What a worker takes is at the head of the first lane with anything in it.
LEMMA HeadIs ==
  ASSUME AsksInv, NEW w \in Pollers, NEW l \in 0..4, TakeAsk(w, l)
  PROVE  /\ lanes[l] \in Seq(Asks) /\ lanes[l] # <<>> /\ Head(lanes[l]) \in Asks /\ Head(lanes[l]) = lanes[l][1]
         /\ 1 \in DOMAIN lanes[l]
         /\ askState[Head(lanes[l])] = "queued" /\ Level(tierOf[Head(lanes[l])]) = l
         /\ \A b \in Asks : askState[b] = "queued" => l <= Level(tierOf[b])
  <1>1. lanes[l] \in Seq(Asks) /\ lanes[l] # <<>> /\ \A m \in 0..4 : m < l => lanes[m] = <<>>
    BY DEF AsksInv, AsksType, TakeAsk, First
  <1>2. Head(lanes[l]) \in Asks /\ Head(lanes[l]) = lanes[l][1] /\ 1 \in DOMAIN lanes[l]
    BY <1>1
  <1>3. askState[Head(lanes[l])] = "queued" /\ Level(tierOf[Head(lanes[l])]) = l
    BY <1>2 DEF AsksInv, LanesExact
  <1>4. ASSUME NEW b \in Asks, askState[b] = "queued" PROVE l <= Level(tierOf[b])
    <2>1. Level(tierOf[b]) \in 0..4
      BY LevelIs DEF AsksInv, AsksType
    <2>2. lanes[Level(tierOf[b])] # <<>>
      BY <1>4 DEF AsksInv, LanesExact
    <2> QED BY <1>1, <2>1, <2>2
  <1> QED BY <1>1, <1>2, <1>3, <1>4

LEMMA TakeStep ==
  ASSUME AsksInv, NEW w \in Pollers, NEW l \in 0..4, TakeAsk(w, l)
  PROVE  AsksInv'
  <1> DEFINE a == Head(lanes[l])
  <1>0. AsksType /\ LanesExact /\ HandsExact
    BY DEF AsksInv
  <1>1. /\ w \notin aborted /\ busy[w] = NoAsk /\ busy' = [busy EXCEPT ![w] = a]
        /\ askState' = [askState EXCEPT ![a] = "taken"] /\ lanes' = [lanes EXCEPT ![l] = Tail(@)]
        /\ tierOf' = tierOf /\ aborted' = aborted
    BY DEF TakeAsk
  <1>2. /\ lanes[l] \in Seq(Asks) /\ lanes[l] # <<>> /\ a \in Asks /\ a = lanes[l][1] /\ 1 \in DOMAIN lanes[l]
        /\ askState[a] = "queued" /\ Level(tierOf[a]) = l
    BY HeadIs
  <1> HIDE DEF a
  <1>3. AsksType'
    BY <1>0, <1>1, <1>2 DEF AsksType
  <1>4. HandsExact'
    <2>1. \A v \in Pollers : busy[v] # a
      BY <1>0, <1>2, LevelIs DEF HandsExact
    <2>2. a # NoAsk /\ busy'[w] = a /\ askState'[a] = "taken" /\ \A v \in Pollers \ {w} : busy'[v] = busy[v]
      BY <1>0, <1>1, <1>2, LevelIs DEF AsksType
    <2>3. \A b \in Asks \ {a} : askState'[b] = askState[b]
      BY <1>0, <1>1 DEF AsksType
    <2>4. \A v \in Pollers : busy'[v] # NoAsk => askState'[busy'[v]] = "taken" /\ v \notin aborted'
      BY <1>0, <1>1, <2>1, <2>2, <2>3 DEF HandsExact, AsksType
    <2>5. \A b \in Asks : askState'[b] = "taken" => \E v \in Pollers : busy'[v] = b
      BY <1>0, <1>1, <2>2, <2>3, LevelIs DEF HandsExact
    <2>6. \A u, v \in Pollers : busy'[u] = busy'[v] /\ busy'[u] # NoAsk => u = v
      BY <1>0, <2>1, <2>2 DEF HandsExact
    <2> QED BY <2>4, <2>5, <2>6 DEF HandsExact
  <1>5. ASSUME NEW m \in 0..4, m # l PROVE lanes'[m] = lanes[m]
    BY <1>0, <1>1, <1>5 DEF AsksType
  <1>6. /\ lanes'[l] = Tail(lanes[l]) /\ DOMAIN lanes'[l] = 1..(Len(lanes[l]) - 1) /\ DOMAIN lanes[l] = 1..Len(lanes[l])
        /\ Len(lanes[l]) \in Nat
        /\ \A i \in DOMAIN lanes'[l] : lanes'[l][i] = lanes[l][i + 1] /\ i + 1 \in DOMAIN lanes[l]
    <2>1. lanes'[l] = Tail(lanes[l])
      BY <1>0, <1>1 DEF AsksType
    <2> QED BY <1>2, <2>1
  <1>7. \A m \in 0..4 : \A i \in DOMAIN lanes'[m] : lanes'[m][i] \in Asks /\ lanes'[m][i] # a
    <2> SUFFICES ASSUME NEW m \in 0..4, NEW i \in DOMAIN lanes'[m] PROVE lanes'[m][i] \in Asks /\ lanes'[m][i] # a
      OBVIOUS
    <2>1. lanes'[m] \in Seq(Asks)
      BY <1>3 DEF AsksType
    <2>2. lanes'[m][i] \in Asks
      BY <2>1
    <2>3. CASE m = l
      <3>1. i \in 1..(Len(lanes[l]) - 1)
        BY <1>6, <2>3
      <3>2. i + 1 # 1
        BY <1>6, <3>1
      <3>4. i + 1 \in DOMAIN lanes[l] /\ lanes'[m][i] = lanes[l][i + 1]
        BY <1>6, <2>3, <3>1
      <3>3. \A x, y \in DOMAIN lanes[l] : lanes[l][x] = lanes[l][y] => x = y
        BY <1>0 DEF LanesExact
      <3> QED BY <1>2, <2>2, <3>2, <3>3, <3>4
    <2>4. CASE m # l
      BY <1>0, <1>2, <1>5, <2>2, <2>4 DEF LanesExact
    <2> QED BY <2>3, <2>4
  <1>8. LanesExact'
    <2>1. ASSUME NEW m \in 0..4, NEW i \in DOMAIN lanes'[m]
          PROVE  askState'[lanes'[m][i]] = "queued" /\ m = Level(tierOf'[lanes'[m][i]])
      <3>0. askState'[lanes'[m][i]] = askState[lanes'[m][i]]
        BY <1>0, <1>1, <1>7 DEF AsksType
      <3>1. CASE m # l
        BY <1>0, <1>1, <1>5, <2>1, <3>0, <3>1 DEF LanesExact
      <3>2. CASE m = l
        BY <1>0, <1>1, <1>6, <2>1, <3>0, <3>2 DEF LanesExact
      <3> QED BY <3>1, <3>2
    <2>2. ASSUME NEW m \in 0..4, NEW i \in DOMAIN lanes'[m], NEW j \in DOMAIN lanes'[m], lanes'[m][i] = lanes'[m][j]
          PROVE  i = j
      <3>1. CASE m # l
        BY <1>0, <1>5, <2>2, <3>1 DEF LanesExact
      <3>2. CASE m = l
        <4>1. i \in 1..(Len(lanes[l]) - 1) /\ j \in 1..(Len(lanes[l]) - 1) /\ lanes'[l][i] = lanes'[l][j]
          BY <1>6, <2>2, <3>2
        <4>2. i + 1 \in DOMAIN lanes[l] /\ j + 1 \in DOMAIN lanes[l] /\ lanes[l][i + 1] = lanes[l][j + 1]
          BY <1>6, <4>1
        <4>3. \A x, y \in DOMAIN lanes[l] : lanes[l][x] = lanes[l][y] => x = y
          BY <1>0 DEF LanesExact
        <4>4. i + 1 = j + 1
          BY <4>2, <4>3
        <4> QED BY <4>1, <4>4
      <3> QED BY <3>1, <3>2
    <2>3. ASSUME NEW b \in Asks, askState'[b] = "queued"
          PROVE  \E i \in DOMAIN lanes'[Level(tierOf'[b])] : lanes'[Level(tierOf'[b])][i] = b
      <3>1. b # a /\ askState[b] = "queued"
        BY <1>0, <1>1, <2>3 DEF AsksType
      <3>2. PICK i \in DOMAIN lanes[Level(tierOf[b])] : lanes[Level(tierOf[b])][i] = b
        BY <1>0, <3>1 DEF LanesExact
      <3>3. Level(tierOf[b]) \in 0..4
        BY <1>0, LevelIs DEF AsksType
      <3>4. CASE Level(tierOf[b]) = l
        <4>1. i \in 1..Len(lanes[l]) /\ i # 1 /\ lanes[l][i] = b
          BY <1>2, <1>6, <3>1, <3>2, <3>4
        <4>2. i - 1 \in 1..(Len(lanes[l]) - 1) /\ (i - 1) + 1 = i
          BY <1>6, <4>1
        <4>3. lanes'[l][i - 1] = b
          BY <1>6, <4>1, <4>2
        <4> QED BY <1>1, <1>6, <3>4, <4>2, <4>3
      <3>5. CASE Level(tierOf[b]) # l
        BY <1>1, <1>5, <3>2, <3>3, <3>5
      <3> QED BY <3>4, <3>5
    <2> QED BY <2>1, <2>2, <2>3 DEF LanesExact
  <1> QED BY <1>3, <1>4, <1>8 DEF AsksInv

\* A worker lets go of what it held, and what becomes of it.
LEMMA LetGoStep ==
  ASSUME AsksInv, NEW w \in Pollers, AbortWorker(w) \/ \E how \in {"ok", "error"} : AnswerAsk(w, how)
  PROVE  AsksInv'
  <1>0. AsksType /\ LanesExact /\ HandsExact
    BY DEF AsksInv
  <1>1. /\ lanes' = lanes /\ tierOf' = tierOf /\ busy' = [busy EXCEPT ![w] = NoAsk]
        /\ aborted' \subseteq aborted \cup {w} /\ aborted' \subseteq Pollers
        /\ \E how \in {"ok", "error", "closed"} : askState' = [a \in Asks |-> IF a = busy[w] THEN how ELSE askState[a]]
    <2>1. CASE AbortWorker(w)
      BY <1>0, <2>1 DEF AbortWorker, AsksType
    <2>2. ASSUME NEW how \in {"ok", "error"}, AnswerAsk(w, how) PROVE askState' = [a \in Asks |-> IF a = busy[w] THEN how ELSE askState[a]]
      BY <1>0, <2>2 DEF AnswerAsk, AsksType
    <2>3. ASSUME NEW how \in {"ok", "error"}, AnswerAsk(w, how)
          PROVE  lanes' = lanes /\ tierOf' = tierOf /\ busy' = [busy EXCEPT ![w] = NoAsk] /\ aborted' = aborted
      BY <2>3 DEF AnswerAsk
    <2> QED BY <1>0, <2>1, <2>2, <2>3 DEF AsksType
  <1>2. PICK how \in {"ok", "error", "closed"} : askState' = [a \in Asks |-> IF a = busy[w] THEN how ELSE askState[a]]
    BY <1>1
  <1>3. AsksType'
    BY <1>0, <1>1, <1>2 DEF AsksType
  <1>4. \A a \in Asks : (askState[a] = "queued" <=> askState'[a] = "queued") /\ (askState'[a] = "taken" <=> askState[a] = "taken" /\ a # busy[w])
    BY <1>0, <1>2, LevelIs DEF HandsExact, AsksType
  <1>5. LanesExact'
    BY <1>0, <1>1, <1>4 DEF LanesExact, AsksType
  <1>6. busy'[w] = NoAsk /\ \A v \in Pollers \ {w} : busy'[v] = busy[v]
    BY <1>0, <1>1 DEF AsksType
  <1>7. \A v \in Pollers : busy'[v] # NoAsk => v # w /\ busy[v] \in Asks /\ busy[v] # busy[w]
    BY <1>0, <1>6 DEF HandsExact, AsksType
  <1>8. HandsExact'
    BY <1>0, <1>1, <1>4, <1>6, <1>7, LevelIs DEF HandsExact
  <1> QED BY <1>3, <1>5, <1>8 DEF AsksInv

LEMMA AsksStep ==
  ASSUME AsksInv, [AsyncQueueNext]_aqVars
  PROVE  AsksInv'
  <1>1. ASSUME NEW a \in Asks, NEW tier \in TaskTiers, Ask(a, tier) PROVE AsksInv'
    <2>0. AsksType /\ LanesExact /\ HandsExact
      BY DEF AsksInv
    <2>1. /\ askState[a] = "none" /\ askState' = [askState EXCEPT ![a] = "spawned"]
          /\ tierOf' = [tierOf EXCEPT ![a] = tier] /\ lanes' = lanes /\ busy' = busy /\ aborted' = aborted
      BY <1>1 DEF Ask
    <2>2. AsksType'
      BY <2>0, <2>1, LevelIs DEF AsksType
    <2>3. \A b \in Asks : /\ askState[b] = "queued" <=> askState'[b] = "queued"
                          /\ askState[b] = "taken" <=> askState'[b] = "taken"
                          /\ b # a => tierOf'[b] = tierOf[b]
      BY <2>0, <2>1 DEF AsksType
    <2>4. \A l \in 0..4 : \A i \in DOMAIN lanes[l] : lanes[l][i] \in Asks /\ lanes[l][i] # a
      BY <2>0, <2>1 DEF LanesExact, AsksType
    <2>5. LanesExact'
      BY <2>0, <2>1, <2>3, <2>4 DEF LanesExact
    <2>6. HandsExact'
      BY <2>0, <2>1, <2>3 DEF HandsExact, AsksType
    <2> QED BY <2>2, <2>5, <2>6 DEF AsksInv
  <1>2. CASE UNCHANGED aqVars
    BY <1>2 DEF aqVars, AsksInv, AsksType, LanesExact, HandsExact
  <1> QED BY <1>1, <1>2, EnterStep, TakeStep, LetGoStep DEF AsyncQueueNext, PollerStep

\* For any requests and workers: what is taken has the highest priority of all
\* that got to the queue, and an answer, or the closing of a channel by an abort,
\* comes only to what a worker holds, once.
THEOREM AsksAreInOrder == StoresSpec => AsksInOrder
  <1> DEFINE Moves(a) ==
        CASE askState[a] = "queued" ->
               askState'[a] = "taken" /\ \A b \in Asks : askState[b] = "queued" => tierOf[b] <= tierOf[a]
          [] askState[a] = "taken" ->
               \E w \in Pollers : busy[w] = a /\ (askState'[a] = "closed" <=> w \in aborted' \ aborted)
          [] OTHER -> askState[a] \in {"none", "spawned"}
  <1>1. StoresInit => AsksInv
    <2> SUFFICES ASSUME AsyncQueueInit PROVE AsksInv
      BY DEF StoresInit
    <2> USE DEF AsyncQueueInit
    <2>1. AsksType
      BY DEF AsksType
    <2>2. LanesExact
      BY DEF LanesExact
    <2>3. HandsExact
      BY DEF HandsExact
    <2> QED BY <2>1, <2>2, <2>3 DEF AsksInv
  <1>2. AsksInv /\ [StoresNext]_storesVars => AsksInv'
    BY EachStore, AsksStep
  <1>3. AsksInv /\ [StoresNext]_storesVars => [\A a \in Asks : askState'[a] # askState[a] => Moves(a)]_aqVars
    <2> SUFFICES ASSUME AsksInv, AsyncQueueNext, NEW a \in Asks, askState'[a] # askState[a] PROVE Moves(a)
      BY EachStore
    <2>0. AsksType /\ HandsExact
      BY DEF AsksInv
    <2>1. ASSUME NEW b \in Asks, Enter(b) \/ \E tier \in TaskTiers : Ask(b, tier) PROVE Moves(a)
      <3>1. b = a /\ askState[a] \in {"none", "spawned"}
        BY <2>0, <2>1 DEF Enter, Ask, AsksType
      <3> QED BY <3>1
    <2>2. ASSUME NEW w \in Pollers, NEW l \in 0..4, TakeAsk(w, l) PROVE Moves(a)
      <3>1. askState' = [askState EXCEPT ![Head(lanes[l])] = "taken"]
        BY <2>2 DEF TakeAsk
      <3>2. Head(lanes[l]) = a /\ askState'[a] = "taken"
        BY <2>0, <3>1 DEF AsksType
      <3>3. askState[a] = "queued" /\ Level(tierOf[a]) = l /\ \A b \in Asks : askState[b] = "queued" => l <= Level(tierOf[b])
        BY <2>2, <3>2, HeadIs
      <3>4. \A b \in Asks : askState[b] = "queued" => tierOf[b] <= tierOf[a]
        BY <2>0, <3>3, LevelIs DEF AsksType
      <3> QED BY <3>2, <3>3, <3>4
    <2>3. ASSUME NEW w \in Pollers, NEW how \in {"ok", "error"}, AnswerAsk(w, how) PROVE Moves(a)
      <3>1. busy[w] = a /\ askState'[a] = how /\ aborted' = aborted
        BY <2>0, <2>3 DEF AnswerAsk, AsksType
      <3>2. askState[a] = "taken"
        BY <2>0, <3>1, LevelIs DEF HandsExact
      <3> QED BY <3>1, <3>2
    <2>4. ASSUME NEW w \in Pollers, AbortWorker(w) PROVE Moves(a)
      <3>1. busy[w] = a /\ askState'[a] = "closed" /\ aborted' = aborted \cup {w} /\ w \notin aborted
        BY <2>0, <2>4 DEF AbortWorker, AsksType
      <3>2. askState[a] = "taken"
        BY <2>0, <3>1, LevelIs DEF HandsExact
      <3> QED BY <3>1, <3>2
    <2> QED BY <2>1, <2>2, <2>3, <2>4 DEF AsyncQueueNext, PollerStep
  <1> QED BY <1>1, <1>2, <1>3, PTL DEF StoresSpec, AsksInOrder

-----------------------------------------------------------------------------
(* Recursion and induction over naturals, by their least elements.         *)

LEMMA SetInduction ==
  ASSUME NEW S, 0 \in S, \A n \in Nat : n \in S => n + 1 \in S
  PROVE  Nat \subseteq S
  <1> DEFINE T == Nat \ S
  <1>1. SUFFICES ASSUME T # {} PROVE FALSE
    OBVIOUS
  <1>2. PICK x \in T : \A y \in T : ~(<<y, x>> \in OpToRel(<, Nat))
    BY <1>1, NatLessThanWellFounded, WFMin, Zenon
  <1>3. x \in Nat /\ x \notin S
    OBVIOUS
  <1>4. x # 0 /\ x - 1 \in Nat /\ x - 1 < x /\ (x - 1) + 1 = x
    BY <1>3
  <1>5. x - 1 \in T
    BY <1>3, <1>4
  <1>6. <<x - 1, x>> \in OpToRel(<, Nat)
    BY <1>3, <1>4 DEF OpToRel
  <1> QED BY <1>2, <1>5, <1>6, Zenon

\* A value can be carried through n turns, each from the one before.
Carried(X, n, x, F, g) ==
    g \in [0..n -> X] /\ g[0] = x /\ \A k \in 1..n : g[k] = F[<<k, g[k - 1]>>]

LEMMA Unfolds ==
  ASSUME NEW X, NEW n \in Nat, NEW x \in X, NEW F \in [(1..n) \X X -> X]
  PROVE  \E g : Carried(X, n, x, F, g)
  <1> DEFINE G(m) == {g \in [0..m -> X] : g[0] = x /\ \A k \in 1..m : g[k] = F[<<k, g[k - 1]>>]}
             W == {m \in Nat : m <= n => G(m) # {}}
  <1>1. 0 \in W
    <2> DEFINE g == [k \in 0..0 |-> x]
    <2>1. g \in [0..0 -> X] /\ g[0] = x /\ 1..0 = {}
      OBVIOUS
    <2>2. g \in G(0)
      BY <2>1
    <2> QED BY <2>2
  <1>2. ASSUME NEW m \in Nat, m \in W PROVE m + 1 \in W
    <2> SUFFICES ASSUME m + 1 <= n PROVE G(m + 1) # {}
      OBVIOUS
    <2>1. PICK g \in [0..m -> X] : g[0] = x /\ \A k \in 1..m : g[k] = F[<<k, g[k - 1]>>]
      BY <1>2
    <2> DEFINE h == [k \in 0..(m + 1) |-> IF k = m + 1 THEN F[<<m + 1, g[m]>>] ELSE g[k]]
    <2>2. F[<<m + 1, g[m]>>] \in X
      <3>1. <<m + 1, g[m]>> \in (1..n) \X X
        BY <2>1
      <3> QED BY <3>1
    <2>3. h \in [0..(m + 1) -> X]
      BY <2>1, <2>2
    <2>4. h[0] = x /\ h[m + 1] = F[<<m + 1, g[m]>>] /\ \A k \in 0..m : h[k] = g[k]
      BY <2>1
    <2>5. ASSUME NEW k \in 1..(m + 1) PROVE h[k] = F[<<k, h[k - 1]>>]
      <3> HIDE DEF h
      <3>1. CASE k = m + 1
        <4>1. k - 1 = m /\ m \in 0..m
          BY <3>1
        <4> QED BY <2>4, <3>1, <4>1
      <3>2. CASE k # m + 1
        <4>1. k \in 1..m /\ k \in 0..m /\ k - 1 \in 0..m
          BY <3>2
        <4> QED BY <2>1, <2>4, <4>1
      <3> QED BY <3>1, <3>2
    <2> HIDE DEF h
    <2>6. h \in G(m + 1)
      BY <2>3, <2>4, <2>5
    <2> QED BY <2>6
  <1> HIDE DEF W
  <1>3. n \in W
    BY <1>1, <1>2, SetInduction
  <1> QED BY <1>3 DEF W, Carried
-----------------------------------------------------------------------------
(* The matcher of patterns: Messaging.                                     *)

\* The step of matches_recursive_inner: R is what the calls one deeper find.
Found(p, t, k, R) ==
    LET i == Len(p) - k + 1 IN
    {j \in 0..Len(t) :
       /\ Len(p) - k <= MaxMatchDepth
       /\ IF k = 0 THEN j = Len(t)
          ELSE IF p[i] = "#" THEN k = 1 \/ \E m \in R : m >= j
          ELSE IF j = Len(t) THEN \A m \in i..Len(p) : p[m] = "#"
          ELSE p[i] \in {"*", t[j + 1]} /\ j + 1 \in R}

Table(p, t, g) == g = [k \in 0..Len(p) |-> Found(p, t, k, g[k - 1])]

LEMMA TableExists ==
  ASSUME NEW p \in Seq(STRING), NEW t \in Seq(STRING)
  PROVE  \E g \in [0..Len(p) -> SUBSET (0..Len(t))] : Table(p, t, g)
  <1> DEFINE n == Len(p)
             X == SUBSET (0..Len(t))
             F == [a \in (1..n) \X X |-> Found(p, t, a[1], a[2])]
             x == Found(p, t, 0, {})
  <1>1. n \in Nat /\ \A k, R : Found(p, t, k, R) \in X
    BY DEF Found
  <1>2. F \in [(1..n) \X X -> X] /\ x \in X
    BY <1>1
  <1>3. \A k \in 1..n, R \in X : F[<<k, R>>] = Found(p, t, k, R)
    OBVIOUS
  <1> HIDE DEF F
  <1>4. PICK g \in [0..n -> X] : g[0] = x /\ \A k \in 1..n : g[k] = F[<<k, g[k - 1]>>]
    <2>1. n \in Nat /\ x \in X /\ F \in [(1..n) \X X -> X]
      BY <1>1, <1>2
    <2> HIDE DEF n, X, x
    <2>2. PICK g : Carried(X, n, x, F, g)
      BY <2>1, Unfolds
    <2> QED BY <2>2 DEF Carried
  <1>5. ASSUME NEW k \in 0..n PROVE g[k] = Found(p, t, k, g[k - 1])
    <2>1. CASE k = 0
      <3>1. \A R : Found(p, t, 0, R) = x
        BY DEF Found
      <3> QED BY <1>4, <2>1, <3>1
    <2>2. CASE k # 0
      <3>1. k \in 1..n /\ k - 1 \in 0..n
        BY <1>1, <2>2
      <3>2. g[k - 1] \in X
        BY <1>4, <3>1
      <3> HIDE DEF X, n
      <3> QED BY <1>3, <1>4, <3>1, <3>2
    <2> QED BY <2>1, <2>2
  <1>6. g = [k \in 0..n |-> Found(p, t, k, g[k - 1])]
    BY <1>4, <1>5
  <1> QED BY <1>4, <1>6 DEF Table

LEMMA MatcherIs ==
  ASSUME NEW p \in Seq(STRING), NEW t \in Seq(STRING)
  PROVE  \E g \in [0..Len(p) -> SUBSET (0..Len(t))] : Table(p, t, g) /\ MatchesInner(p, t) = g[Len(p)]
  <1> DEFINE c == CHOOSE g : Table(p, t, g)
  <1>1. Table(p, t, c)
    BY TableExists
  <1>2. MatchesInner(p, t) = c[Len(p)]
    BY DEF MatchesInner, Table, Found
  <1>3. c = [k \in 0..Len(p) |-> Found(p, t, k, c[k - 1])]
    BY <1>1 DEF Table
  <1>4. \A k, R : Found(p, t, k, R) \in SUBSET (0..Len(t))
    BY DEF Found
  <1> HIDE DEF c
  <1>5. c \in [0..Len(p) -> SUBSET (0..Len(t))]
    BY <1>3, <1>4
  <1> QED BY <1>1, <1>2, <1>5

\* From place i of the pattern and j of the topic on, the rules can be kept.
Rule(p, t, m, a, b) == IF p[m] = "#" THEN b >= a ELSE b = a + 1 /\ p[m] \in {"*", t[b]}
CoversFrom(p, t, i, j) ==
    \E f \in [i..Len(p) -> 0..Len(t)] :
      f[i] = j /\ f[Len(p)] = Len(t) /\ \A m \in (i + 1)..Len(p) : Rule(p, t, m, f[m - 1], f[m])

LEMMA CoversEnd ==
  ASSUME NEW p \in Seq(STRING), NEW t \in Seq(STRING), NEW j \in 0..Len(t)
  PROVE  CoversFrom(p, t, Len(p), j) <=> j = Len(t)
  <1> DEFINE n == Len(p)
             f == [i \in n..n |-> Len(t)]
  <1>1. n \in Nat /\ Len(t) \in Nat
    OBVIOUS
  <1>2. f \in [n..n -> 0..Len(t)] /\ f[n] = Len(t) /\ (n + 1)..n = {}
    BY <1>1
  <1>3. CoversFrom(p, t, n, Len(t))
    BY <1>2 DEF CoversFrom
  <1>4. CoversFrom(p, t, n, j) => j = Len(t)
    BY DEF CoversFrom
  <1> QED BY <1>3, <1>4

LEMMA CoversLonger ==
  ASSUME NEW p \in Seq(STRING), NEW t \in Seq(STRING), NEW i \in 0..(Len(p) - 1), NEW j \in 0..Len(t), NEW m \in 0..Len(t),
         CoversFrom(p, t, i + 1, m), Rule(p, t, i + 1, j, m)
  PROVE  CoversFrom(p, t, i, j)
  <1> DEFINE n == Len(p)
  <1>0. n \in Nat /\ i \in Nat /\ i < n /\ i + 1 \in (i + 1)..n /\ n \in (i + 1)..n
    OBVIOUS
  <1>1. PICK f \in [(i + 1)..n -> 0..Len(t)] :
          f[i + 1] = m /\ f[n] = Len(t) /\ \A k \in (i + 2)..n : Rule(p, t, k, f[k - 1], f[k])
    <2>1. (i + 1) + 1 = i + 2
      BY <1>0
    <2> QED BY <2>1 DEF CoversFrom
  <1> DEFINE h == [k \in i..n |-> IF k = i THEN j ELSE f[k]]
  <1>2. \A k \in i..n : k # i => k \in (i + 1)..n
    BY <1>0
  <1>3. h \in [i..n -> 0..Len(t)]
    BY <1>1, <1>2
  <1>4. h[i] = j /\ \A k \in (i + 1)..n : h[k] = f[k]
    BY <1>0
  <1> HIDE DEF h
  <1>5. ASSUME NEW k \in (i + 1)..n PROVE Rule(p, t, k, h[k - 1], h[k])
    <2>1. CASE k = i + 1
      <3>1. k - 1 = i
        BY <1>0, <2>1
      <3> QED BY <1>0, <1>1, <1>4, <2>1, <3>1
    <2>2. CASE k # i + 1
      <3>1. k \in (i + 2)..n /\ k - 1 \in (i + 1)..n
        BY <1>0, <2>2
      <3> QED BY <1>1, <1>4, <3>1
    <2> QED BY <2>1, <2>2
  <1>6. h[n] = Len(t)
    BY <1>0, <1>1, <1>4
  <1> QED BY <1>3, <1>4, <1>5, <1>6 DEF CoversFrom

LEMMA CoversShorter ==
  ASSUME NEW p \in Seq(STRING), NEW t \in Seq(STRING), NEW i \in 0..(Len(p) - 1), NEW j \in 0..Len(t),
         CoversFrom(p, t, i, j)
  PROVE  \E m \in 0..Len(t) : CoversFrom(p, t, i + 1, m) /\ Rule(p, t, i + 1, j, m)
  <1> DEFINE n == Len(p)
  <1>0. n \in Nat /\ i \in Nat /\ i < n /\ i + 1 \in (i + 1)..n /\ n \in (i + 1)..n /\ (i + 1) - 1 = i /\ i + 1 \in i..n
    OBVIOUS
  <1>1. PICK f \in [i..n -> 0..Len(t)] :
          f[i] = j /\ f[n] = Len(t) /\ \A k \in (i + 1)..n : Rule(p, t, k, f[k - 1], f[k])
    BY DEF CoversFrom
  <1> DEFINE h == [k \in (i + 1)..n |-> f[k]]
  <1>2. \A k \in (i + 1)..n : k \in i..n
    BY <1>0
  <1>3. h \in [(i + 1)..n -> 0..Len(t)] /\ h[n] = Len(t) /\ h[i + 1] = f[i + 1] /\ \A k \in (i + 1)..n : h[k] = f[k]
    BY <1>0, <1>1, <1>2
  <1> HIDE DEF h
  <1>4. ASSUME NEW k \in ((i + 1) + 1)..n PROVE Rule(p, t, k, h[k - 1], h[k])
    <2>1. k \in (i + 1)..n /\ k - 1 \in (i + 1)..n
      BY <1>0
    <2> QED BY <1>1, <1>3, <2>1
  <1>5. CoversFrom(p, t, i + 1, f[i + 1])
    BY <1>3, <1>4 DEF CoversFrom
  <1>6. f[i + 1] \in 0..Len(t) /\ Rule(p, t, i + 1, j, f[i + 1])
    BY <1>0, <1>1
  <1> QED BY <1>5, <1>6

\* What the matcher finds keeps the rules, and within its depth it finds all.
LEMMA TableExact ==
  ASSUME NEW p \in Seq(STRING), NEW t \in Seq(STRING), NEW g \in [0..Len(p) -> SUBSET (0..Len(t))], Table(p, t, g)
  PROVE  \A k \in 0..Len(p) : \A j \in 0..Len(t) :
           /\ j \in g[k] => CoversFrom(p, t, Len(p) - k, j)
           /\ Len(p) <= MaxMatchDepth /\ CoversFrom(p, t, Len(p) - k, j) => j \in g[k]
  <1> DEFINE n == Len(p)
             Exact(k) == \A j \in 0..Len(t) :
                /\ j \in g[k] => CoversFrom(p, t, n - k, j)
                /\ n <= MaxMatchDepth /\ CoversFrom(p, t, n - k, j) => j \in g[k]
             W == {k \in Nat : k <= n => Exact(k)}
  <1>0. n \in Nat /\ Len(t) \in Nat /\ MaxMatchDepth \in Nat /\ n - 0 = n
    BY PubSubAssumption
  <1>1. \A k \in 0..n : g[k] = Found(p, t, k, g[k - 1])
    BY DEF Table
  <1>2. Exact(0)
    <2>1. \A j \in 0..Len(t) : j \in g[0] <=> n <= MaxMatchDepth /\ j = Len(t)
      BY <1>0, <1>1 DEF Found
    <2> QED BY <1>0, <2>1, CoversEnd
  <1>3. ASSUME NEW k \in Nat, k + 1 <= n, Exact(k) PROVE Exact(k + 1)
    <2> DEFINE i == n - (k + 1)
    <2>0. i \in 0..(n - 1) /\ i + 1 = n - k /\ k + 1 \in 0..n /\ (k + 1) - 1 = k /\ k \in 0..n /\ k + 1 # 0 /\ (k + 1 = 1 <=> k = 0)
      BY <1>0, <1>3
    <2>1. g[k + 1] = Found(p, t, k + 1, g[k]) /\ g[k] \subseteq 0..Len(t)
      BY <1>1, <2>0
    <2>2. \A j \in 0..Len(t) :
            j \in g[k + 1] <=>
              /\ i <= MaxMatchDepth
              /\ IF p[i + 1] = "#" THEN k + 1 = 1 \/ \E m \in g[k] : m >= j
                 ELSE IF j = Len(t) THEN \A m \in (i + 1)..n : p[m] = "#"
                 ELSE p[i + 1] \in {"*", t[j + 1]} /\ j + 1 \in g[k]
      BY <2>0, <2>1 DEF Found
    <2>3. i + 1 \in (i + 1)..n
      BY <1>0, <2>0
    <2> SUFFICES ASSUME NEW j \in 0..Len(t)
                 PROVE  /\ j \in g[k + 1] => CoversFrom(p, t, i, j)
                        /\ n <= MaxMatchDepth /\ CoversFrom(p, t, i, j) => j \in g[k + 1]
      OBVIOUS
    <2>4. ASSUME j \in g[k + 1] PROVE CoversFrom(p, t, i, j)
      <3>1. CASE p[i + 1] = "#"
        <4>1. CASE k = 0
          <5>1. CoversFrom(p, t, i + 1, Len(t)) /\ Len(t) \in 0..Len(t)
            BY <1>0, <2>0, <4>1, CoversEnd
          <5>2. Rule(p, t, i + 1, j, Len(t))
            BY <1>0, <3>1 DEF Rule
          <5> HIDE DEF i
          <5> QED BY <2>0, <5>1, <5>2, CoversLonger
        <4>2. ASSUME NEW m \in g[k], m >= j PROVE CoversFrom(p, t, i, j)
          <5>1. m \in 0..Len(t) /\ CoversFrom(p, t, i + 1, m)
            BY <1>3, <2>0, <2>1
          <5>2. Rule(p, t, i + 1, j, m)
            BY <3>1, <4>2 DEF Rule
          <5> HIDE DEF i
          <5> QED BY <2>0, <5>1, <5>2, CoversLonger
        <4> QED BY <2>0, <2>2, <2>4, <3>1, <4>1, <4>2
      <3>2. CASE p[i + 1] # "#"
        <4>1. j # Len(t) /\ p[i + 1] \in {"*", t[j + 1]} /\ j + 1 \in g[k]
          BY <2>2, <2>3, <2>4, <3>2
        <4>2. j + 1 \in 0..Len(t) /\ CoversFrom(p, t, i + 1, j + 1)
          BY <1>3, <2>0, <2>1, <4>1
        <4>3. Rule(p, t, i + 1, j, j + 1)
          BY <3>2, <4>1 DEF Rule
        <4> HIDE DEF i
        <4> QED BY <2>0, <4>2, <4>3, CoversLonger
      <3> QED BY <3>1, <3>2
    <2>5. ASSUME n <= MaxMatchDepth, CoversFrom(p, t, i, j) PROVE j \in g[k + 1]
      <3>1. PICK m \in 0..Len(t) : CoversFrom(p, t, i + 1, m) /\ Rule(p, t, i + 1, j, m)
        <4> HIDE DEF i
        <4> QED BY <2>0, <2>5, CoversShorter
      <3>2. m \in g[k]
        BY <1>3, <2>0, <2>5, <3>1
      <3>3. i <= MaxMatchDepth
        BY <1>0, <2>0, <2>5
      <3>4. CASE p[i + 1] = "#"
        BY <2>2, <3>1, <3>2, <3>3, <3>4 DEF Rule
      <3>5. CASE p[i + 1] # "#"
        <4>1. m = j + 1 /\ p[i + 1] \in {"*", t[m]}
          BY <3>1, <3>5 DEF Rule
        <4>2. j # Len(t)
          BY <1>0, <4>1
        <4> HIDE DEF i
        <4> QED BY <2>2, <3>2, <3>3, <3>5, <4>1, <4>2
      <3> QED BY <3>4, <3>5
    <2> QED BY <2>4, <2>5
  <1>4. 0 \in W /\ \A k \in Nat : k \in W => k + 1 \in W
    <2> HIDE DEF Exact
    <2>1. 0 \in W
      BY <1>2
    <2>2. ASSUME NEW k \in Nat, k \in W PROVE k + 1 \in W
      <3>1. k + 1 <= n => k <= n
        BY <1>0
      <3> QED BY <1>3, <2>2, <3>1
    <2> QED BY <2>1, <2>2
  <1>5. Nat \subseteq W
    <2> HIDE DEF W
    <2> QED BY <1>4, SetInduction
  <1>6. \A k \in 0..n : Exact(k)
    <2> HIDE DEF Exact
    <2> QED BY <1>0, <1>5
  <1> QED BY <1>6

\* The recursive matcher of patterns matches what its rules say, for every
\* pattern and topic: all of it up to its depth, and never too much beyond.
THEOREM MatcherIsExact == MatcherExact
  <1> SUFFICES ASSUME NEW p \in Patterns, NEW t \in Topics
               PROVE  IF Len(p) <= MaxMatchDepth THEN MatchesPattern(p, t) <=> Covers(p, t)
                      ELSE MatchesPattern(p, t) => Covers(p, t)
    BY DEF MatcherExact
  <1>1. p \in Seq(STRING) /\ t \in Seq(STRING) /\ Len(p) \in 0..Len(p) /\ Len(p) - Len(p) = 0 /\ 0 \in 0..Len(t)
    BY PubSubAssumption
  <1>2. PICK g \in [0..Len(p) -> SUBSET (0..Len(t))] : Table(p, t, g) /\ MatchesInner(p, t) = g[Len(p)]
    BY <1>1, MatcherIs
  <1>3. /\ 0 \in g[Len(p)] => CoversFrom(p, t, 0, 0)
        /\ Len(p) <= MaxMatchDepth /\ CoversFrom(p, t, 0, 0) => 0 \in g[Len(p)]
    BY <1>1, <1>2, TableExact
  <1>4. Covers(p, t) <=> CoversFrom(p, t, 0, 0)
    <2>1. 0 + 1 = 1
      OBVIOUS
    <2> QED BY <2>1 DEF Covers, CoversFrom, Rule
  <1> QED BY <1>2, <1>3, <1>4 DEF MatchesPattern

-----------------------------------------------------------------------------
\* Messaging.  What a subscriber holds, where the walks are, and what is owed.
Message == Nat \ {0}
Receiver == [pattern : Seq(STRING), unread : Seq(Message), read : SUBSET Message, lagged : BOOLEAN, open : BOOLEAN]

PubSubType ==
    /\ subscriptions \subseteq Patterns /\ IsFiniteSet(subscriptions) /\ published \in Nat
    /\ receiver \in [Subscribers -> Receiver]
    /\ subscribing \in [Subscribers -> Seq(STRING)]
    /\ walk \in [Publishers -> [msg : Nat, topic : Seq(STRING), shard : Nat, left : SUBSET Patterns]]
    /\ owed \in [Publishers -> SUBSET Subscribers]

InLine(r, m) == \E i \in DOMAIN r.unread : r.unread[i] = m
Holds(r, m) == m \in r.read \/ InLine(r, m)
Once(r) == \A i \in DOMAIN r.unread :
             r.unread[i] \notin r.read /\ \A j \in DOMAIN r.unread : r.unread[j] = r.unread[i] => j = i

\* Each walk has a message of its own, and only entries of its shard to come.
WalksApart ==
    /\ \A w \in Publishers : walk[w].msg <= published /\ (walk[w].msg = 0 => walk[w] = Idle)
    /\ \A w \in Publishers : \A p \in walk[w].left : p \in subscriptions /\ ShardOf[p] = walk[w].shard
    /\ \A v, w \in Publishers : walk[v].msg = walk[w].msg /\ walk[v].msg # 0 => v = w

\* An open receiver's pattern is in the map; whoever is about to insert has none.
OpenOnes ==
    /\ \A s \in Subscribers : receiver[s].open => receiver[s].pattern \in subscriptions
    /\ \A s \in Subscribers : subscribing[s] # <<>> => subscribing[s] \in Patterns /\ receiver[s] = NoReceiver

\* Whoever is owed a message is on an open channel whose pattern matches it, and
\* has it, or will be told, once the walk has been there.
OwedExact ==
    /\ \A w \in Publishers : walk[w] = Idle => owed[w] = {}
    /\ \A w \in Publishers : \A s \in owed[w] :
         /\ receiver[s].open /\ MatchesPattern(receiver[s].pattern, walk[w].topic)
         /\ Past(w, receiver[s].pattern) => receiver[s].lagged \/ InLine(receiver[s], walk[w].msg)

\* Nothing comes twice: a message is not there before its walk comes by.
NoneTwice ==
    /\ \A s \in Subscribers : Once(receiver[s]) /\ \A m \in Message : Holds(receiver[s], m) => m <= published
    /\ \A w \in Publishers, s \in Subscribers :
         receiver[s].open /\ ~Past(w, receiver[s].pattern) => ~Holds(receiver[s], walk[w].msg)

Inserting == {s \in Subscribers : subscribing[s] # <<>>}

\* A pattern that found room is as good as inserted.
RoomTaken == Cardinality(subscriptions) + Cardinality(Inserting) < MaxPatterns + Cardinality(Subscribers)

PubSubInv == PubSubType /\ WalksApart /\ OpenOnes /\ OwedExact /\ NoneTwice /\ RoomTaken

LEMMA InsertingFinite ==
  ASSUME PubSubType
  PROVE  /\ IsFiniteSet(Inserting) /\ Cardinality(Inserting) \in Nat /\ Cardinality(Inserting) <= Cardinality(Subscribers)
         /\ Cardinality(subscriptions) \in Nat /\ Cardinality(Subscribers) \in Nat /\ MaxPatterns \in Nat \ {0}
  BY PubSubAssumption, FS_Subset, FS_CardinalityType DEF PubSubType, Inserting

LEMMA FreshReceiver ==
  /\ NoReceiver \in Receiver /\ NoReceiver.open = FALSE /\ NoReceiver.lagged = FALSE /\ NoReceiver.unread = <<>>
  /\ Once(NoReceiver) /\ \A m : ~Holds(NoReceiver, m)
  /\ \A p \in Seq(STRING) : LET r == [NoReceiver EXCEPT !.pattern = p, !.open = TRUE] IN
       r \in Receiver /\ r.pattern = p /\ r.open /\ Once(r) /\ \A m : ~Holds(r, m)
  <1>1. <<>> \in Seq(Message) /\ <<>> \in Seq(STRING) /\ DOMAIN <<>> = {}
    OBVIOUS
  <1>2. NoReceiver \in Receiver /\ NoReceiver.open = FALSE /\ NoReceiver.lagged = FALSE
        /\ NoReceiver.unread = <<>> /\ NoReceiver.read = {}
    BY <1>1 DEF NoReceiver, Receiver
  <1>3. Once(NoReceiver) /\ \A m : ~Holds(NoReceiver, m)
    BY <1>1, <1>2 DEF Once, Holds, InLine
  <1>4. ASSUME NEW p \in Seq(STRING)
        PROVE  LET r == [NoReceiver EXCEPT !.pattern = p, !.open = TRUE] IN
               r \in Receiver /\ r.pattern = p /\ r.open /\ Once(r) /\ \A m : ~Holds(r, m)
    <2> DEFINE r == [NoReceiver EXCEPT !.pattern = p, !.open = TRUE]
    <2>1. r \in Receiver /\ r.pattern = p /\ r.open /\ r.unread = <<>> /\ r.read = {}
      BY <1>1, <1>2 DEF Receiver
    <2>2. Once(r) /\ \A m : ~Holds(r, m)
      BY <1>1, <2>1 DEF Once, Holds, InLine
    <2> QED BY <2>1, <2>2
  <1> QED BY <1>2, <1>3, <1>4

\* What a delivery does to a receiver that does not have the message yet.
LEMMA DeliveredIs ==
  ASSUME NEW r \in Receiver, NEW m \in Message, Once(r), ~Holds(r, m)
  PROVE  LET d == Delivered(r, m) IN
         /\ d \in Receiver /\ d.open = r.open /\ d.pattern = r.pattern /\ Once(d) /\ InLine(d, m)
         /\ \A x : Holds(d, x) => Holds(r, x) \/ x = m
         /\ \A x : r.lagged \/ InLine(r, x) => d.lagged \/ InLine(d, x)
  <1> DEFINE old == r.unread
             d == Delivered(r, m)
  <1>0. old \in Seq(Message) /\ Len(old) \in Nat /\ ChannelCapacity \in Nat \ {0} /\ m \notin r.read
        /\ \A i \in 1..Len(old) : old[i] # m /\ old[i] \notin r.read /\ \A j \in 1..Len(old) : old[j] = old[i] => j = i
    BY PubSubAssumption DEF Receiver, Once, Holds, InLine
  <1>1. CASE Len(old) < ChannelCapacity
    <2> DEFINE u == Append(old, m)
    <2>1. u \in Seq(Message) /\ Len(u) = Len(old) + 1 /\ u[Len(old) + 1] = m /\ DOMAIN u = 1..Len(old) + 1
          /\ \A i \in 1..Len(old) : u[i] = old[i]
      BY <1>0
    <2>2. d = [r EXCEPT !.unread = u]
      BY <1>1 DEF Delivered
    <2>3. d \in Receiver /\ d.open = r.open /\ d.pattern = r.pattern /\ d.unread = u /\ d.read = r.read /\ d.lagged = r.lagged
      BY <2>1, <2>2 DEF Receiver
    <2>4. InLine(d, m)
      BY <1>0, <2>1, <2>3 DEF InLine
    <2>5. ASSUME NEW x, InLine(d, x) PROVE InLine(r, x) \/ x = m
      BY <1>0, <2>1, <2>3, <2>5 DEF InLine
    <2>6. ASSUME NEW x, InLine(r, x) PROVE InLine(d, x)
      BY <1>0, <2>1, <2>3, <2>6 DEF InLine
    <2>7. Once(d)
      <3>1. ASSUME NEW i \in 1..Len(old) + 1 PROVE u[i] \notin r.read
        BY <1>0, <2>1
      <3>2. ASSUME NEW i \in 1..Len(old) + 1, NEW j \in 1..Len(old) + 1, u[j] = u[i] PROVE j = i
        BY <1>0, <2>1, <3>2
      <3> QED BY <2>1, <2>3, <3>1, <3>2 DEF Once
    <2> QED BY <2>3, <2>4, <2>5, <2>6, <2>7 DEF Holds
  <1>2. CASE ~(Len(old) < ChannelCapacity)
    <2> DEFINE u == Append(Tail(old), m)
    <2>0. old # <<>> /\ Tail(old) \in Seq(Message) /\ Len(Tail(old)) = Len(old) - 1
          /\ \A i \in 1..Len(old) - 1 : Tail(old)[i] = old[i + 1]
      BY <1>0, <1>2
    <2>1. u \in Seq(Message) /\ Len(u) = Len(old) /\ u[Len(old)] = m /\ DOMAIN u = 1..Len(old) /\ Len(old) >= 1
          /\ \A i \in 1..Len(old) - 1 : u[i] = old[i + 1]
      <3>1. u \in Seq(Message) /\ Len(u) = Len(old) - 1 + 1 /\ u[Len(old) - 1 + 1] = m
            /\ \A i \in 1..Len(old) - 1 : u[i] = Tail(old)[i]
        BY <1>0, <2>0
      <3>2. Len(old) # 0
        BY <1>0, <2>0
      <3> QED BY <1>0, <2>0, <3>1, <3>2
    <2>2. d = [r EXCEPT !.unread = u, !.lagged = TRUE]
      BY <1>2 DEF Delivered
    <2>3. d \in Receiver /\ d.open = r.open /\ d.pattern = r.pattern /\ d.unread = u /\ d.read = r.read /\ d.lagged
      BY <2>1, <2>2 DEF Receiver
    <2>4. InLine(d, m)
      BY <1>0, <2>1, <2>3 DEF InLine
    <2>5. ASSUME NEW x, InLine(d, x) PROVE InLine(r, x) \/ x = m
      <3>1. PICK i \in 1..Len(old) : u[i] = x
        BY <2>1, <2>3, <2>5 DEF InLine
      <3>2. CASE i = Len(old)
        BY <2>1, <3>1, <3>2
      <3>3. CASE i # Len(old)
        <4>1. i + 1 \in 1..Len(old) /\ old[i + 1] = x
          BY <1>0, <2>1, <3>1, <3>3
        <4> QED BY <1>0, <4>1 DEF InLine
      <3> QED BY <3>2, <3>3
    <2>7. Once(d)
      <3>1. \A i \in 1..Len(old) : i # Len(old) => i \in 1..Len(old) - 1 /\ i + 1 \in 1..Len(old) /\ u[i] = old[i + 1]
        BY <1>0, <2>1
      <3>2. ASSUME NEW i \in 1..Len(old) PROVE u[i] \notin r.read
        BY <1>0, <2>1, <3>1
      <3>3. ASSUME NEW i \in 1..Len(old), NEW j \in 1..Len(old), u[j] = u[i] PROVE j = i
        <4>1. CASE i # Len(old) /\ j # Len(old)
          <5>1. old[j + 1] = old[i + 1] /\ i + 1 \in 1..Len(old) /\ j + 1 \in 1..Len(old)
            BY <3>1, <3>3, <4>1
          <5>2. j + 1 = i + 1
            BY <1>0, <5>1
          <5> QED BY <5>2
        <4>2. CASE i = Len(old) /\ j # Len(old)
          BY <1>0, <2>1, <3>1, <3>3, <4>2
        <4>3. CASE i # Len(old) /\ j = Len(old)
          BY <1>0, <2>1, <3>1, <3>3, <4>3
        <4> QED BY <4>1, <4>2, <4>3
      <3> QED BY <2>1, <2>3, <3>2, <3>3 DEF Once
    <2> QED BY <2>3, <2>4, <2>5, <2>7 DEF Holds
  <1> QED BY <1>1, <1>2

\* What reading the oldest message does.
LEMMA TakenIs ==
  ASSUME NEW r \in Receiver, Once(r), r.unread # <<>>
  PROVE  LET h == Head(r.unread)
             d == [r EXCEPT !.unread = Tail(r.unread), !.read = r.read \cup {h}] IN
         /\ d \in Receiver /\ d.open = r.open /\ d.pattern = r.pattern /\ d.lagged = r.lagged /\ Once(d)
         /\ h \in Message
         /\ \A x : Holds(d, x) => Holds(r, x)
         /\ \A x : x # h /\ InLine(r, x) => InLine(d, x)
  <1> DEFINE old == r.unread
             h == Head(old)
             u == Tail(old)
             d == [r EXCEPT !.unread = u, !.read = r.read \cup {h}]
  <1>0. old \in Seq(Message) /\ Len(old) \in Nat /\ Len(old) >= 1 /\ h = old[1] /\ 1 \in 1..Len(old) /\ h \in Message
        /\ \A i \in 1..Len(old) : old[i] \notin r.read /\ \A j \in 1..Len(old) : old[j] = old[i] => j = i
    BY DEF Receiver, Once
  <1>1. u \in Seq(Message) /\ Len(u) = Len(old) - 1 /\ DOMAIN u = 1..Len(old) - 1
        /\ \A i \in 1..Len(old) - 1 : u[i] = old[i + 1] /\ i + 1 \in 1..Len(old) /\ i + 1 # 1
    BY <1>0
  <1>2. d \in Receiver /\ d.open = r.open /\ d.pattern = r.pattern /\ d.unread = u /\ d.read = r.read \cup {h} /\ d.lagged = r.lagged
    BY <1>0, <1>1 DEF Receiver
  <1>3. ASSUME NEW x, InLine(d, x) PROVE InLine(r, x)
    BY <1>0, <1>1, <1>2, <1>3 DEF InLine
  <1>4. InLine(r, h)
    BY <1>0 DEF InLine
  <1>5. ASSUME NEW x, x # h, InLine(r, x) PROVE InLine(d, x)
    <2>1. PICK i \in 1..Len(old) : old[i] = x
      BY <1>0, <1>5 DEF InLine
    <2>2. i - 1 \in 1..Len(old) - 1 /\ (i - 1) + 1 = i
      BY <1>0, <1>5, <2>1
    <2>3. u[i - 1] = x
      BY <1>1, <2>1, <2>2
    <2> QED BY <1>1, <1>2, <2>2, <2>3 DEF InLine
  <1>6. Once(d)
    <2>1. ASSUME NEW i \in 1..Len(old) - 1 PROVE u[i] \notin r.read /\ u[i] # h
      BY <1>0, <1>1
    <2>2. ASSUME NEW i \in 1..Len(old) - 1, NEW j \in 1..Len(old) - 1, u[j] = u[i] PROVE j = i
      <3>1. old[j + 1] = old[i + 1] /\ i + 1 \in 1..Len(old) /\ j + 1 \in 1..Len(old)
        BY <1>1, <2>2
      <3>2. j + 1 = i + 1
        BY <1>0, <3>1
      <3> QED BY <3>2
    <2> QED BY <1>1, <1>2, <2>1, <2>2 DEF Once
  <1>7. \A x : Holds(d, x) => Holds(r, x)
    BY <1>2, <1>3, <1>4 DEF Holds
  <1> QED BY <1>0, <1>2, <1>5, <1>6, <1>7

\* Where a walk has been does not depend on who reads or subscribes.
LEMMA PastStays ==
  ASSUME walk' = walk
  PROVE  \A w, p : Past(w, p)' <=> Past(w, p)
  BY DEF Past

\* A new receiver for one subscriber: it holds nothing and nobody owes it.
LEMMA AttachKeeps ==
  ASSUME PubSubInv, NEW s \in Subscribers, NEW p \in Patterns, receiver[s] = NoReceiver, Attach(s, p),
         subscriptions \subseteq subscriptions', p \in subscriptions',
         walk' = walk, published' = published, owed' = owed,
         subscribing' = subscribing \/ subscribing' = [subscribing EXCEPT ![s] = <<>>],
         subscribing'[s] = <<>>
  PROVE  /\ receiver' \in [Subscribers -> Receiver] /\ subscribing' \in [Subscribers -> Seq(STRING)]
         /\ WalksApart' /\ OpenOnes' /\ OwedExact' /\ NoneTwice'
  <1>0. /\ PubSubType /\ WalksApart /\ OpenOnes /\ OwedExact /\ NoneTwice
        /\ p \in Seq(STRING) /\ receiver[s].open = FALSE
    BY PubSubAssumption, FreshReceiver DEF PubSubInv
  <1> DEFINE r == [NoReceiver EXCEPT !.pattern = p, !.open = TRUE]
  <1>1. r \in Receiver /\ r.pattern = p /\ r.open /\ Once(r) /\ \A m : ~Holds(r, m)
    BY <1>0, FreshReceiver
  <1>2. receiver' = [receiver EXCEPT ![s] = r]
    BY DEF Attach
  <1> HIDE DEF r
  <1>3. receiver' \in [Subscribers -> Receiver] /\ receiver'[s] = r /\ \A u \in Subscribers : u # s => receiver'[u] = receiver[u]
    BY <1>0, <1>1, <1>2 DEF PubSubType
  <1>4. subscribing' \in [Subscribers -> Seq(STRING)] /\ \A u \in Subscribers : u # s => subscribing'[u] = subscribing[u]
    <2>1. <<>> \in Seq(STRING)
      OBVIOUS
    <2>2. CASE subscribing' = subscribing
      BY <1>0, <2>2 DEF PubSubType
    <2>3. CASE subscribing' = [subscribing EXCEPT ![s] = <<>>]
      BY <1>0, <2>1, <2>3 DEF PubSubType
    <2> QED BY <2>2, <2>3
  <1>5. \A w \in Publishers : s \notin owed[w]
    BY <1>0 DEF OwedExact
  <1>6. \A w \in Publishers : \A u \in owed[w] : u \in Subscribers /\ u # s /\ receiver'[u] = receiver[u]
    BY <1>0, <1>3, <1>5 DEF PubSubType
  <1>7. WalksApart'
    BY <1>0 DEF WalksApart
  <1>8. OpenOnes'
    <2>1. \A u \in Subscribers : receiver'[u].open => receiver'[u].pattern \in subscriptions'
      BY <1>0, <1>1, <1>3 DEF OpenOnes
    <2>2. \A u \in Subscribers : subscribing'[u] # <<>> => subscribing'[u] \in Patterns /\ receiver'[u] = NoReceiver
      BY <1>0, <1>3, <1>4 DEF OpenOnes
    <2> QED BY <2>1, <2>2 DEF OpenOnes
  <1>9. OwedExact'
    BY <1>0, <1>6, PastStays DEF OwedExact
  <1>10. NoneTwice'
    <2>1. \A u \in Subscribers : Once(receiver'[u]) /\ \A m \in Message : Holds(receiver'[u], m) => m <= published'
      BY <1>0, <1>1, <1>3 DEF NoneTwice
    <2>2. \A w \in Publishers, u \in Subscribers :
            receiver'[u].open /\ ~Past(w, receiver'[u].pattern) => ~Holds(receiver'[u], walk[w].msg)
      BY <1>0, <1>1, <1>3 DEF NoneTwice
    <2>3. \A w \in Publishers, u \in Subscribers :
            (receiver[u].open /\ ~Past(w, receiver[u].pattern) => ~Holds(receiver[u], walk[w].msg))'
      BY <2>2, PastStays
    <2> QED BY <2>1, <2>3 DEF NoneTwice
  <1> QED BY <1>3, <1>4, <1>7, <1>8, <1>9, <1>10

\* A lookup that finds the pattern joins it, one that finds room remembers it.
LEMMA SubscribeStep ==
  ASSUME PubSubInv, NEW s \in Subscribers, NEW p \in Patterns, Subscribe(s, p)
  PROVE  PubSubInv'
  <1>0. PubSubType /\ WalksApart /\ OpenOnes /\ OwedExact /\ NoneTwice /\ RoomTaken /\ p \in Seq(STRING)
    BY PubSubAssumption DEF PubSubInv
  <1>1. /\ subscriptions' = subscriptions /\ walk' = walk /\ published' = published /\ owed' = owed
        /\ receiver[s] = NoReceiver /\ subscribing[s] = <<>>
    BY DEF Subscribe
  <1>2. CASE p \in subscriptions /\ Attach(s, p) /\ UNCHANGED subscribing
    <2>1. /\ receiver' \in [Subscribers -> Receiver] /\ subscribing' \in [Subscribers -> Seq(STRING)]
          /\ WalksApart' /\ OpenOnes' /\ OwedExact' /\ NoneTwice'
      BY <1>1, <1>2, AttachKeeps
    <2>2. PubSubType'
      BY <1>0, <1>1, <2>1 DEF PubSubType
    <2>3. RoomTaken'
      BY <1>0, <1>1, <1>2 DEF RoomTaken, Inserting
    <2> QED BY <2>1, <2>2, <2>3 DEF PubSubInv
  <1>3. CASE /\ Cardinality(subscriptions) < MaxPatterns
             /\ subscribing' = [subscribing EXCEPT ![s] = p] /\ UNCHANGED receiver
    <2>1. PubSubType'
      BY <1>0, <1>1, <1>3 DEF PubSubType
    <2>2. WalksApart'
      BY <1>0, <1>1 DEF WalksApart
    <2>3. OpenOnes'
      BY <1>0, <1>1, <1>3 DEF OpenOnes, PubSubType
    <2>4. OwedExact'
      BY <1>0, <1>1, <1>3, PastStays DEF OwedExact
    <2>5. NoneTwice'
      BY <1>0, <1>1, <1>3, PastStays DEF NoneTwice
    <2>6. /\ Cardinality(Inserting') \in Nat /\ Cardinality(Inserting') <= Cardinality(Subscribers)
          /\ Cardinality(subscriptions) \in Nat /\ Cardinality(Subscribers) \in Nat /\ MaxPatterns \in Nat \ {0}
      <3>1. Inserting' \subseteq Subscribers
        BY DEF Inserting
      <3>2. Cardinality(Inserting') \in Nat /\ Cardinality(Inserting') <= Cardinality(Subscribers)
        BY <3>1, PubSubAssumption, FS_Subset, FS_CardinalityType
      <3> QED BY <1>0, <3>2, InsertingFinite
    <2>7. RoomTaken'
      BY <1>1, <1>3, <2>6 DEF RoomTaken
    <2> QED BY <2>1, <2>2, <2>3, <2>4, <2>5, <2>7 DEF PubSubInv
  <1> QED BY <1>2, <1>3 DEF Subscribe

\* An insertion uses up the room that was found.
LEMMA InsertStep ==
  ASSUME PubSubInv, NEW s \in Subscribers, InsertPattern(s)
  PROVE  PubSubInv'
  <1>0. PubSubType /\ OpenOnes /\ RoomTaken
    BY DEF PubSubInv
  <1> DEFINE p == subscribing[s]
  <1>1. /\ walk' = walk /\ published' = published /\ owed' = owed
        /\ p # <<>> /\ subscribing' = [subscribing EXCEPT ![s] = <<>>]
        /\ subscriptions' = subscriptions \cup {p} /\ Attach(s, p)
    BY DEF InsertPattern
  <1>2. receiver[s] = NoReceiver /\ p \in Patterns /\ subscribing'[s] = <<>>
    BY <1>0, <1>1 DEF OpenOnes, PubSubType
  <1>3. /\ receiver' \in [Subscribers -> Receiver] /\ subscribing' \in [Subscribers -> Seq(STRING)]
        /\ WalksApart' /\ OpenOnes' /\ OwedExact' /\ NoneTwice'
    <2>1. subscriptions \subseteq subscriptions' /\ p \in subscriptions'
      BY <1>1
    <2> HIDE DEF p
    <2> QED BY <1>1, <1>2, <2>1, AttachKeeps
  <1>4. /\ IsFiniteSet(subscriptions') /\ Cardinality(subscriptions') <= Cardinality(subscriptions) + 1
        /\ Cardinality(subscriptions') \in Nat /\ Cardinality(subscriptions) \in Nat
    <2>1. IsFiniteSet(subscriptions) /\ Cardinality(subscriptions) \in Nat
      BY <1>0, FS_CardinalityType DEF PubSubType
    <2>2. /\ IsFiniteSet(subscriptions')
          /\ Cardinality(subscriptions') \in {Cardinality(subscriptions), Cardinality(subscriptions) + 1}
      BY <1>1, <2>1, FS_AddElement
    <2> QED BY <2>1, <2>2
  <1>5. PubSubType'
    BY <1>0, <1>1, <1>2, <1>3, <1>4 DEF PubSubType
  <1>6. Inserting' = Inserting \ {s} /\ s \in Inserting
    BY <1>0, <1>1 DEF PubSubType, Inserting
  <1>7. Cardinality(Inserting') = Cardinality(Inserting) - 1 /\ Cardinality(Inserting) \in Nat
        /\ Cardinality(Subscribers) \in Nat /\ MaxPatterns \in Nat
    BY <1>0, <1>6, FS_RemoveElement, InsertingFinite
  <1>8. RoomTaken'
    BY <1>0, <1>4, <1>7 DEF RoomTaken
  <1> QED BY <1>3, <1>5, <1>8 DEF PubSubInv

\* A walk that comes to an entry leaves the message with everyone on it.
LEMMA VisitStep ==
  ASSUME PubSubInv, NEW v \in Publishers, NEW p \in Patterns, Visit(v, p)
  PROVE  PubSubInv'
  <1>0. PubSubType /\ WalksApart /\ OpenOnes /\ OwedExact /\ NoneTwice /\ RoomTaken
    BY DEF PubSubInv
  <1> DEFINE m == walk[v].msg
             Hit(s) == receiver[s].open /\ receiver[s].pattern = p /\ MatchesPattern(p, walk[v].topic)
  <1>1. /\ p \in walk[v].left /\ walk' = [walk EXCEPT ![v] = Walk(m, walk[v].topic, walk[v].shard, walk[v].left \ {p})]
        /\ subscriptions' = subscriptions /\ subscribing' = subscribing /\ published' = published /\ owed' = owed
        /\ receiver' = [s \in Subscribers |-> IF Hit(s) THEN Delivered(receiver[s], m) ELSE receiver[s]]
    BY DEF Visit, LeftAfter, OnPattern
  <1>2. /\ m \in Message /\ m <= published /\ walk[v] # Idle
        /\ p \in subscriptions /\ ShardOf[p] = walk[v].shard /\ ~Past(v, p)
    <2>1. walk[v].left # {} /\ Idle.left = {}
      BY <1>1 DEF Idle, Walk
    <2> QED BY <1>0, <1>1, <2>1 DEF PubSubType, WalksApart, Message, Past
  <1>3. /\ \A w \in Publishers : w # v => walk'[w] = walk[w]
        /\ walk'[v].msg = m /\ walk'[v].topic = walk[v].topic /\ walk'[v].shard = walk[v].shard
        /\ walk'[v].left = walk[v].left \ {p}
        /\ walk' \in [Publishers -> [msg : Nat, topic : Seq(STRING), shard : Nat, left : SUBSET Patterns]]
    BY <1>0, <1>1 DEF PubSubType, Walk
  <1>4. /\ \A w \in Publishers : walk'[w].msg = walk[w].msg /\ walk'[w].topic = walk[w].topic /\ walk'[w].shard = walk[w].shard
        /\ \A w \in Publishers : walk'[w].left \subseteq walk[w].left
        /\ \A w \in Publishers : walk'[w] = Idle => walk[w] = Idle
    <2>1. walk'[v] # Idle
      BY <1>2, <1>3 DEF Idle, Walk, Message
    <2> QED BY <1>3, <2>1
  <1>5. \A w \in Publishers : \A pat : pat # p \/ w # v => (Past(w, pat)' <=> Past(w, pat))
    BY <1>3, <1>4 DEF Past
  <1>6. ASSUME NEW s \in Subscribers, Hit(s) PROVE Once(receiver[s]) /\ ~Holds(receiver[s], m)
    BY <1>0, <1>2, <1>6 DEF NoneTwice
  <1>7. ASSUME NEW s \in Subscribers
        PROVE  /\ receiver[s] \in Receiver /\ receiver'[s] \in Receiver
               /\ receiver'[s].open = receiver[s].open /\ receiver'[s].pattern = receiver[s].pattern
               /\ Once(receiver'[s]) /\ (Hit(s) => InLine(receiver'[s], m))
               /\ \A x : Holds(receiver'[s], x) => Holds(receiver[s], x) \/ (Hit(s) /\ x = m)
               /\ \A x : receiver[s].lagged \/ InLine(receiver[s], x) => receiver'[s].lagged \/ InLine(receiver'[s], x)
    <2>0. receiver[s] \in Receiver /\ Once(receiver[s])
      BY <1>0 DEF PubSubType, NoneTwice
    <2>1. CASE Hit(s)
      <3>1. receiver'[s] = Delivered(receiver[s], m)
        BY <1>1, <2>1
      <3>2. Once(receiver[s]) /\ ~Holds(receiver[s], m) /\ m \in Message
        BY <1>2, <1>6, <2>1
      <3> HIDE DEF m, Hit
      <3> DEFINE d == Delivered(receiver[s], m)
      <3>3. /\ d \in Receiver /\ d.open = receiver[s].open /\ d.pattern = receiver[s].pattern /\ Once(d) /\ InLine(d, m)
            /\ \A x : Holds(d, x) => Holds(receiver[s], x) \/ x = m
            /\ \A x : receiver[s].lagged \/ InLine(receiver[s], x) => d.lagged \/ InLine(d, x)
        BY <2>0, <3>2, DeliveredIs, Zenon
      <3> QED BY <2>0, <2>1, <3>1, <3>3, Zenon
    <2>2. CASE ~Hit(s)
      <3>1. receiver'[s] = receiver[s]
        BY <1>1, <2>2
      <3> QED BY <2>0, <2>2, <3>1
    <2> QED BY <2>1, <2>2
  <1>8. \A s \in Subscribers : ~receiver[s].open => receiver'[s] = receiver[s]
    BY <1>1
  <1>9. PubSubType'
    <2>1. receiver' \in [Subscribers -> Receiver]
      BY <1>1, <1>7
    <2> QED BY <1>0, <1>1, <1>3, <2>1 DEF PubSubType
  <1>10. WalksApart'
    <2>1. \A w \in Publishers : walk'[w].msg = 0 => walk'[w] = Idle
      BY <1>0, <1>2, <1>3 DEF WalksApart, Message
    <2>2. \A w \in Publishers : walk'[w].msg <= published'
      BY <1>0, <1>1, <1>4 DEF WalksApart
    <2>3. \A w \in Publishers : \A pat \in walk'[w].left : pat \in subscriptions' /\ ShardOf[pat] = walk'[w].shard
      BY <1>0, <1>1, <1>4 DEF WalksApart
    <2>4. \A u, w \in Publishers : walk'[u].msg = walk'[w].msg /\ walk'[u].msg # 0 => u = w
      BY <1>0, <1>4 DEF WalksApart
    <2> QED BY <2>1, <2>2, <2>3, <2>4 DEF WalksApart
  <1>11. OpenOnes'
    <2>1. \A s \in Subscribers : subscribing[s] # <<>> => receiver'[s] = NoReceiver
      BY <1>0, <1>8, FreshReceiver DEF OpenOnes
    <2> QED BY <1>0, <1>1, <1>7, <2>1 DEF OpenOnes
  <1>12. OwedExact'
    <2>1. ASSUME NEW w \in Publishers, NEW s \in owed[w]
          PROVE  (/\ receiver[s].open /\ MatchesPattern(receiver[s].pattern, walk[w].topic)
                  /\ Past(w, receiver[s].pattern) => receiver[s].lagged \/ InLine(receiver[s], walk[w].msg))'
      <3>0. s \in Subscribers /\ receiver[s].open /\ MatchesPattern(receiver[s].pattern, walk[w].topic)
        BY <1>0 DEF PubSubType, OwedExact
      <3>1. receiver'[s].open /\ MatchesPattern(receiver'[s].pattern, walk'[w].topic)
        BY <1>4, <1>7, <3>0
      <3>2. CASE w = v /\ receiver[s].pattern = p
        BY <1>4, <1>7, <3>0, <3>1, <3>2 DEF MatchesPattern
      <3>3. CASE w # v \/ receiver[s].pattern # p
        <4>1. Past(w, receiver[s].pattern) => receiver[s].lagged \/ InLine(receiver[s], walk[w].msg)
          BY <1>0 DEF OwedExact
        <4>2. Past(w, receiver[s].pattern)' <=> Past(w, receiver[s].pattern)
          <5>1. receiver'[s].pattern = receiver[s].pattern
            BY <1>7, <3>0
          <5> QED BY <1>3, <1>4, <3>3, <5>1 DEF Past
        <4> QED BY <1>4, <1>7, <3>0, <3>1, <4>1, <4>2
      <3> QED BY <3>2, <3>3
    <2>2. \A w \in Publishers : walk'[w] = Idle => owed'[w] = {}
      BY <1>0, <1>1, <1>4 DEF OwedExact
    <2> QED BY <1>1, <2>1, <2>2 DEF OwedExact
  <1>13. NoneTwice'
    <2>1. \A s \in Subscribers : Once(receiver'[s]) /\ \A x \in Message : Holds(receiver'[s], x) => x <= published'
      BY <1>0, <1>1, <1>2, <1>7 DEF NoneTwice
    <2>2. ASSUME NEW w \in Publishers, NEW s \in Subscribers
          PROVE  (receiver[s].open /\ ~Past(w, receiver[s].pattern) => ~Holds(receiver[s], walk[w].msg))'
      <3>1. receiver'[s].pattern = receiver[s].pattern /\ receiver'[s].open = receiver[s].open /\ walk'[w].msg = walk[w].msg
        BY <1>4, <1>7
      <3>2. Past(w, receiver[s].pattern) => Past(w, receiver[s].pattern)'
        BY <1>4, <3>1 DEF Past
      <3>3. CASE w = v /\ receiver[s].pattern = p
        <4>1. Past(w, receiver[s].pattern)'
          BY <1>2, <1>3, <3>1, <3>3 DEF Past
        <4> QED BY <4>1
      <3>4. CASE w = v /\ receiver[s].pattern # p
        BY <1>0, <1>7, <3>1, <3>2, <3>4 DEF NoneTwice
      <3>5. CASE w # v
        <4>1. walk[w].msg # m
          BY <1>0, <1>2, <3>5 DEF WalksApart, Message
        <4> QED BY <1>0, <1>7, <3>1, <3>2, <4>1 DEF NoneTwice
      <3> QED BY <3>3, <3>4, <3>5
    <2> QED BY <2>1, <2>2 DEF NoneTwice
  <1>14. RoomTaken'
    BY <1>0, <1>1 DEF RoomTaken, Inserting
  <1> QED BY <1>9, <1>10, <1>11, <1>12, <1>13, <1>14 DEF PubSubInv

\* A publish begins and owes whoever is there; it ends and owes no one.
LEMMA PublishStep ==
  ASSUME PubSubInv, NEW v \in Publishers, EndPublish(v) \/ \E t \in Topics : BeginPublish(v, t)
  PROVE  PubSubInv'
  <1>0. PubSubType /\ WalksApart /\ OpenOnes /\ OwedExact /\ NoneTwice /\ RoomTaken
    BY DEF PubSubInv
  <1>1. subscriptions' = subscriptions /\ receiver' = receiver /\ subscribing' = subscribing
    BY DEF EndPublish, BeginPublish
  <1>2. RoomTaken' /\ OpenOnes'
    BY <1>0, <1>1 DEF RoomTaken, Inserting, OpenOnes
  <1>3. CASE EndPublish(v)
    <2>1. published' = published /\ walk' = [walk EXCEPT ![v] = Idle] /\ owed' = [owed EXCEPT ![v] = {}]
      BY <1>3 DEF EndPublish
    <2>2. /\ Idle \in [msg : Nat, topic : Seq(STRING), shard : Nat, left : SUBSET Patterns]
          /\ Idle.msg = 0 /\ Idle.left = {} /\ Idle.shard = 0
      BY DEF Idle, Walk
    <2>3. /\ walk'[v] = Idle /\ owed'[v] = {}
          /\ \A w \in Publishers : w # v => walk'[w] = walk[w] /\ owed'[w] = owed[w]
      BY <1>0, <2>1 DEF PubSubType
    <2>4. PubSubType'
      BY <1>0, <1>1, <2>1, <2>2 DEF PubSubType
    <2>5. \A w \in Publishers : w # v => \A pat : Past(w, pat)' <=> Past(w, pat)
      BY <2>3 DEF Past
    <2>6. WalksApart'
      BY <1>0, <1>1, <2>1, <2>2, <2>3 DEF WalksApart, PubSubType
    <2>7. OwedExact'
      BY <1>0, <1>1, <2>3, <2>5 DEF OwedExact
    <2>8. \A s \in Subscribers : ~Holds(receiver[s], 0)
      BY <1>0 DEF PubSubType, Receiver, Message, Holds, InLine
    <2>9. NoneTwice'
      BY <1>0, <1>1, <2>1, <2>2, <2>3, <2>5, <2>8 DEF NoneTwice
    <2> QED BY <1>2, <2>4, <2>6, <2>7, <2>9 DEF PubSubInv
  <1>4. ASSUME NEW t \in Topics, BeginPublish(v, t) PROVE PubSubInv'
    <2> DEFINE fresh == published + 1
               there == {s \in Subscribers : receiver[s].open /\ MatchesPattern(receiver[s].pattern, t)}
    <2>1. published' = fresh /\ walk' = [walk EXCEPT ![v] = Walk(fresh, t, 0, {})] /\ owed' = [owed EXCEPT ![v] = there]
          /\ t \in Seq(STRING)
      BY <1>4, PubSubAssumption DEF BeginPublish
    <2>2. fresh \in Message /\ fresh > published /\ fresh \in Nat /\ published \in Nat
      BY <1>0 DEF PubSubType, Message
    <2> HIDE DEF fresh, there
    <2>3. /\ walk'[v].msg = fresh /\ walk'[v].topic = t /\ walk'[v].shard = 0 /\ walk'[v].left = {} /\ walk'[v] # Idle
          /\ owed'[v] = there
          /\ \A w \in Publishers : w # v => walk'[w] = walk[w] /\ owed'[w] = owed[w]
          /\ walk' \in [Publishers -> [msg : Nat, topic : Seq(STRING), shard : Nat, left : SUBSET Patterns]]
      BY <1>0, <2>1, <2>2 DEF PubSubType, Walk, Idle, Message
    <2>4. PubSubType'
      <3>1. there \subseteq Subscribers
        BY DEF there
      <3>2. owed' \in [Publishers -> SUBSET Subscribers]
        BY <1>0, <2>1, <3>1 DEF PubSubType
      <3> QED BY <1>0, <1>1, <2>1, <2>2, <2>3, <3>2 DEF PubSubType
    <2>5. \A w \in Publishers : w # v => \A pat : Past(w, pat)' <=> Past(w, pat)
      BY <2>3 DEF Past
    <2>6. \A s \in Subscribers : receiver[s].open => ~Past(v, receiver[s].pattern)'
      <3>1. \A pat \in Patterns : ShardOf[pat] \in 1..Shards /\ Shards \in Nat
        BY PubSubAssumption
      <3> QED BY <1>0, <1>1, <2>3, <3>1 DEF Past, OpenOnes, PubSubType
    <2>7. WalksApart'
      <3>1. \A w \in Publishers : walk[w].msg \in Nat /\ walk[w].msg <= published /\ walk[w].msg # fresh
        BY <1>0, <2>2 DEF WalksApart, PubSubType
      <3>2. \A w \in Publishers : walk'[w].msg <= published' /\ (walk'[w].msg = 0 => walk'[w] = Idle)
        BY <1>0, <2>1, <2>2, <2>3, <3>1 DEF WalksApart, Message
      <3>3. \A w \in Publishers : \A pat \in walk'[w].left : pat \in subscriptions' /\ ShardOf[pat] = walk'[w].shard
        BY <1>0, <1>1, <2>3 DEF WalksApart
      <3>4. \A u, w \in Publishers : walk'[u].msg = walk'[w].msg /\ walk'[u].msg # 0 => u = w
        BY <1>0, <2>3, <3>1 DEF WalksApart
      <3> QED BY <3>2, <3>3, <3>4 DEF WalksApart
    <2>8. OwedExact'
      <3>1. \A s \in there : s \in Subscribers /\ receiver[s].open /\ MatchesPattern(receiver[s].pattern, t)
        BY DEF there
      <3>2. \A w \in Publishers : walk'[w] = Idle => owed'[w] = {}
        BY <1>0, <2>3 DEF OwedExact
      <3>3. ASSUME NEW s \in there
            PROVE  (/\ receiver[s].open /\ MatchesPattern(receiver[s].pattern, walk[v].topic)
                    /\ Past(v, receiver[s].pattern) => receiver[s].lagged \/ InLine(receiver[s], walk[v].msg))'
        BY <1>1, <2>3, <2>6, <3>1
      <3>4. ASSUME NEW w \in Publishers, w # v, NEW s \in owed[w]
            PROVE  (/\ receiver[s].open /\ MatchesPattern(receiver[s].pattern, walk[w].topic)
                    /\ Past(w, receiver[s].pattern) => receiver[s].lagged \/ InLine(receiver[s], walk[w].msg))'
        BY <1>0, <1>1, <2>3, <2>5, <3>4 DEF OwedExact
      <3> QED BY <2>3, <3>2, <3>3, <3>4 DEF OwedExact
    <2>9. NoneTwice'
      <3>1. \A s \in Subscribers : Once(receiver'[s]) /\ \A x \in Message : Holds(receiver'[s], x) => x <= published'
        BY <1>0, <1>1, <2>1, <2>2 DEF NoneTwice, Message
      <3>2. \A s \in Subscribers : ~Holds(receiver[s], fresh)
        BY <1>0, <2>2 DEF NoneTwice
      <3>3. ASSUME NEW w \in Publishers, NEW s \in Subscribers
            PROVE  (receiver[s].open /\ ~Past(w, receiver[s].pattern) => ~Holds(receiver[s], walk[w].msg))'
        <4>1. CASE w = v
          BY <1>1, <2>3, <3>2, <4>1
        <4>2. CASE w # v
          BY <1>0, <1>1, <2>3, <2>5, <4>2 DEF NoneTwice
        <4> QED BY <4>1, <4>2
      <3> QED BY <3>1, <3>3 DEF NoneTwice
    <2> QED BY <1>2, <2>4, <2>7, <2>8, <2>9 DEF PubSubInv
  <1> QED BY <1>3, <1>4

\* A walk that goes on to the next shard has all of its entries to come.
LEMMA NextShardStep ==
  ASSUME PubSubInv, NEW v \in Publishers, EnterShard(v)
  PROVE  PubSubInv'
  <1>0. PubSubType /\ WalksApart /\ OpenOnes /\ OwedExact /\ NoneTwice /\ RoomTaken
    BY DEF PubSubInv
  <1> DEFINE k == walk[v].shard + 1
             next == {p \in subscriptions : ShardOf[p] = k}
  <1>1. /\ walk[v] # Idle /\ walk[v].left = {} /\ walk' = [walk EXCEPT ![v] = Walk(walk[v].msg, walk[v].topic, k, next)]
        /\ subscriptions' = subscriptions /\ receiver' = receiver /\ subscribing' = subscribing
        /\ published' = published /\ owed' = owed
    BY DEF EnterShard
  <1>2. /\ \A w \in Publishers : w # v => walk'[w] = walk[w]
        /\ walk'[v].msg = walk[v].msg /\ walk'[v].topic = walk[v].topic /\ walk'[v].shard = k /\ walk'[v].left = next
        /\ walk' \in [Publishers -> [msg : Nat, topic : Seq(STRING), shard : Nat, left : SUBSET Patterns]]
    BY <1>0, <1>1 DEF PubSubType, Walk
  <1>3. \A w \in Publishers : walk'[w].msg = walk[w].msg /\ walk'[w].topic = walk[w].topic
    BY <1>2
  <1>4. walk[v].msg # 0 /\ walk'[v] # Idle
    BY <1>0, <1>1, <1>2 DEF WalksApart, Idle, Walk
  <1>5. ASSUME NEW w \in Publishers, NEW p \in subscriptions
        PROVE  Past(w, p)' <=> Past(w, p)
    <2>1. CASE w # v
      BY <1>2, <2>1 DEF Past
    <2>2. CASE w = v
      <3>1. ShardOf[p] \in Nat /\ walk[v].shard \in Nat
        BY <1>0, PubSubAssumption DEF PubSubType
      <3>2. Past(v, p) <=> ShardOf[p] <= walk[v].shard
        BY <1>1, <3>1 DEF Past
      <3>3. Past(v, p)' <=> ShardOf[p] < k \/ (ShardOf[p] = k /\ p \notin next)
        BY <1>2 DEF Past
      <3>4. Past(v, p)' <=> ShardOf[p] < k
        BY <3>3
      <3> QED BY <2>2, <3>1, <3>2, <3>4
    <2> QED BY <2>1, <2>2
  <1>6. PubSubType'
    BY <1>0, <1>1, <1>2 DEF PubSubType
  <1>7. WalksApart'
    <2>1. \A w \in Publishers : \A p \in walk'[w].left : p \in subscriptions' /\ ShardOf[p] = walk'[w].shard
      BY <1>0, <1>1, <1>2 DEF WalksApart
    <2>2. \A w \in Publishers : walk'[w].msg <= published' /\ (walk'[w].msg = 0 => walk'[w] = Idle)
      BY <1>0, <1>1, <1>2, <1>4 DEF WalksApart
    <2>3. \A u, w \in Publishers : walk'[u].msg = walk'[w].msg /\ walk'[u].msg # 0 => u = w
      BY <1>0, <1>3 DEF WalksApart
    <2> QED BY <2>1, <2>2, <2>3 DEF WalksApart
  <1>8. OpenOnes' /\ RoomTaken'
    BY <1>0, <1>1 DEF OpenOnes, RoomTaken, Inserting
  <1>9. \A w \in Publishers, s \in Subscribers :
          receiver[s].open => (Past(w, receiver[s].pattern)' <=> Past(w, receiver[s].pattern))
    <2>1. \A w \in Publishers, s \in Subscribers : receiver[s].open => receiver[s].pattern \in subscriptions
      BY <1>0 DEF OpenOnes
    <2>2. ASSUME NEW w \in Publishers, NEW s \in Subscribers, receiver[s].open
          PROVE  Past(w, receiver[s].pattern)' <=> Past(w, receiver[s].pattern)
      <3> DEFINE pat == receiver[s].pattern
      <3>1. pat \in subscriptions /\ receiver'[s].pattern = pat
        BY <1>1, <2>1, <2>2
      <3>2. Past(w, receiver[s].pattern)' <=> ShardOf[pat] < walk'[w].shard \/ (ShardOf[pat] = walk'[w].shard /\ pat \notin walk'[w].left)
        BY <1>1 DEF Past
      <3>3. (ShardOf[pat] < walk'[w].shard \/ (ShardOf[pat] = walk'[w].shard /\ pat \notin walk'[w].left)) <=> Past(w, pat)
        <4> HIDE DEF pat
        <4> QED BY <1>5, <3>1 DEF Past
      <3> QED BY <3>2, <3>3
    <2> QED BY <2>2
  <1>10. OwedExact'
    <2>1. \A w \in Publishers : walk'[w] = Idle => owed'[w] = {}
      BY <1>0, <1>1, <1>2, <1>4 DEF OwedExact
    <2>2. ASSUME NEW w \in Publishers, NEW s \in owed[w]
          PROVE  (/\ receiver[s].open /\ MatchesPattern(receiver[s].pattern, walk[w].topic)
                  /\ Past(w, receiver[s].pattern) => receiver[s].lagged \/ InLine(receiver[s], walk[w].msg))'
      <3>1. s \in Subscribers
        BY <1>0 DEF PubSubType
      <3> QED BY <1>0, <1>1, <1>3, <1>9, <3>1 DEF OwedExact
    <2> QED BY <1>1, <2>1, <2>2 DEF OwedExact
  <1>11. NoneTwice'
    BY <1>0, <1>1, <1>3, <1>9 DEF NoneTwice
  <1> QED BY <1>6, <1>7, <1>8, <1>10, <1>11 DEF PubSubInv

\* A channel that goes takes its receivers out of what is owed.
LEMMA UnsubscribeStep ==
  ASSUME PubSubInv, NEW p \in Patterns, UnsubscribeAll(p)
  PROVE  PubSubInv'
  <1>0. PubSubType /\ WalksApart /\ OpenOnes /\ OwedExact /\ NoneTwice /\ RoomTaken
    BY DEF PubSubInv
  <1>1. /\ subscribing' = subscribing /\ walk' = walk /\ published' = published
        /\ subscriptions' = subscriptions \ {p} /\ ~Locked(p)
        /\ owed' = [w \in Publishers |-> owed[w] \ OnPattern(p)]
        /\ receiver' = [s \in Subscribers |-> IF s \in OnPattern(p)
                                              THEN [receiver[s] EXCEPT !.open = FALSE] ELSE receiver[s]]
    BY DEF UnsubscribeAll
  <1>2. /\ IsFiniteSet(subscriptions') /\ Cardinality(subscriptions') \in Nat
        /\ Cardinality(subscriptions') <= Cardinality(subscriptions) /\ Cardinality(subscriptions) \in Nat
    BY <1>0, <1>1, FS_Subset, FS_CardinalityType DEF PubSubType
  <1>3. ASSUME NEW s \in Subscribers
        PROVE  /\ receiver'[s] \in Receiver /\ receiver'[s].pattern = receiver[s].pattern
               /\ receiver'[s].unread = receiver[s].unread /\ receiver'[s].read = receiver[s].read
               /\ receiver'[s].lagged = receiver[s].lagged
               /\ receiver'[s].open => receiver[s].open /\ receiver[s].pattern # p
               /\ s \notin OnPattern(p) => receiver'[s] = receiver[s]
    BY <1>0, <1>1 DEF PubSubType, Receiver, OnPattern
  <1>4. \A s \in Subscribers : (Once(receiver'[s]) <=> Once(receiver[s])) /\ \A m : Holds(receiver'[s], m) <=> Holds(receiver[s], m)
    BY <1>3 DEF Once, Holds, InLine
  <1>5. PubSubType'
    BY <1>0, <1>1, <1>2, <1>3 DEF PubSubType
  <1>6. WalksApart'
    <2>1. \A w \in Publishers : p \notin walk[w].left
      BY <1>0, <1>1 DEF WalksApart, Locked
    <2> QED BY <1>0, <1>1, <2>1 DEF WalksApart
  <1>7. OpenOnes'
    <2>1. \A s \in Subscribers : subscribing[s] # <<>> => receiver'[s] = NoReceiver
      BY <1>0, <1>3, FreshReceiver DEF OpenOnes, OnPattern
    <2>2. \A s \in Subscribers : receiver'[s].open => receiver'[s].pattern \in subscriptions'
      <3>1. \A s \in Subscribers : receiver'[s].open => receiver[s].pattern \in subscriptions /\ receiver[s].pattern # p
        BY <1>0, <1>3 DEF OpenOnes
      <3> QED BY <1>1, <1>3, <3>1
    <2> QED BY <1>0, <1>1, <2>1, <2>2 DEF OpenOnes
  <1>8. OwedExact'
    <2>1. \A w \in Publishers : \A s \in owed'[w] : s \in owed[w] /\ s \in Subscribers /\ receiver'[s] = receiver[s]
      BY <1>0, <1>1, <1>3 DEF PubSubType
    <2>2. \A w \in Publishers : owed'[w] \subseteq owed[w]
      BY <1>1
    <2> QED BY <1>0, <1>1, <2>1, <2>2, PastStays DEF OwedExact
  <1>9. NoneTwice'
    <2>1. \A s \in Subscribers : Once(receiver'[s]) /\ \A m \in Message : Holds(receiver'[s], m) => m <= published'
      BY <1>0, <1>1, <1>4 DEF NoneTwice
    <2>2. ASSUME NEW w \in Publishers, NEW s \in Subscribers
          PROVE  (receiver[s].open /\ ~Past(w, receiver[s].pattern) => ~Holds(receiver[s], walk[w].msg))'
      <3>1. Past(w, receiver[s].pattern)' <=> Past(w, receiver[s].pattern)
        BY <1>1, <1>3 DEF Past
      <3> QED BY <1>0, <1>1, <1>3, <1>4, <3>1 DEF NoneTwice
    <2> QED BY <2>1, <2>2 DEF NoneTwice
  <1>10. RoomTaken'
    BY <1>0, <1>1, <1>2, InsertingFinite DEF RoomTaken, Inserting
  <1> QED BY <1>5, <1>6, <1>7, <1>8, <1>9, <1>10 DEF PubSubInv

\* One receiver changes and holds no more than before; what it no longer holds, and
\* is not told of, nobody owes it.
LEMMA ReceiverKeeps ==
  ASSUME PubSubInv, NEW s \in Subscribers, NEW r \in Receiver, receiver' = [receiver EXCEPT ![s] = r],
         UNCHANGED <<subscriptions, subscribing, walk, published>>,
         owed' \in [Publishers -> SUBSET Subscribers], \A w \in Publishers : owed'[w] \subseteq owed[w],
         Once(r), \A x : Holds(r, x) => Holds(receiver[s], x),
         r.open => receiver[s].open /\ r.pattern = receiver[s].pattern,
         receiver[s] = NoReceiver => r = NoReceiver,
         \A w \in Publishers : s \in owed'[w] =>
            r.open /\ (Past(w, receiver[s].pattern) => r.lagged \/ InLine(r, walk[w].msg))
  PROVE  PubSubInv'
  <1>0. PubSubType /\ WalksApart /\ OpenOnes /\ OwedExact /\ NoneTwice /\ RoomTaken
    BY DEF PubSubInv
  <1>1. receiver'[s] = r /\ \A u \in Subscribers : u # s => receiver'[u] = receiver[u]
    BY <1>0 DEF PubSubType
  <1>2. PubSubType'
    BY <1>0 DEF PubSubType
  <1>3. WalksApart' /\ RoomTaken'
    BY <1>0 DEF WalksApart, RoomTaken, Inserting
  <1>4. OpenOnes'
    BY <1>0, <1>1 DEF OpenOnes
  <1>5. OwedExact'
    <2>1. \A w \in Publishers : walk'[w] = Idle => owed'[w] = {}
      BY <1>0 DEF OwedExact
    <2>2. ASSUME NEW w \in Publishers, NEW u \in owed'[w]
          PROVE  (/\ receiver[u].open /\ MatchesPattern(receiver[u].pattern, walk[w].topic)
                  /\ Past(w, receiver[u].pattern) => receiver[u].lagged \/ InLine(receiver[u], walk[w].msg))'
      <3>0. u \in owed[w] /\ u \in Subscribers /\ walk' = walk
        BY <1>0 DEF PubSubType
      <3>1. CASE u # s
        <4>1. receiver'[u] = receiver[u]
          BY <1>1, <3>0, <3>1
        <4> QED BY <1>0, <3>0, <4>1, PastStays DEF OwedExact
      <3>2. CASE u = s
        <4>1. r.open /\ r.pattern = receiver[s].pattern /\ (Past(w, receiver[s].pattern) => r.lagged \/ InLine(r, walk[w].msg))
          BY <3>2
        <4>2. Past(w, receiver[s].pattern)' <=> Past(w, receiver[s].pattern)
          BY <1>1, <3>0, <4>1 DEF Past
        <4>3. MatchesPattern(receiver[s].pattern, walk[w].topic)
          BY <1>0, <3>0, <3>2 DEF OwedExact
        <4> QED BY <1>1, <3>0, <3>2, <4>1, <4>2, <4>3
      <3> QED BY <3>1, <3>2
    <2> QED BY <2>1, <2>2 DEF OwedExact
  <1>6. NoneTwice'
    <2>1. \A u \in Subscribers : Once(receiver'[u]) /\ \A m \in Message : Holds(receiver'[u], m) => m <= published'
      BY <1>0, <1>1 DEF NoneTwice
    <2>2. ASSUME NEW w \in Publishers, NEW u \in Subscribers
          PROVE  (receiver[u].open /\ ~Past(w, receiver[u].pattern) => ~Holds(receiver[u], walk[w].msg))'
      <3>1. CASE u # s
        <4>1. receiver'[u] = receiver[u] /\ walk' = walk
          BY <1>1, <3>1
        <4> QED BY <1>0, <4>1, PastStays DEF NoneTwice
      <3>2. CASE u = s
        <4>1. walk' = walk /\ receiver'[u] = r
          BY <1>1, <3>2
        <4>2. r.open => (Past(w, receiver[u].pattern)' <=> Past(w, receiver[u].pattern))
          BY <3>2, <4>1 DEF Past
        <4> QED BY <1>0, <3>2, <4>1, <4>2 DEF NoneTwice
      <3> QED BY <3>1, <3>2
    <2> QED BY <2>1, <2>2 DEF NoneTwice
  <1> QED BY <1>2, <1>3, <1>4, <1>5, <1>6 DEF PubSubInv

\* Whoever reads the message, or that it fell behind, is no longer owed it.
LEMMA ReceiveStep ==
  ASSUME PubSubInv, NEW s \in Subscribers, Receive(s)
  PROVE  PubSubInv'
  <1>0. /\ PubSubType /\ OwedExact /\ NoneTwice /\ receiver[s] \in Receiver /\ Once(receiver[s])
        /\ UNCHANGED <<subscriptions, subscribing, walk, published>>
    BY DEF PubSubInv, PubSubType, NoneTwice, Receive
  <1>1. receiver[s] # NoReceiver
    BY FreshReceiver DEF Receive
  <1>2. CASE receiver[s].lagged
    <2> DEFINE r == [receiver[s] EXCEPT !.lagged = FALSE]
    <2>1. /\ receiver' = [receiver EXCEPT ![s] = r]
          /\ owed' = [w \in Publishers |->
               IF s \in owed[w] /\ Past(w, receiver[s].pattern) /\ ~Unread(s, walk[w].msg)
               THEN owed[w] \ {s} ELSE owed[w]]
      BY <1>0, <1>2 DEF Receive, PubSubType
    <2>2. /\ r \in Receiver /\ r.open = receiver[s].open /\ r.pattern = receiver[s].pattern
          /\ r.unread = receiver[s].unread /\ r.read = receiver[s].read
      BY <1>0 DEF Receiver
    <2> HIDE DEF r
    <2>3. Once(r) /\ (\A x : Holds(r, x) => Holds(receiver[s], x)) /\ \A x : InLine(r, x) <=> InLine(receiver[s], x)
      BY <1>0, <2>2 DEF Once, Holds, InLine
    <2>4. owed' \in [Publishers -> SUBSET Subscribers] /\ \A w \in Publishers : owed'[w] \subseteq owed[w]
      BY <1>0, <2>1 DEF PubSubType
    <2>5. ASSUME NEW w \in Publishers, s \in owed'[w]
          PROVE  r.open /\ (Past(w, receiver[s].pattern) => r.lagged \/ InLine(r, walk[w].msg))
      <3>1. s \in owed[w] /\ (Past(w, receiver[s].pattern) => Unread(s, walk[w].msg))
        BY <2>1, <2>5
      <3>2. receiver[s].open
        BY <1>0, <3>1 DEF OwedExact
      <3> QED BY <2>2, <2>3, <3>1, <3>2 DEF Unread, InLine
    <2> QED BY <1>0, <1>1, <2>1, <2>2, <2>3, <2>4, <2>5, ReceiverKeeps
  <1>3. CASE ~receiver[s].lagged
    <2> DEFINE h == Head(receiver[s].unread)
               r == [receiver[s] EXCEPT !.unread = Tail(receiver[s].unread), !.read = receiver[s].read \cup {h}]
    <2>1. /\ receiver[s].unread # <<>> /\ receiver' = [receiver EXCEPT ![s] = r]
          /\ owed' = [w \in Publishers |-> IF walk[w].msg = h THEN owed[w] \ {s} ELSE owed[w]]
      BY <1>3 DEF Receive
    <2>2. /\ r \in Receiver /\ r.open = receiver[s].open /\ r.pattern = receiver[s].pattern /\ r.lagged = receiver[s].lagged
          /\ Once(r) /\ (\A x : Holds(r, x) => Holds(receiver[s], x)) /\ \A x : x # h /\ InLine(receiver[s], x) => InLine(r, x)
      BY <1>0, <2>1, TakenIs
    <2> HIDE DEF r, h
    <2>4. owed' \in [Publishers -> SUBSET Subscribers] /\ \A w \in Publishers : owed'[w] \subseteq owed[w]
      BY <1>0, <2>1 DEF PubSubType
    <2>5. ASSUME NEW w \in Publishers, s \in owed'[w]
          PROVE  r.open /\ (Past(w, receiver[s].pattern) => r.lagged \/ InLine(r, walk[w].msg))
      <3>1. s \in owed[w] /\ walk[w].msg # h
        BY <2>1, <2>5
      <3>2. receiver[s].open /\ (Past(w, receiver[s].pattern) => InLine(receiver[s], walk[w].msg))
        BY <1>0, <1>3, <3>1 DEF OwedExact
      <3> QED BY <2>2, <3>1, <3>2
    <2> QED BY <1>0, <1>1, <2>1, <2>2, <2>4, <2>5, ReceiverKeeps
  <1> QED BY <1>2, <1>3

\* A receiver that is dropped takes with it what it was owed.
LEMMA DropStep ==
  ASSUME PubSubInv, NEW s \in Subscribers, DropReceiver(s)
  PROVE  PubSubInv'
  <1>0. PubSubType /\ UNCHANGED <<subscriptions, subscribing, walk, published>>
    BY DEF PubSubInv, DropReceiver
  <1>1. receiver' = [receiver EXCEPT ![s] = NoReceiver] /\ owed' = [w \in Publishers |-> owed[w] \ {s}]
    BY DEF DropReceiver
  <1>2. owed' \in [Publishers -> SUBSET Subscribers] /\ \A w \in Publishers : owed'[w] \subseteq owed[w] /\ s \notin owed'[w]
    BY <1>0, <1>1 DEF PubSubType
  <1> QED BY <1>0, <1>1, <1>2, FreshReceiver, ReceiverKeeps

LEMMA PubSubStep ==
  ASSUME PubSubInv, [PubSubNext]_psVars
  PROVE  PubSubInv'
  <1>1. CASE UNCHANGED psVars
    <2>1. UNCHANGED <<subscriptions, receiver, subscribing, walk, published, owed>>
      BY <1>1 DEF psVars
    <2>2. PubSubType' /\ WalksApart' /\ OpenOnes' /\ RoomTaken'
      BY <2>1 DEF PubSubInv, PubSubType, WalksApart, OpenOnes, RoomTaken, Inserting
    <2>3. OwedExact' /\ NoneTwice'
      BY <2>1, PastStays DEF PubSubInv, OwedExact, NoneTwice
    <2> QED BY <2>2, <2>3 DEF PubSubInv
  <1>2. CASE PubSubNext
    BY <1>2, SubscribeStep, InsertStep, NextShardStep, VisitStep, PublishStep, UnsubscribeStep, ReceiveStep, DropStep
       DEF PubSubNext
  <1> QED BY <1>1, <1>2

LEMMA PubSubStarts ==
  ASSUME PubSubInit
  PROVE  PubSubInv
  <1>1. PubSubType
    <2>1. Idle \in [msg : Nat, topic : Seq(STRING), shard : Nat, left : SUBSET Patterns]
      BY DEF Idle, Walk
    <2>2. <<>> \in Seq(STRING)
      OBVIOUS
    <2> QED BY <2>1, <2>2, FS_EmptySet, FreshReceiver DEF PubSubInit, PubSubType
  <1>2. WalksApart
    BY DEF PubSubInit, WalksApart, Idle, Walk
  <1>3. OpenOnes /\ OwedExact
    BY FreshReceiver DEF PubSubInit, OpenOnes, OwedExact
  <1>4. NoneTwice
    BY FreshReceiver DEF PubSubInit, NoneTwice
  <1>5. Inserting = {} /\ subscriptions = {}
    BY DEF PubSubInit, Inserting
  <1>6. Cardinality(Subscribers) \in Nat /\ MaxPatterns \in Nat \ {0}
    BY PubSubAssumption, FS_CardinalityType
  <1>7. RoomTaken
    BY <1>5, <1>6, FS_EmptySet DEF RoomTaken
  <1> QED BY <1>1, <1>2, <1>3, <1>4, <1>7 DEF PubSubInv

\* Publish and subscribe (pubsub.rs): for any patterns, topics, subscribers,
\* publishers, shards and limits, the matcher is exact, whoever was on a matching
\* pattern from the beginning of a publish has its message, has read it or is told
\* that it fell behind once the walk has been there, nobody has a message twice, and
\* racing subscribers pass the limit on patterns by less than their number.
THEOREM FanOutIsExact == StoresSpec => []FanOutExact
  <1>1. StoresInit => PubSubInv
    BY PubSubStarts DEF StoresInit
  <1>2. PubSubInv /\ [StoresNext]_storesVars => PubSubInv'
    BY EachStore, PubSubStep
  <1>3. PubSubInv => FanOutExact
    <2> SUFFICES ASSUME PubSubInv PROVE FanOutExact
      OBVIOUS
    <2>1. \A w \in Publishers : \A s \in owed[w] :
            Past(w, receiver[s].pattern) => receiver[s].lagged \/ Unread(s, walk[w].msg)
      BY DEF PubSubInv, OwedExact, InLine, Unread
    <2>2. \A s \in Subscribers : LET r == receiver[s] IN
            \A i \in DOMAIN r.unread : r.unread[i] \notin r.read /\ \A j \in DOMAIN r.unread : r.unread[j] = r.unread[i] => j = i
      BY DEF PubSubInv, NoneTwice, Once
    <2>3. Cardinality(subscriptions) < MaxPatterns + Cardinality(Subscribers)
      BY InsertingFinite DEF PubSubInv, RoomTaken
    <2> QED BY <2>1, <2>2, <2>3, MatcherIsExact DEF FanOutExact
  <1> QED BY <1>1, <1>2, <1>3, PTL DEF StoresSpec

-----------------------------------------------------------------------------
(* Least and greatest elements.                                            *)

LEMMA LeastNat ==
  ASSUME NEW S \in SUBSET Nat, S # {}
  PROVE  \E x \in S : \A y \in S : x <= y
  <1>1. PICK x \in S : \A y \in S : ~(<<y, x>> \in OpToRel(<, Nat))
    <2>1. IsWellFoundedOn(OpToRel(<, Nat), Nat)
      BY NatLessThanWellFounded
    <2> QED BY <2>1, WFMin, Zenon
  <1>2. \A y \in S : ~(y < x)
    BY <1>1 DEF OpToRel
  <1> QED BY <1>2

\* Induction on the number of elements of a set, for sets of a family.
LEMMA SizeInduction ==
  ASSUME NEW T, IsFiniteSet(T), NEW G, {} \in G,
         \A A \in SUBSET T : \A x \in T \ A : A \in G => A \cup {x} \in G
  PROVE  T \in G
  <1> DEFINE W == {n \in Nat : \A A \in SUBSET T : Cardinality(A) = n => A \in G}
  <1>0. \A A \in SUBSET T : IsFiniteSet(A) /\ Cardinality(A) \in Nat
    BY FS_Subset, FS_CardinalityType
  <1>1. 0 \in W
    BY <1>0, FS_EmptySet
  <1>2. ASSUME NEW n \in W PROVE n + 1 \in W
    <2> SUFFICES ASSUME NEW A \in SUBSET T, Cardinality(A) = n + 1 PROVE A \in G
      OBVIOUS
    <2>1. A # {}
      BY FS_EmptySet
    <2>2. PICK x \in A : TRUE
      BY <2>1
    <2>3. A \ {x} \in SUBSET T /\ x \in T \ (A \ {x}) /\ (A \ {x}) \cup {x} = A
      OBVIOUS
    <2>4. Cardinality(A \ {x}) = n
      BY <1>0, FS_RemoveElement
    <2> QED BY <2>3, <2>4
  <1>3. Nat \subseteq W
    <2> HIDE DEF W
    <2> QED BY <1>1, <1>2, SetInduction
  <1> QED BY <1>0, <1>3

LEMMA GreatestInt ==
  ASSUME NEW T \in SUBSET Int, IsFiniteSet(T), T # {}
  PROVE  /\ \E x \in T : \A y \in T : x >= y
         /\ \E x \in T : \A y \in T : x <= y
  <1> DEFINE G == {A \in SUBSET T : A # {} => /\ \E x \in A : \A y \in A : x >= y
                                             /\ \E x \in A : \A y \in A : x <= y}
  <1>1. {} \in G
    OBVIOUS
  <1>2. ASSUME NEW A \in SUBSET T, NEW x \in T \ A, A \in G PROVE A \cup {x} \in G
    <2>1. CASE A = {}
      BY <2>1
    <2>2. CASE A # {}
      <3>1. PICK a \in A : \A y \in A : a >= y
        BY <1>2, <2>2
      <3>2. PICK b \in A : \A y \in A : b <= y
        BY <1>2, <2>2
      <3>3. \E z \in A \cup {x} : \A y \in A \cup {x} : z >= y
        <4>1. CASE a >= x
          BY <3>1, <4>1
        <4>2. CASE ~(a >= x)
          <5>1. \A y \in A : x >= y
            BY <3>1, <4>2
          <5> QED BY <5>1
        <4> QED BY <4>1, <4>2
      <3>4. \E z \in A \cup {x} : \A y \in A \cup {x} : z <= y
        <4>1. CASE b <= x
          BY <3>2, <4>1
        <4>2. CASE ~(b <= x)
          <5>1. \A y \in A : x <= y
            BY <3>2, <4>2
          <5> QED BY <5>1
        <4> QED BY <4>1, <4>2
      <3> QED BY <3>3, <3>4
    <2> QED BY <2>1, <2>2
  <1>3. T \in G
    <2> HIDE DEF G
    <2> QED BY <1>1, <1>2, SizeInduction
  <1> QED BY <1>3

LEMMA MaxMin ==
  ASSUME NEW T \in SUBSET Int, IsFiniteSet(T), T # {}
  PROVE  /\ Max(T) \in T /\ \A y \in T : y <= Max(T)
         /\ Min(T) \in T /\ \A y \in T : Min(T) <= y
  <1>1. Max(T) \in T /\ \A y \in T : Max(T) >= y
    BY GreatestInt DEF Max
  <1>2. Min(T) \in T /\ \A y \in T : Min(T) <= y
    BY GreatestInt DEF Min
  <1> QED BY <1>1, <1>2

\* Of the indices of a finite set with the least key, the first.
LEMMA FirstOfBest ==
  ASSUME NEW C \in SUBSET Nat, C # {}, IsFiniteSet(C), NEW f \in [C -> Int]
  PROVE  \E i \in C : \A j \in C : f[i] < f[j] \/ (f[i] = f[j] /\ i <= j)
  <1> DEFINE K == {f[i] : i \in C}
  <1>1. IsFiniteSet(K) /\ K \in SUBSET Int /\ K # {}
    <2>1. f \in Surjection(C, K)
      BY DEF Surjection
    <2> QED BY <2>1, FS_Surjection
  <1>2. PICK k \in K : \A y \in K : k <= y
    BY <1>1, GreatestInt
  <1> DEFINE D == {i \in C : f[i] = k}
  <1>3. D \in SUBSET Nat /\ D # {}
    OBVIOUS
  <1>4. PICK i \in D : \A j \in D : i <= j
    BY <1>3, LeastNat
  <1>5. \A j \in C : f[i] < f[j] \/ (f[i] = f[j] /\ i <= j)
    BY <1>2, <1>4
  <1> QED BY <1>5

-----------------------------------------------------------------------------
(* The plan cache and the conversation: Memory.                            *)

Entries == [key : PlanKeys, plan : CrewShapes, created : Nat, accessed : Nat]

\* An entry was made when its plan was inserted, and used only while it was good.
PlanEntry(e) ==
    /\ lastPlan[e.key] = [of |-> e.plan, at |-> e.created]
    /\ e.created <= e.accessed /\ e.accessed <= planClock
    /\ e.created < e.accessed => e.accessed - e.created <= PlanTTL

PlansInv ==
    /\ planClock \in Nat /\ plans \subseteq Entries /\ IsFiniteSet(plans) /\ DOMAIN lastPlan = PlanKeys
    /\ Cardinality(plans) <= MaxCachedPlans
    /\ \A e, f \in plans : e.key = f.key => e = f
    /\ \A e \in plans : PlanEntry(e)

LEMMA GetPlanStep ==
  ASSUME PlansInv, NEW c \in CrewShapes, GetPlan(c)
  PROVE  PlansInv'
  <1> DEFINE k == PlanKey(c)
             found == Under(k)
             fresh == {e \in found : ~Expired(e)}
  <1>0. /\ planClock \in Nat /\ plans \subseteq Entries /\ IsFiniteSet(plans) /\ Cardinality(plans) <= MaxCachedPlans
        /\ DOMAIN lastPlan = PlanKeys
        /\ \A e, f \in plans : e.key = f.key => e = f
        /\ \A e \in plans : PlanEntry(e)
    BY DEF PlansInv
  <1>1. /\ plans' = (plans \ found) \cup {[e EXCEPT !.accessed = planClock] : e \in fresh}
        /\ planClock' = planClock /\ lastPlan' = lastPlan
    BY DEF GetPlan
  <1>2. CASE found = {}
    <2>1. plans' = plans
      BY <1>1, <1>2
    <2> QED BY <1>0, <1>1, <2>1 DEF PlansInv, PlanEntry
  <1>3. ASSUME NEW x \in found PROVE PlansInv'
    <2>1. x \in plans /\ x.key = k /\ found = {x}
      BY <1>0 DEF Under
    <2>2. CASE Expired(x)
      <3>1. plans' = plans \ {x}
        BY <1>1, <2>1, <2>2
      <3>2. IsFiniteSet(plans') /\ Cardinality(plans') <= MaxCachedPlans
        <4>1. IsFiniteSet(plans \ {x}) /\ Cardinality(plans \ {x}) = Cardinality(plans) - 1 /\ Cardinality(plans) \in Nat
          BY <1>0, <2>1, FS_RemoveElement, FS_CardinalityType
        <4> QED BY <1>0, <3>1, <4>1, PlanCacheAssumption
      <3> QED BY <1>0, <1>1, <3>1, <3>2 DEF PlansInv, PlanEntry
    <2>3. CASE ~Expired(x)
      <3> DEFINE y == [x EXCEPT !.accessed = planClock]
      <3>1. plans' = (plans \ {x}) \cup {y}
        BY <1>1, <2>1, <2>3
      <3>2. x \in Entries /\ PlanEntry(x)
        BY <1>0, <2>1
      <3>3. y \in Entries /\ y.key = x.key /\ y.plan = x.plan /\ y.created = x.created /\ y.accessed = planClock
        BY <1>0, <3>2 DEF Entries
      <3>4. IsFiniteSet(plans') /\ Cardinality(plans') <= MaxCachedPlans
        <4>1. IsFiniteSet(plans \ {x}) /\ Cardinality(plans \ {x}) = Cardinality(plans) - 1 /\ Cardinality(plans) \in Nat
          BY <1>0, <2>1, FS_RemoveElement, FS_CardinalityType
        <4> HIDE DEF y
        <4>2. /\ IsFiniteSet((plans \ {x}) \cup {y})
              /\ Cardinality((plans \ {x}) \cup {y}) \in {Cardinality(plans \ {x}), Cardinality(plans \ {x}) + 1}
          BY <4>1, FS_AddElement
        <4> QED BY <1>0, <3>1, <4>1, <4>2, PlanCacheAssumption
      <3>5. y.accessed - y.created <= PlanTTL /\ y.created <= y.accessed
        BY <1>0, <2>3, <3>2, <3>3, PlanCacheAssumption DEF Expired, PlanEntry, Entries
      <3>6. PlanEntry(y)'
        BY <1>0, <1>1, <3>2, <3>3, <3>5 DEF PlanEntry
      <3>7. \A e \in plans' : PlanEntry(e)'
        BY <1>0, <1>1, <3>1, <3>6 DEF PlanEntry
      <3>8. \A e, f \in plans' : e.key = f.key => e = f
        <4>1. \A e \in plans' : e = y \/ (e \in plans /\ e.key # y.key)
          BY <1>0, <2>1, <3>1, <3>3
        <4> HIDE DEF y
        <4> QED BY <1>0, <4>1
      <3> QED BY <1>0, <1>1, <3>1, <3>3, <3>4, <3>7, <3>8 DEF PlansInv
    <2> QED BY <2>2, <2>3
  <1> QED BY <1>2, <1>3

LEMMA InsertPlanStep ==
  ASSUME PlansInv, NEW c \in CrewShapes, InsertPlan(c)
  PROVE  PlansInv'
  <1> DEFINE k == PlanKey(c)
             new == [key |-> k, plan |-> c, created |-> planClock, accessed |-> planClock]
  <1>0. /\ planClock \in Nat /\ plans \subseteq Entries /\ IsFiniteSet(plans) /\ Cardinality(plans) <= MaxCachedPlans
        /\ DOMAIN lastPlan = PlanKeys
        /\ \A e, f \in plans : e.key = f.key => e = f
        /\ \A e \in plans : PlanEntry(e)
        /\ Cardinality(plans) \in Nat /\ MaxCachedPlans \in Nat \ {0}
    BY FS_CardinalityType, PlanCacheAssumption DEF PlansInv
  <1>1. /\ planClock' = planClock /\ k \in PlanKeys
        /\ lastPlan' = [lastPlan EXCEPT ![k] = [of |-> c, at |-> planClock]]
    BY DEF InsertPlan, PlanKeys
  <1>2. PICK out \in IF Cardinality(plans) < MaxCachedPlans THEN {{}}
                     ELSE {{e} : e \in {x \in plans : \A y \in plans : x.accessed <= y.accessed}} :
          plans' = {e \in plans \ out : e.key # k} \cup {new}
    BY DEF InsertPlan
  <1> DEFINE rest == {e \in plans \ out : e.key # k}
  <1>3. IsFiniteSet(rest) /\ Cardinality(rest) < MaxCachedPlans /\ Cardinality(rest) \in Nat
    <2>1. rest \in SUBSET (plans \ out) /\ rest \in SUBSET plans
      OBVIOUS
    <2>2. IsFiniteSet(rest) /\ Cardinality(rest) \in Nat /\ Cardinality(rest) <= Cardinality(plans)
      BY <1>0, <2>1, FS_Subset, FS_CardinalityType
    <2>3. CASE Cardinality(plans) < MaxCachedPlans
      BY <1>0, <2>2, <2>3
    <2>4. CASE ~(Cardinality(plans) < MaxCachedPlans)
      <3>1. PICK e \in plans : out = {e}
        BY <1>2, <2>4
      <3>2. IsFiniteSet(plans \ {e}) /\ Cardinality(plans \ {e}) = Cardinality(plans) - 1
        BY <1>0, FS_RemoveElement
      <3>3. Cardinality(rest) <= Cardinality(plans \ {e})
        BY <2>1, <3>1, <3>2, FS_Subset
      <3> QED BY <1>0, <2>2, <3>2, <3>3
    <2> QED BY <2>3, <2>4
  <1>4. IsFiniteSet(plans') /\ Cardinality(plans') <= MaxCachedPlans
    <2>1. IsFiniteSet(rest \cup {new}) /\ Cardinality(rest \cup {new}) \in {Cardinality(rest), Cardinality(rest) + 1}
      <3> HIDE DEF rest, new
      <3> QED BY <1>3, FS_AddElement
    <2>2. Cardinality(rest \cup {new}) \in Nat
      BY <2>1, FS_CardinalityType
    <2> QED BY <1>0, <1>2, <1>3, <2>1, <2>2
  <1>5. new \in Entries
    BY <1>0, <1>1 DEF Entries
  <1>6. \A e \in plans' : e = new \/ (e \in plans /\ e.key # k)
    BY <1>2
  <1>7. \A e \in plans' : e = new => PlanEntry(e)'
    BY <1>0, <1>1 DEF PlanEntry
  <1>8. \A e \in plans' : e \in plans /\ e.key # k => PlanEntry(e)'
    BY <1>0, <1>1 DEF PlanEntry, Entries
  <1>9. \A e, f \in plans' : e.key = f.key => e = f
    BY <1>0, <1>6
  <1> QED BY <1>0, <1>1, <1>4, <1>5, <1>6, <1>7, <1>8, <1>9 DEF PlansInv

LEMMA PlanStep ==
  ASSUME PlansInv, [PlanNext]_planVars
  PROVE  PlansInv'
  <1>1. CASE UNCHANGED planVars
    BY <1>1 DEF planVars, PlansInv, PlanEntry
  <1>2. CASE PlanTick
    <2>1. planClock' = planClock + 1 /\ plans' = plans /\ lastPlan' = lastPlan /\ planClock \in Nat
      BY <1>2 DEF PlanTick, PlansInv
    <2>2. ASSUME NEW e \in plans PROVE PlanEntry(e)'
      <3>1. PlanEntry(e) /\ e \in Entries
        BY DEF PlansInv
      <3>2. e.accessed \in Nat
        BY <3>1 DEF Entries
      <3> QED BY <2>1, <3>1, <3>2 DEF PlanEntry
    <2> QED BY <2>1, <2>2 DEF PlansInv
  <1> QED BY <1>1, <1>2, GetPlanStep, InsertPlanStep DEF PlanNext

\* The plan cache (plan_cache.rs): for any crews, capacity and lifetime, the cache
\* never outgrows its capacity, has one plan a key and that the latest, and answers
\* with none that has outlived its time, however often it was used.
THEOREM PlansAreSound == StoresSpec => []PlansSound
  <1>1. StoresInit => PlansInv
    <2> SUFFICES ASSUME PlanInit PROVE PlansInv
      BY DEF StoresInit
    <2> QED BY FS_EmptySet, PlanCacheAssumption DEF PlanInit, PlansInv
  <1>2. PlansInv /\ [StoresNext]_storesVars => PlansInv'
    BY EachStore, PlanStep
  <1>3. PlansInv => PlansSound
    <2> SUFFICES ASSUME PlansInv PROVE PlansSound
      OBVIOUS
    <2>1. ASSUME NEW e \in plans PROVE Cardinality(Under(e.key)) = 1
      <3>1. Under(e.key) = {e}
        BY DEF PlansInv, Under
      <3> QED BY <3>1, FS_Singleton
    <2>2. ASSUME NEW e \in plans
          PROVE  /\ lastPlan[e.key].of = e.plan
                 /\ e.accessed = planClock /\ e.created < planClock => planClock - lastPlan[e.key].at <= PlanTTL
      <3>1. PlanEntry(e)
        BY DEF PlansInv
      <3>2. lastPlan[e.key].of = e.plan /\ lastPlan[e.key].at = e.created
        BY <3>1 DEF PlanEntry
      <3>3. e.accessed = planClock /\ e.created < planClock => planClock - e.created <= PlanTTL
        BY <3>1 DEF PlanEntry
      <3> QED BY <3>2, <3>3
    <2>4. Cardinality(plans) <= MaxCachedPlans
      BY DEF PlansInv
    <2> QED BY <2>1, <2>2, <2>4 DEF PlansSound
  <1> QED BY <1>1, <1>2, <1>3, PTL DEF StoresSpec

-----------------------------------------------------------------------------
\* The last n of a sequence.
LEMMA LastOfIs ==
  ASSUME NEW S, NEW s \in Seq(S), NEW n \in 0..Len(s)
  PROVE  /\ LastOf(s, n) \in Seq(S) /\ Len(LastOf(s, n)) = n
         /\ \A i \in 1..n : LastOf(s, n)[i] = s[Len(s) - n + i]
  <1>1. Len(s) \in Nat /\ n \in Nat /\ n <= Len(s)
    OBVIOUS
  <1> DEFINE a == Len(s) - n + 1
             b == Len(s)
  <1>2. a \in Int /\ b \in Int /\ \A i \in a..b : s[i] \in S
    BY <1>1
  <1>3. b - a + 1 = n /\ \A i \in 1..n : a + i - 1 = Len(s) - n + i
    BY <1>1
  <1>4. LastOf(s, n) = SubSeq(s, a, b)
    BY DEF LastOf
  <1>5. /\ SubSeq(s, a, b) \in Seq(S)
        /\ Len(SubSeq(s, a, b)) = IF a <= b THEN b - a + 1 ELSE 0
        /\ \A i \in 1..(b - a + 1) : SubSeq(s, a, b)[i] = s[a + i - 1]
    <2> HIDE DEF a, b
    <2> QED BY <1>2, SubSeqProperties
  <1>6. (IF a <= b THEN b - a + 1 ELSE 0) = n
    BY <1>1
  <1> QED BY <1>3, <1>4, <1>5, <1>6

\* What the strategy makes of the whole conversation.
Kept(s) == IF window = 0 \/ Len(s) <= window THEN s
           ELSE IF strategy = "sliding" \/ window = 1 THEN LastOf(s, window)
           ELSE <<s[1]>> \o LastOf(s, window - 1)

TalkInv ==
    /\ strategy \in {"full", "sliding", "headtail"} /\ window \in Nat /\ turns \in Nat
    /\ strategy = "full" => window = 0
    /\ spoken \in Seq(Nat) /\ messages = Kept(spoken)

\* Trimming what was kept and the next message keeps the same as trimming all.
LEMMA TrimIs ==
  ASSUME TalkInv, NEW x \in Nat
  PROVE  Trim(Append(messages, x)) = Kept(Append(spoken, x))
  <1> DEFINE s == spoken
             t == Append(spoken, x)
             w == window
  <1>0. /\ s \in Seq(Nat) /\ t \in Seq(Nat) /\ Len(t) = Len(s) + 1 /\ Len(s) \in Nat /\ w \in Nat /\ t[Len(t)] = x
        /\ \A i \in 1..Len(s) : t[i] = s[i]
        /\ strategy \in {"full", "sliding", "headtail"} /\ (strategy = "full" => w = 0) /\ messages = Kept(s)
    BY DEF TalkInv
  <1>1. CASE w = 0 \/ Len(t) <= w
    <2>1. messages = s
      BY <1>0, <1>1 DEF Kept
    <2> QED BY <1>0, <1>1, <2>1 DEF Kept, Trim
  <1>2. CASE ~(w = 0 \/ Len(t) <= w)
    <2>0. w \in Nat \ {0} /\ w <= Len(s) /\ strategy # "full"
      BY <1>0, <1>2
    <2>1. CASE strategy = "sliding" \/ w = 1
      <3>1. Kept(t) = LastOf(t, w)
        BY <1>2, <2>1 DEF Kept
      <3>2. messages \in Seq(Nat) /\ Len(messages) = w /\ \A i \in 1..w : messages[i] = s[Len(s) - w + i]
        <4>1. CASE Len(s) <= w
          BY <1>0, <2>0, <4>1 DEF Kept
        <4>2. CASE ~(Len(s) <= w)
          <5>1. messages = LastOf(s, w)
            BY <1>0, <2>0, <2>1, <4>2 DEF Kept
          <5>2. w \in 0..Len(s)
            BY <1>0, <2>0
          <5>3. LastOf(s, w) \in Seq(Nat) /\ Len(LastOf(s, w)) = w /\ \A i \in 1..w : LastOf(s, w)[i] = s[Len(s) - w + i]
            BY <1>0, <5>2, LastOfIs
          <5> QED BY <5>1, <5>3
        <4> QED BY <4>1, <4>2
      <3> DEFINE u == Append(messages, x)
      <3>3. u \in Seq(Nat) /\ Len(u) = w + 1 /\ u[w + 1] = x /\ \A i \in 1..w : u[i] = messages[i]
        BY <1>0, <3>2
      <3>4. Trim(u) = LastOf(u, w)
        <4>1. ~(w = 0 \/ Len(u) <= w)
          BY <2>0, <3>3
        <4>2. CASE strategy = "sliding"
          BY <4>1, <4>2 DEF Trim
        <4>3. CASE strategy = "headtail"
          BY <4>1, <4>3, <2>1 DEF Trim, TrimHeadTail
        <4> QED BY <4>2, <4>3, <1>0, <2>0
      <3>5. LastOf(u, w) \in Seq(Nat) /\ Len(LastOf(u, w)) = w /\ \A i \in 1..w : LastOf(u, w)[i] = u[i + 1]
        <4>1. w \in 0..Len(u) /\ \A i \in 1..w : Len(u) - w + i = i + 1
          BY <2>0, <3>3
        <4>2. /\ LastOf(u, w) \in Seq(Nat) /\ Len(LastOf(u, w)) = w
              /\ \A i \in 1..w : LastOf(u, w)[i] = u[Len(u) - w + i]
          BY <3>3, <4>1, LastOfIs
        <4> QED BY <4>1, <4>2
      <3>6. LastOf(t, w) \in Seq(Nat) /\ Len(LastOf(t, w)) = w /\ \A i \in 1..w : LastOf(t, w)[i] = t[Len(t) - w + i]
        <4>1. w \in 0..Len(t)
          BY <1>0, <2>0
        <4> QED BY <1>0, <4>1, LastOfIs
      <3>7. \A i \in 1..w : u[i + 1] = t[Len(t) - w + i]
        <4> SUFFICES ASSUME NEW i \in 1..w PROVE u[i + 1] = t[Len(t) - w + i]
          OBVIOUS
        <4>1. CASE i = w
          BY <4>1, <1>0, <2>0, <3>3
        <4>2. CASE i # w
          <5>1. i + 1 \in 1..w /\ Len(s) - w + (i + 1) \in 1..Len(s) /\ Len(s) - w + (i + 1) = Len(t) - w + i
            BY <4>2, <1>0, <2>0
          <5>2. u[i + 1] = s[Len(s) - w + (i + 1)]
            BY <5>1, <3>2, <3>3
          <5>3. t[Len(s) - w + (i + 1)] = s[Len(s) - w + (i + 1)]
            BY <5>1, <1>0
          <5> QED BY <5>1, <5>2, <5>3
        <4> QED BY <4>1, <4>2
      <3>8. LastOf(u, w) = LastOf(t, w)
        <4>1. \A i \in 1..w : LastOf(u, w)[i] = LastOf(t, w)[i]
          BY <3>5, <3>6, <3>7
        <4> HIDE DEF u, t
        <4> QED BY <4>1, <3>5, <3>6, SeqEqual
      <3> QED BY <3>1, <3>4, <3>8
    <2>2. CASE strategy = "headtail" /\ w # 1
      <3> DEFINE v == w - 1
      <3>0. v \in Nat \ {0} /\ v \in 0..Len(s) /\ v \in 0..Len(t)
        BY <2>0, <2>2, <1>0
      <3>1. Kept(t) = <<t[1]>> \o LastOf(t, v)
        BY <1>2, <2>2 DEF Kept
      <3>2. messages \in Seq(Nat) /\ Len(messages) = w /\ messages[1] = s[1] /\ \A i \in 2..w : messages[i] = s[Len(s) - w + i]
        <4>1. CASE Len(s) <= w
          BY <1>0, <2>0, <4>1 DEF Kept
        <4>2. CASE ~(Len(s) <= w)
          <5>1. messages = <<s[1]>> \o LastOf(s, v)
            BY <1>0, <2>0, <2>2, <4>2 DEF Kept
          <5>2. LastOf(s, v) \in Seq(Nat) /\ Len(LastOf(s, v)) = v /\ \A i \in 1..v : LastOf(s, v)[i] = s[Len(s) - v + i]
            BY <1>0, <3>0, LastOfIs
          <5>3. <<s[1]>> \in Seq(Nat) /\ Len(<<s[1]>>) = 1 /\ <<s[1]>>[1] = s[1]
            BY <1>0, <2>0
          <5>4. /\ messages \in Seq(Nat) /\ Len(messages) = 1 + v
                /\ \A i \in 1..(1 + v) : messages[i] = IF i <= 1 THEN <<s[1]>>[i] ELSE LastOf(s, v)[i - 1]
            <6> HIDE DEF v
            <6> QED BY <5>1, <5>2, <5>3, ConcatProperties
          <5>5. ASSUME NEW i \in 2..w PROVE messages[i] = s[Len(s) - w + i]
            <6>1. i \in 1..(1 + v) /\ ~(i <= 1) /\ i - 1 \in 1..v /\ Len(s) - v + (i - 1) = Len(s) - w + i
              BY <2>0, <1>0
            <6> QED BY <6>1, <5>2, <5>4
          <5>6. messages[1] = s[1] /\ 1 + v = w
            BY <5>3, <5>4, <3>0, <2>0
          <5> QED BY <5>4, <5>5, <5>6
        <4> QED BY <4>1, <4>2
      <3> DEFINE u == Append(messages, x)
      <3>3. u \in Seq(Nat) /\ Len(u) = w + 1 /\ u[w + 1] = x /\ \A i \in 1..w : u[i] = messages[i]
        BY <1>0, <3>2
      <3>4. Trim(u) = <<u[1]>> \o LastOf(u, v)
        <4>1. ~(w = 0 \/ Len(u) <= w) /\ Len(u) - (w - 1) > 1
          BY <2>0, <3>3
        <4>2. Trim(u) = TrimHeadTail(u)
          BY <4>1, <2>2 DEF Trim
        <4> QED BY <4>1, <4>2, <2>2 DEF TrimHeadTail
      <3>5. u[1] = t[1]
        BY <3>2, <3>3, <1>0, <2>0
      <3>6. /\ LastOf(u, v) \in Seq(Nat) /\ Len(LastOf(u, v)) = v
            /\ \A i \in 1..v : LastOf(u, v)[i] = u[Len(u) - v + i]
        <4>1. v \in 0..Len(u)
          BY <3>0, <3>3, <2>0
        <4> QED BY <4>1, <3>3, LastOfIs
      <3>7. LastOf(t, v) \in Seq(Nat) /\ Len(LastOf(t, v)) = v /\ \A i \in 1..v : LastOf(t, v)[i] = t[Len(t) - v + i]
        BY <1>0, <3>0, LastOfIs
      <3>8. ASSUME NEW i \in 1..v PROVE LastOf(u, v)[i] = LastOf(t, v)[i]
        <4>0. Len(u) - v + i = i + 2
          BY <3>3, <2>0
        <4>1. CASE i = v
          <5>1. Len(u) - v + i = w + 1 /\ Len(t) - v + i = Len(t)
            BY <4>1, <3>3, <1>0, <2>0
          <5> QED BY <5>1, <3>3, <3>6, <3>7, <1>0
        <4>2. CASE i # v
          <5>1. /\ i + 2 \in 2..w /\ i + 2 \in 1..w /\ Len(s) - w + (i + 2) \in 1..Len(s)
                /\ Len(s) - w + (i + 2) = Len(t) - v + i
            BY <4>2, <1>0, <2>0
          <5>2. u[i + 2] = s[Len(s) - w + (i + 2)]
            BY <5>1, <3>2, <3>3
          <5>3. t[Len(s) - w + (i + 2)] = s[Len(s) - w + (i + 2)]
            BY <5>1, <1>0
          <5>4. LastOf(u, v)[i] = u[i + 2]
            BY <3>6, <4>0
          <5>5. LastOf(t, v)[i] = t[Len(s) - w + (i + 2)]
            BY <3>7, <5>1
          <5> QED BY <5>2, <5>3, <5>4, <5>5
        <4> QED BY <4>1, <4>2
      <3>9. LastOf(u, v) = LastOf(t, v)
        <4> HIDE DEF u, t, v
        <4> QED BY <3>6, <3>7, <3>8, SeqEqual
      <3> QED BY <3>1, <3>4, <3>5, <3>9
    <2> QED BY <2>0, <2>1, <2>2, <1>0
  <1> QED BY <1>1, <1>2

\* The conversation buffer (memory.rs): for any windows and however long the
\* conversation, trimming turn by turn leaves what the strategy says of the whole.
THEOREM BufferIsExact == StoresSpec => []BufferExact
  <1>1. StoresInit => TalkInv
    <2> SUFFICES ASSUME TalkInit PROVE TalkInv
      BY DEF StoresInit
    <2>1. messages = Kept(spoken) /\ spoken \in Seq(Nat) /\ turns \in Nat
      <3>1. window \in Nat
        <4>1. window = 0 \/ window \in Windows
          BY DEF TalkInit
        <4>2. Windows \subseteq Nat /\ 0 \in Nat
          BY ConversationAssumption
        <4> QED BY <4>1, <4>2, Zenon
      <3>2. spoken = <<>> /\ messages = <<>> /\ turns = 0 /\ Len(spoken) <= window
        BY <3>1 DEF TalkInit
      <3> QED BY <3>2 DEF Kept
    <2> QED BY <2>1, ConversationAssumption DEF TalkInit, TalkInv
  <1>2. TalkInv /\ [StoresNext]_storesVars => TalkInv'
    <2> SUFFICES ASSUME TalkInv, [TalkNext]_talkVars PROVE TalkInv'
      BY EachStore
    <2>1. CASE UNCHANGED talkVars
      BY <2>1 DEF talkVars, TalkInv, Kept
    <2>2. CASE Push
      <3>1. turns' \in Nat /\ messages' = Trim(Append(messages, turns')) /\ spoken' = Append(spoken, turns')
            /\ strategy' = strategy /\ window' = window
        BY <2>2 DEF Push, TalkInv
      <3>2. messages' = Kept(Append(spoken, turns'))
        BY <3>1, TrimIs
      <3>3. messages' = Kept(spoken)'
        BY <3>1, <3>2 DEF Kept
      <3> QED BY <3>1, <3>3 DEF TalkInv
    <2>3. CASE Clear
      BY <2>3 DEF Clear, TalkInv, Kept
    <2> QED BY <2>1, <2>2, <2>3 DEF TalkNext
  <1>3. TalkInv => BufferExact
    BY DEF TalkInv, BufferExact, Kept
  <1> QED BY <1>1, <1>2, <1>3, PTL DEF StoresSpec

-----------------------------------------------------------------------------
(* Spending: Budgets.                                                      *)

Charged == {w \in Callers : recording[w] # NoPrice}

BudgetType ==
    /\ tokensUsed \in Nat /\ costUnits \in Nat /\ maxTokens \in Nat \cup {NoLimit} /\ maxCost \in Nat \cup {NoLimit}
    /\ calling \subseteq Callers /\ recording \in [Callers -> [tokens : Nat, tenths : Nat]]
    /\ spent \in [calls : Nat, tenths : Nat, tokens : Nat]

\* A call that passed the check may still cost as much as the dearest one, and a
\* call that has yet to be recorded may be rounded up.
BudgetInv ==
    /\ BudgetType
    /\ maxTokens > 0 =>
         tokensUsed + Cardinality(calling) * Dearest.tokens < maxTokens + Cardinality(Callers) * Dearest.tokens
    /\ tokensUsed = spent.tokens
    /\ \A w \in calling : recording[w] = NoPrice
    /\ costUnits * 10 >= spent.tenths
    /\ costUnits * 10 + 9 * (Cardinality(calling) + Cardinality(Charged)) <= spent.tenths + 9 * spent.calls
    /\ maxTokens = 0 \/ maxCost = 0 => spent.calls = 0

LEMMA Products ==
  /\ \A a, b, d \in Nat : a <= b => a * d <= b * d
  /\ \A a, d \in Nat : a * d \in Nat /\ (a + 1) * d = a * d + d /\ 0 * d = 0
  <1>1. ASSUME NEW a \in Nat, NEW b \in Nat, NEW d \in Nat, a <= b PROVE a * d <= b * d
    <2> DEFINE c == b - a
    <2>1. c \in Nat /\ b = a + c
      BY <1>1
    <2>2. b * d = a * d + c * d /\ a * d \in Int /\ c * d \in Nat
      <3> HIDE DEF c
      <3> QED BY <2>1
    <2> QED BY <2>2
  <1>2. ASSUME NEW a \in Nat, NEW d \in Nat PROVE a * d \in Nat /\ (a + 1) * d = a * d + d /\ 0 * d = 0
    OBVIOUS
  <1> QED BY <1>1, <1>2

LEMMA DearestIs == Dearest \in Prices /\ Dearest.tokens \in Nat /\ \A p \in Prices : p.tokens <= Dearest.tokens
  <1>0. Prices # {} /\ IsFiniteSet(Prices) /\ \A p \in Prices : p.tokens \in Nat
    BY BudgetsAssumption
  <1> DEFINE f == [p \in Prices |-> p.tokens]
             K == {f[p] : p \in Prices}
  <1>1. K \in SUBSET Int /\ K # {} /\ f \in Surjection(Prices, K)
    BY <1>0 DEF Surjection
  <1>2. IsFiniteSet(K)
    <2> HIDE DEF f, K
    <2> QED BY <1>0, <1>1, FS_Surjection
  <1>3. PICK k \in K : \A y \in K : k >= y
    <2> HIDE DEF f, K
    <2> QED BY <1>1, <1>2, GreatestInt
  <1>4. PICK p \in Prices : k = p.tokens
    OBVIOUS
  <1>5. \A r \in Prices : r.tokens <= p.tokens
    BY <1>0, <1>3, <1>4
  <1>6. Dearest \in Prices /\ \A r \in Prices : r.tokens <= Dearest.tokens
    BY <1>5 DEF Dearest
  <1> QED BY <1>0, <1>6

LEMMA CallersFinite ==
  ASSUME BudgetType
  PROVE  /\ IsFiniteSet(Callers) /\ IsFiniteSet(calling) /\ IsFiniteSet(Charged)
         /\ Cardinality(Callers) \in Nat /\ Cardinality(calling) \in Nat /\ Cardinality(Charged) \in Nat
  BY BudgetsAssumption, FS_Subset, FS_CardinalityType DEF BudgetType, Charged

LEMMA CheckStep ==
  ASSUME BudgetInv, NEW w \in Callers, Check(w)
  PROVE  BudgetInv'
  <1> DEFINE D == Dearest.tokens
             n == Cardinality(calling)
  <1>0. BudgetType
    BY DEF BudgetInv
  <1>1. /\ w \notin calling /\ recording[w] = NoPrice /\ WithinBudget
        /\ calling' = calling \cup {w} /\ spent' = [spent EXCEPT !.calls = @ + 1]
        /\ tokensUsed' = tokensUsed /\ costUnits' = costUnits /\ maxTokens' = maxTokens /\ maxCost' = maxCost
        /\ recording' = recording
    BY DEF Check
  <1>2. /\ spent' \in [calls : Nat, tenths : Nat, tokens : Nat] /\ spent'.calls = spent.calls + 1
        /\ spent'.tenths = spent.tenths /\ spent'.tokens = spent.tokens
    BY <1>0, <1>1 DEF BudgetType
  <1>3. BudgetType'
    BY <1>0, <1>1, <1>2 DEF BudgetType
  <1>4. Cardinality(calling') = n + 1 /\ n \in Nat /\ Cardinality(Callers) \in Nat /\ n + 1 <= Cardinality(Callers)
        /\ Cardinality(Charged) \in Nat
    <2>1. Cardinality(calling') = n + 1 /\ n \in Nat /\ Cardinality(Callers) \in Nat /\ Cardinality(Charged) \in Nat
      BY <1>0, <1>1, CallersFinite, FS_AddElement
    <2>2. Cardinality(calling') <= Cardinality(Callers)
      BY <1>0, <1>1, CallersFinite, FS_Subset DEF BudgetType
    <2> QED BY <2>1, <2>2
  <1>5. D \in Nat /\ (n + 1) * D <= Cardinality(Callers) * D /\ (n + 1) * D \in Nat /\ Cardinality(Callers) * D \in Nat
    BY <1>4, DearestIs, Products
  <1>6. maxTokens' > 0 => tokensUsed' + Cardinality(calling') * D < maxTokens' + Cardinality(Callers) * D
    <2>1. maxTokens > 0 => tokensUsed < maxTokens
      BY <1>0, <1>1 DEF WithinBudget, BudgetType, NoLimit
    <2>2. tokensUsed \in Int /\ maxTokens \in Int
      BY <1>0 DEF BudgetType, NoLimit
    <2>3. Cardinality(calling') * D = (n + 1) * D
      BY <1>4
    <2> HIDE DEF D, n
    <2> QED BY <1>1, <1>5, <2>1, <2>2, <2>3
  <1>7. \A u \in calling' : recording'[u] = NoPrice
    BY <1>1 DEF BudgetInv
  <1>8. tokensUsed' = spent'.tokens /\ costUnits' * 10 >= spent'.tenths
    BY <1>1, <1>2 DEF BudgetInv
  <1>9. costUnits' * 10 + 9 * (Cardinality(calling') + Cardinality(Charged')) <= spent'.tenths + 9 * spent'.calls
    <2>1. Charged' = Charged
      BY <1>1 DEF Charged
    <2>2. costUnits * 10 + 9 * (n + Cardinality(Charged)) <= spent.tenths + 9 * spent.calls
      BY DEF BudgetInv
    <2>3. costUnits \in Nat /\ spent.tenths \in Nat /\ spent.calls \in Nat
      BY <1>0 DEF BudgetType
    <2> HIDE DEF n
    <2> QED BY <1>1, <1>2, <1>4, <2>1, <2>2, <2>3
  <1>10. ~(maxTokens' = 0 \/ maxCost' = 0)
    BY <1>0, <1>1 DEF WithinBudget, BudgetType, NoLimit
  <1> QED BY <1>3, <1>6, <1>7, <1>8, <1>9, <1>10 DEF BudgetInv

LEMMA RecordTokensStep ==
  ASSUME BudgetInv, NEW w \in Callers, NEW p \in Prices, RecordTokens(w, p)
  PROVE  BudgetInv'
  <1> DEFINE D == Dearest.tokens
             n == Cardinality(calling)
  <1>0. BudgetType /\ p \in [tokens : Nat, tenths : Nat] /\ p.tokens \in Nat
    BY BudgetsAssumption DEF BudgetInv
  <1>1. /\ w \in calling /\ calling' = calling \ {w} /\ tokensUsed' = tokensUsed + p.tokens
        /\ recording' = [recording EXCEPT ![w] = p] /\ spent' = [spent EXCEPT !.tokens = @ + p.tokens]
        /\ costUnits' = costUnits /\ maxTokens' = maxTokens /\ maxCost' = maxCost
    BY DEF RecordTokens
  <1>2. /\ spent' \in [calls : Nat, tenths : Nat, tokens : Nat] /\ spent'.calls = spent.calls
        /\ spent'.tenths = spent.tenths /\ spent'.tokens = spent.tokens + p.tokens
    BY <1>0, <1>1 DEF BudgetType
  <1>3. BudgetType'
    BY <1>0, <1>1, <1>2 DEF BudgetType
  <1>4. Cardinality(calling') = n - 1 /\ n \in Nat /\ n - 1 \in Nat /\ Cardinality(Callers) \in Nat
    <2>1. Cardinality(calling') = n - 1 /\ n \in Nat /\ Cardinality(Callers) \in Nat
      BY <1>0, <1>1, CallersFinite, FS_RemoveElement
    <2>2. Cardinality(calling') \in Nat
      BY <1>0, <1>1, CallersFinite, FS_RemoveElement, FS_CardinalityType
    <2> QED BY <2>1, <2>2
  <1>5. D \in Nat /\ p.tokens <= D /\ n * D = (n - 1) * D + D /\ (n - 1) * D \in Nat
    <2>1. n = (n - 1) + 1
      BY <1>4
    <2> QED BY <2>1, <1>4, DearestIs, Products
  <1>6. maxTokens' > 0 => tokensUsed' + Cardinality(calling') * D < maxTokens' + Cardinality(Callers) * D
    <2>1. maxTokens > 0 => tokensUsed + n * D < maxTokens + Cardinality(Callers) * D
      BY DEF BudgetInv
    <2>2. tokensUsed \in Int /\ maxTokens \in Int
      BY <1>0 DEF BudgetType, NoLimit
    <2>3. Cardinality(calling') * D = (n - 1) * D /\ Cardinality(Callers) * D \in Nat
      BY <1>4, <1>5, Products
    <2> HIDE DEF D, n
    <2> QED BY <1>0, <1>1, <1>5, <2>1, <2>2, <2>3
  <1>7. \A u \in calling' : recording'[u] = NoPrice
    BY <1>0, <1>1 DEF BudgetInv, BudgetType
  <1>8. tokensUsed' = spent'.tokens /\ costUnits' * 10 >= spent'.tenths
    BY <1>1, <1>2 DEF BudgetInv
  <1>9. costUnits' * 10 + 9 * (Cardinality(calling') + Cardinality(Charged')) <= spent'.tenths + 9 * spent'.calls
    <2>1. Charged' \subseteq Charged \cup {w} /\ IsFiniteSet(Charged)
      BY <1>0, <1>1, CallersFinite DEF Charged, BudgetType
    <2>2. /\ IsFiniteSet(Charged \cup {w}) /\ Cardinality(Charged) \in Nat
          /\ Cardinality(Charged \cup {w}) \in {Cardinality(Charged), Cardinality(Charged) + 1}
      BY <1>0, <2>1, CallersFinite, FS_AddElement
    <2>3. Cardinality(Charged') <= Cardinality(Charged \cup {w}) /\ Cardinality(Charged') \in Nat
      BY <2>1, <2>2, FS_Subset, FS_CardinalityType
    <2>4. costUnits * 10 + 9 * (n + Cardinality(Charged)) <= spent.tenths + 9 * spent.calls
      BY DEF BudgetInv
    <2>5. costUnits \in Nat /\ spent.tenths \in Nat /\ spent.calls \in Nat
      BY <1>0 DEF BudgetType
    <2> HIDE DEF n
    <2> QED BY <1>1, <1>2, <1>4, <2>2, <2>3, <2>4, <2>5
  <1>10. maxTokens' = 0 \/ maxCost' = 0 => spent'.calls = 0
    BY <1>1, <1>2 DEF BudgetInv
  <1> QED BY <1>3, <1>6, <1>7, <1>8, <1>9, <1>10 DEF BudgetInv

LEMMA RecordCostStep ==
  ASSUME BudgetInv, NEW w \in Callers, RecordCost(w)
  PROVE  BudgetInv'
  <1> DEFINE n == Cardinality(calling)
             t == recording[w].tenths
  <1>0. BudgetType /\ t \in Nat /\ NoPrice \in [tokens : Nat, tenths : Nat]
    BY DEF BudgetInv, BudgetType, NoPrice
  <1>1. /\ recording[w] # NoPrice /\ costUnits' = costUnits + CeilUnits(t)
        /\ recording' = [recording EXCEPT ![w] = NoPrice] /\ spent' = [spent EXCEPT !.tenths = @ + t]
        /\ tokensUsed' = tokensUsed /\ maxTokens' = maxTokens /\ maxCost' = maxCost /\ calling' = calling
    BY DEF RecordCost
  <1>2. /\ spent' \in [calls : Nat, tenths : Nat, tokens : Nat] /\ spent'.calls = spent.calls
        /\ spent'.tenths = spent.tenths + t /\ spent'.tokens = spent.tokens
    BY <1>0, <1>1 DEF BudgetType
  <1>3. CeilUnits(t) \in Nat /\ CeilUnits(t) * 10 >= t /\ CeilUnits(t) * 10 <= t + 9
    <2> HIDE DEF t
    <2> QED BY <1>0 DEF CeilUnits
  <1>4. BudgetType'
    BY <1>0, <1>1, <1>2, <1>3 DEF BudgetType
  <1>5. Charged' = Charged \ {w} /\ w \in Charged
    BY <1>0, <1>1 DEF Charged, BudgetType
  <1>6. Cardinality(Charged') = Cardinality(Charged) - 1 /\ Cardinality(Charged) \in Nat /\ n \in Nat
    BY <1>0, <1>5, CallersFinite, FS_RemoveElement
  <1>7. maxTokens' > 0 => tokensUsed' + Cardinality(calling') * Dearest.tokens < maxTokens' + Cardinality(Callers) * Dearest.tokens
    BY <1>1 DEF BudgetInv
  <1>8. \A u \in calling' : recording'[u] = NoPrice
    BY <1>0, <1>1 DEF BudgetInv, BudgetType
  <1>9. costUnits \in Nat /\ spent.tenths \in Nat /\ spent.calls \in Nat
    BY <1>0 DEF BudgetType
  <1>10. tokensUsed' = spent'.tokens
    BY <1>1, <1>2 DEF BudgetInv
  <1>11. costUnits' * 10 >= spent'.tenths
    <2>1. costUnits * 10 >= spent.tenths
      BY DEF BudgetInv
    <2> HIDE DEF t
    <2> QED BY <1>0, <1>1, <1>2, <1>3, <1>9, <2>1
  <1>12. costUnits' * 10 + 9 * (Cardinality(calling') + Cardinality(Charged')) <= spent'.tenths + 9 * spent'.calls
    <2>1. costUnits * 10 + 9 * (n + Cardinality(Charged)) <= spent.tenths + 9 * spent.calls
      BY DEF BudgetInv
    <2>2. Cardinality(calling') = n
      BY <1>1
    <2> HIDE DEF n, t
    <2> QED BY <1>0, <1>1, <1>2, <1>3, <1>6, <1>9, <2>1, <2>2
  <1>13. maxTokens' = 0 \/ maxCost' = 0 => spent'.calls = 0
    BY <1>1, <1>2 DEF BudgetInv
  <1> QED BY <1>4, <1>7, <1>8, <1>10, <1>11, <1>12, <1>13 DEF BudgetInv

\* The budget tracker (budget.rs): for any callers, limits and prices, the limit is
\* passed by less than one call of each caller, what is recorded is what was spent,
\* rounded up by less than a unit a call, and a limit of nothing allows no call.
THEOREM OvershootIsBounded == StoresSpec => []OvershootBounded
  <1>1. StoresInit => BudgetInv
    <2> SUFFICES ASSUME BudgetsInit PROVE BudgetInv
      BY DEF StoresInit
    <2>1. BudgetType
      BY BudgetsAssumption DEF BudgetsInit, BudgetType, NoPrice
    <2>2. calling = {} /\ Charged = {} /\ Cardinality({}) = 0
      BY FS_EmptySet DEF BudgetsInit, Charged
    <2>3. Cardinality(Callers) * Dearest.tokens \in Nat /\ 0 * Dearest.tokens = 0
      BY <2>1, CallersFinite, DearestIs, Products
    <2>4. maxTokens > 0 => tokensUsed + Cardinality(calling) * Dearest.tokens < maxTokens + Cardinality(Callers) * Dearest.tokens
      <3>1. tokensUsed = 0 /\ maxTokens \in Int
        BY <2>1 DEF BudgetsInit, BudgetType, NoLimit
      <3> QED BY <3>1, <2>2, <2>3
    <2>5. /\ tokensUsed = 0 /\ costUnits = 0 /\ spent.tokens = 0 /\ spent.tenths = 0 /\ spent.calls = 0
      BY DEF BudgetsInit
    <2> QED BY <2>1, <2>2, <2>4, <2>5 DEF BudgetInv
  <1>2. BudgetInv /\ [StoresNext]_storesVars => BudgetInv'
    <2> SUFFICES ASSUME BudgetInv, [TrackerNext \/ TenantNext]_budgetVars PROVE BudgetInv'
      BY EachStore
    <2>1. ASSUME UNCHANGED trackerVars PROVE BudgetInv'
      BY <2>1 DEF trackerVars, BudgetInv, BudgetType, Charged
    <2>2. CASE TenantNext
      BY <2>1, <2>2 DEF TenantNext, RegisterTenant, RemoveTenant, CheckTenant
    <2>3. CASE TrackerNext
      BY <2>3, CheckStep, RecordTokensStep, RecordCostStep DEF TrackerNext
    <2> QED BY <2>1, <2>2, <2>3 DEF budgetVars, trackerVars
  <1>3. BudgetInv => OvershootBounded
    <2> SUFFICES ASSUME BudgetInv PROVE OvershootBounded
      OBVIOUS
    <2>1. BudgetType
      BY DEF BudgetInv
    <2>2. maxTokens > 0 => tokensUsed < maxTokens + Cardinality(Callers) * Dearest.tokens
      <3>1. maxTokens > 0 =>
              tokensUsed + Cardinality(calling) * Dearest.tokens < maxTokens + Cardinality(Callers) * Dearest.tokens
        BY DEF BudgetInv
      <3>2. Cardinality(calling) * Dearest.tokens \in Nat /\ Cardinality(Callers) * Dearest.tokens \in Nat
        BY <2>1, CallersFinite, DearestIs, Products
      <3>3. tokensUsed \in Int /\ maxTokens \in Int
        BY <2>1 DEF BudgetType, NoLimit
      <3> QED BY <3>1, <3>2, <3>3
    <2>3. costUnits * 10 <= spent.tenths + 9 * spent.calls
      <3>1. costUnits * 10 + 9 * (Cardinality(calling) + Cardinality(Charged)) <= spent.tenths + 9 * spent.calls
        BY DEF BudgetInv
      <3>2. Cardinality(calling) \in Nat /\ Cardinality(Charged) \in Nat
        BY <2>1, CallersFinite
      <3>3. costUnits \in Nat /\ spent.tenths \in Nat /\ spent.calls \in Nat
        BY <2>1 DEF BudgetType
      <3> QED BY <3>1, <3>2, <3>3
    <2> QED BY <2>2, <2>3 DEF OvershootBounded, BudgetInv
  <1> QED BY <1>1, <1>2, <1>3, PTL DEF StoresSpec

-----------------------------------------------------------------------------
(* Frames on a socket: Messaging.                                          *)

Bytes == [len : Nat, of : Nat]
Payload(n) == [len |-> 0, of |-> n]

\* Every length in the stream is that of a message that was sent, and is followed by
\* the payload of that message and then by the length of the next, as far as it goes.
Chain(w, s) ==
    \A j \in 1..Len(w) : w[j].len > 0 =>
      /\ w[j].of \in 1..Len(s) /\ w[j].len = s[w[j].of]
      /\ \A i \in 1..w[j].len : j + i <= Len(w) => w[j + i] = Payload(w[j].of)
      /\ j + w[j].len + 1 <= Len(w) => w[j + w[j].len + 1].len > 0 /\ w[j + w[j].len + 1].of = w[j].of + 1

\* It begins with m bytes of message p - 1, and then comes the length of message p.
BeginsAt(w, m, p) ==
    /\ \A i \in 1..m : i <= Len(w) => w[i] = Payload(p - 1)
    /\ m + 1 <= Len(w) => w[m + 1].len > 0 /\ w[m + 1].of = p

\* And it ends with the last message that was sent.
EndsWhole(w, s, m, p) ==
    /\ m <= Len(w) /\ (Len(w) = m => p = Len(s) + 1)
    /\ \A j \in 1..Len(w) : w[j].len > 0 =>
         j + w[j].len <= Len(w) /\ (j + w[j].len = Len(w) => w[j].of = Len(s))

Stream == wire \o outgoing
NextFrame == Len(received) + (IF need = 0 THEN 1 ELSE 2)

IpcType ==
    /\ wire \in Seq(Bytes) /\ outgoing \in Seq(Bytes) /\ sent \in Seq(1..MaxFrameSize)
    /\ need \in Nat /\ got \in Seq(Bytes) /\ received \in Seq(Seq(Bytes)) /\ link \in {"up", "closed", "eof"}

\* What the reader has of the message it reads, and of those before it.
Taken ==
    /\ Len(received) <= Len(sent)
    /\ \A i \in 1..Len(received) : received[i] = [k \in 1..sent[i] |-> Payload(i)]
    /\ need = 0 => got = <<>>
    /\ need > 0 => /\ Len(received) < Len(sent) /\ need <= sent[Len(received) + 1]
                   /\ Len(got) = sent[Len(received) + 1] - need
                   /\ \A i \in 1..Len(got) : got[i] = Payload(Len(received) + 1)

IpcInv ==
    /\ IpcType /\ Taken
    /\ Chain(Stream, sent) /\ BeginsAt(Stream, need, NextFrame)
    /\ link = "up" => EndsWhole(Stream, sent, need, NextFrame)

LEMMA ByteIs ==
  ASSUME NEW w \in Seq(Bytes), NEW i \in 1..Len(w)
  PROVE  w[i].len \in Nat /\ w[i].of \in Nat /\ w[i] \in Bytes
  <1>1. w[i] \in Bytes
    BY ElementOfSeq
  <1> QED BY <1>1 DEF Bytes

LEMMA TailChain ==
  ASSUME NEW w \in Seq(Bytes), w # <<>>, NEW s \in Seq(Nat), Chain(w, s)
  PROVE  Chain(Tail(w), s)
  <1> DEFINE v == Tail(w)
  <1>0. v \in Seq(Bytes) /\ Len(v) = Len(w) - 1 /\ Len(w) \in Nat \ {0} /\ \A i \in 1..Len(v) : v[i] = w[i + 1] /\ w[i + 1].len \in Nat
    <2>1. v \in Seq(Bytes) /\ Len(v) = Len(w) - 1 /\ Len(w) \in Nat \ {0} /\ \A i \in 1..Len(v) : v[i] = w[i + 1]
      BY HeadTailProperties, EmptySeq
    <2>2. \A i \in 1..Len(w) : w[i].len \in Nat
      BY ByteIs
    <2>3. \A i \in 1..Len(v) : i + 1 \in 1..Len(w)
      BY <2>1
    <2> QED BY <2>1, <2>2, <2>3
  <1> HIDE DEF v
  <1> SUFFICES ASSUME NEW j \in 1..Len(v), v[j].len > 0
               PROVE  /\ v[j].of \in 1..Len(s) /\ v[j].len = s[v[j].of]
                      /\ \A i \in 1..v[j].len : j + i <= Len(v) => v[j + i] = Payload(v[j].of)
                      /\ j + v[j].len + 1 <= Len(v) => v[j + v[j].len + 1].len > 0 /\ v[j + v[j].len + 1].of = v[j].of + 1
    BY DEF Chain, v
  <1> DEFINE l == v[j].len
  <1>1. j + 1 \in 1..Len(w) /\ w[j + 1] = v[j] /\ l \in Nat /\ j \in Nat
    BY <1>0
  <1>2. /\ v[j].of \in 1..Len(s) /\ l = s[v[j].of]
        /\ \A i \in 1..l : (j + 1) + i <= Len(w) => w[(j + 1) + i] = Payload(v[j].of)
        /\ (j + 1) + l + 1 <= Len(w) => w[(j + 1) + l + 1].len > 0 /\ w[(j + 1) + l + 1].of = v[j].of + 1
    BY <1>1 DEF Chain
  <1>3. ASSUME NEW i \in 1..l, j + i <= Len(v) PROVE v[j + i] = Payload(v[j].of)
    <2>1. j + i \in 1..Len(v) /\ (j + 1) + i <= Len(w) /\ (j + i) + 1 = (j + 1) + i
      BY <1>0, <1>1, <1>3, SMTT(30)
    <2> QED BY <1>0, <1>2, <2>1
  <1>4. ASSUME j + l + 1 <= Len(v) PROVE v[j + l + 1].len > 0 /\ v[j + l + 1].of = v[j].of + 1
    <2>1. j + l + 1 \in 1..Len(v) /\ (j + 1) + l + 1 <= Len(w) /\ (j + l + 1) + 1 = (j + 1) + l + 1
      <3>1. Len(v) = Len(w) - 1 /\ Len(w) \in Nat /\ l \in Nat /\ j \in Nat
        BY <1>0, <1>1
      <3> HIDE DEF l
      <3> QED BY <3>1, <1>4
    <2> QED BY <1>0, <1>2, <2>1
  <1> QED BY <1>2, <1>3, <1>4

\* A byte of the payload is read, or a length.
LEMMA TailFront ==
  ASSUME NEW w \in Seq(Bytes), w # <<>>, NEW s \in Seq(Nat), Chain(w, s), NEW m \in Nat, NEW p \in Nat, BeginsAt(w, m, p)
  PROVE  /\ m > 0 => Head(w) = Payload(p - 1) /\ BeginsAt(Tail(w), m - 1, p)
         /\ m = 0 => /\ Head(w).of = p /\ p \in 1..Len(s) /\ Head(w).len = s[p] /\ s[p] > 0
                     /\ BeginsAt(Tail(w), s[p], p + 1)
  <1> DEFINE v == Tail(w)
  <1>0. /\ Len(v) = Len(w) - 1 /\ Len(w) \in Nat \ {0} /\ \A i \in 1..Len(v) : v[i] = w[i + 1]
        /\ Head(w) = w[1] /\ 1 \in 1..Len(w) /\ w[1].len \in Nat /\ w[1].of \in Nat
    <2>1. Len(v) = Len(w) - 1 /\ Len(w) \in Nat \ {0} /\ \A i \in 1..Len(v) : v[i] = w[i + 1]
      BY HeadTailProperties, EmptySeq
    <2>2. Head(w) = w[1] /\ w[1] \in Bytes /\ 1 \in 1..Len(w)
      BY <2>1
    <2> QED BY <2>1, <2>2 DEF Bytes
  <1>1. ASSUME m > 0 PROVE Head(w) = Payload(p - 1) /\ BeginsAt(v, m - 1, p)
    <2>1. Head(w) = Payload(p - 1)
      BY <1>0, <1>1 DEF BeginsAt
    <2>2. ASSUME NEW i \in 1..(m - 1), i <= Len(v) PROVE v[i] = Payload(p - 1)
      <3>1. i \in 1..Len(v) /\ i + 1 \in 1..m /\ i + 1 <= Len(w)
        BY <1>0, <1>1, <2>2
      <3> QED BY <1>0, <3>1 DEF BeginsAt
    <2>3. ASSUME (m - 1) + 1 <= Len(v) PROVE v[(m - 1) + 1].len > 0 /\ v[(m - 1) + 1].of = p
      <3>1. (m - 1) + 1 = m /\ m \in 1..Len(v) /\ m + 1 <= Len(w)
        BY <1>0, <1>1, <2>3
      <3> QED BY <1>0, <3>1 DEF BeginsAt
    <2> QED BY <2>1, <2>2, <2>3 DEF BeginsAt
  <1>2. ASSUME m = 0 PROVE /\ Head(w).of = p /\ p \in 1..Len(s) /\ Head(w).len = s[p] /\ s[p] > 0
                           /\ BeginsAt(v, s[p], p + 1)
    <2>1. w[1].len > 0 /\ w[1].of = p
      BY <1>0, <1>2 DEF BeginsAt
    <2> DEFINE l == s[p]
    <2>2. /\ p \in 1..Len(s) /\ w[1].len = l /\ l \in Nat
          /\ \A i \in 1..l : 1 + i <= Len(w) => w[1 + i] = Payload(p)
          /\ 1 + l + 1 <= Len(w) => w[1 + l + 1].len > 0 /\ w[1 + l + 1].of = p + 1
      BY <1>0, <2>1 DEF Chain
    <2>3. ASSUME NEW i \in 1..l, i <= Len(v) PROVE v[i] = Payload((p + 1) - 1)
      <3>1. i \in 1..Len(v) /\ 1 + i <= Len(w) /\ 1 + i = i + 1 /\ (p + 1) - 1 = p
        BY <1>0, <2>2, <2>3
      <3> QED BY <1>0, <2>2, <3>1
    <2>4. ASSUME l + 1 <= Len(v) PROVE v[l + 1].len > 0 /\ v[l + 1].of = p + 1
      <3>1. l + 1 \in 1..Len(v) /\ 1 + l + 1 <= Len(w) /\ (l + 1) + 1 = 1 + l + 1
        BY <1>0, <2>2, <2>4, SMTT(30)
      <3> QED BY <1>0, <2>2, <3>1
    <2>5. BeginsAt(v, l, p + 1)
      BY <2>3, <2>4 DEF BeginsAt
    <2> QED BY <1>0, <2>1, <2>2, <2>5
  <1> QED BY <1>1, <1>2

LEMMA TailWhole ==
  ASSUME NEW w \in Seq(Bytes), w # <<>>, NEW s \in Seq(Nat), NEW m \in Nat, NEW p \in Nat, EndsWhole(w, s, m, p), NEW r
  PROVE  /\ m > 0 => EndsWhole(Tail(w), s, m - 1, p)
         /\ m = 0 /\ Head(w).of = p /\ Head(w).len = r /\ r > 0 => EndsWhole(Tail(w), s, r, p + 1)
  <1> DEFINE v == Tail(w)
  <1>0. /\ Len(v) = Len(w) - 1 /\ Len(w) \in Nat \ {0} /\ \A i \in 1..Len(v) : v[i] = w[i + 1] /\ w[i + 1].len \in Nat
        /\ Head(w) = w[1] /\ 1 \in 1..Len(w) /\ w[1].len \in Nat /\ w[1].of \in Nat
    <2>1. Len(v) = Len(w) - 1 /\ Len(w) \in Nat \ {0} /\ \A i \in 1..Len(v) : v[i] = w[i + 1]
      BY HeadTailProperties, EmptySeq
    <2>2. Head(w) = w[1] /\ 1 \in 1..Len(w)
      BY <2>1
    <2>3. \A i \in 1..Len(w) : w[i].len \in Nat /\ w[i].of \in Nat
      BY ByteIs
    <2>4. \A i \in 1..Len(v) : i + 1 \in 1..Len(w)
      BY <2>1
    <2> QED BY <2>1, <2>2, <2>3, <2>4
  <1>a. Len(s) \in Nat
    OBVIOUS
  <1> HIDE DEF v
  <1>1. ASSUME NEW j \in 1..Len(v), v[j].len > 0
        PROVE  j + v[j].len <= Len(v) /\ (j + v[j].len = Len(v) => v[j].of = Len(s))
    <2> DEFINE l == v[j].len
    <2>1. j + 1 \in 1..Len(w) /\ w[j + 1] = v[j] /\ l \in Nat
      BY <1>0
    <2>2. (j + 1) + l <= Len(w) /\ ((j + 1) + l = Len(w) => v[j].of = Len(s))
      BY <1>1, <2>1 DEF EndsWhole
    <2>3. Len(v) \in Nat /\ Len(w) = Len(v) + 1 /\ j \in Nat
      BY <1>0
    <2> HIDE DEF l
    <2>4. (j + 1) + l <= Len(v) + 1 => j + l <= Len(v)
      BY <2>1, <2>3
    <2>5. j + l = Len(v) => (j + 1) + l = Len(v) + 1
      BY <2>1, <2>3
    <2>6. j + l <= Len(v) /\ (j + l = Len(v) => v[j].of = Len(s))
      BY <2>2, <2>3, <2>4, <2>5, Zenon
    <2> QED BY <2>6 DEF l
  <1>2. ASSUME m > 0 PROVE EndsWhole(v, s, m - 1, p)
    <2>1. m <= Len(w) /\ (Len(w) = m => p = Len(s) + 1)
      BY DEF EndsWhole
    <2>2. m - 1 <= Len(v) /\ (Len(v) = m - 1 => p = Len(s) + 1)
      BY <1>0, <1>a, <1>2, <2>1
    <2> QED BY <1>1, <2>2 DEF EndsWhole
  <1>3. ASSUME m = 0, Head(w).of = p, Head(w).len = r, r > 0 PROVE EndsWhole(v, s, r, p + 1)
    <2>1. 1 + r <= Len(w) /\ (1 + r = Len(w) => p = Len(s)) /\ r \in Nat
      BY <1>0, <1>3 DEF EndsWhole
    <2>2. r <= Len(v) /\ (Len(v) = r => p + 1 = Len(s) + 1)
      BY <1>0, <1>a, <2>1
    <2> QED BY <1>1, <2>2 DEF EndsWhole
  <1> QED BY <1>2, <1>3 DEF v

\* What was cut off at the end does not matter to the rest.
LEMMA PrefixChain ==
  ASSUME NEW v \in Seq(Bytes), NEW u \in Seq(Bytes), NEW s, NEW m \in Nat, NEW p, Chain(v \o u, s), BeginsAt(v \o u, m, p)
  PROVE  Chain(v, s) /\ BeginsAt(v, m, p)
  <1> DEFINE w == v \o u
  <1>0. w \in Seq(Bytes) /\ Len(w) = Len(v) + Len(u) /\ Len(v) \in Nat /\ Len(u) \in Nat
        /\ \A i \in 1..Len(v) : i \in 1..Len(w) /\ w[i] = v[i] /\ v[i].len \in Nat
    <2>1. w \in Seq(Bytes) /\ Len(w) = Len(v) + Len(u) /\ Len(v) \in Nat /\ Len(u) \in Nat
          /\ \A i \in 1..(Len(v) + Len(u)) : w[i] = IF i <= Len(v) THEN v[i] ELSE u[i - Len(v)]
      BY ConcatProperties
    <2>2. \A i \in 1..Len(v) : v[i].len \in Nat
      BY ByteIs
    <2>3. \A i \in 1..Len(v) : i \in 1..(Len(v) + Len(u)) /\ i <= Len(v)
      BY <2>1
    <2> QED BY <2>1, <2>2, <2>3
  <1> HIDE DEF w
  <1>1. Chain(w, s) /\ BeginsAt(w, m, p)
    BY DEF w
  <1>2. Chain(v, s)
    <2> SUFFICES ASSUME NEW j \in 1..Len(v), v[j].len > 0
                 PROVE  /\ v[j].of \in 1..Len(s) /\ v[j].len = s[v[j].of]
                        /\ \A i \in 1..v[j].len : j + i <= Len(v) => v[j + i] = Payload(v[j].of)
                        /\ j + v[j].len + 1 <= Len(v) => v[j + v[j].len + 1].len > 0 /\ v[j + v[j].len + 1].of = v[j].of + 1
      BY DEF Chain
    <2> DEFINE l == v[j].len
    <2>1. /\ v[j].of \in 1..Len(s) /\ l = s[v[j].of] /\ l \in Nat
          /\ \A i \in 1..l : j + i <= Len(w) => w[j + i] = Payload(v[j].of)
          /\ j + l + 1 <= Len(w) => w[j + l + 1].len > 0 /\ w[j + l + 1].of = v[j].of + 1
      <3>1. j \in 1..Len(w) /\ w[j] = v[j] /\ v[j].len \in Nat
        BY <1>0
      <3>2. /\ w[j].of \in 1..Len(s) /\ w[j].len = s[w[j].of]
            /\ \A i \in 1..w[j].len : j + i <= Len(w) => w[j + i] = Payload(w[j].of)
            /\ j + w[j].len + 1 <= Len(w) => w[j + w[j].len + 1].len > 0 /\ w[j + w[j].len + 1].of = w[j].of + 1
        BY <1>1, <3>1 DEF Chain
      <3> QED BY <3>1, <3>2
    <2>2. ASSUME NEW i \in 1..l, j + i <= Len(v) PROVE v[j + i] = Payload(v[j].of)
      <3>1. j + i \in 1..Len(v) /\ j + i <= Len(w)
        BY <1>0, <2>1, <2>2, SMTT(30)
      <3> QED BY <1>0, <2>1, <3>1
    <2>3. ASSUME j + l + 1 <= Len(v) PROVE v[j + l + 1].len > 0 /\ v[j + l + 1].of = v[j].of + 1
      <3>1. j + l + 1 \in 1..Len(v) /\ j + l + 1 <= Len(w)
        BY <1>0, <2>1, <2>3, SMTT(30)
      <3> QED BY <1>0, <2>1, <3>1
    <2> QED BY <2>1, <2>2, <2>3
  <1>3. BeginsAt(v, m, p)
    <2>1. ASSUME NEW i \in 1..m, i <= Len(v) PROVE v[i] = Payload(p - 1)
      <3>1. i \in 1..Len(v) /\ i <= Len(w)
        BY <1>0, <2>1
      <3> QED BY <1>0, <1>1, <3>1 DEF BeginsAt
    <2>2. ASSUME m + 1 <= Len(v) PROVE v[m + 1].len > 0 /\ v[m + 1].of = p
      <3>1. m + 1 \in 1..Len(v) /\ m + 1 <= Len(w)
        BY <1>0, <2>2
      <3> QED BY <1>0, <1>1, <3>1 DEF BeginsAt
    <2> QED BY <2>1, <2>2 DEF BeginsAt
  <1> QED BY <1>2, <1>3

LEMMA FrameIs ==
  ASSUME NEW n \in Nat, NEW size \in Nat
  PROVE  /\ Frame(n, size) \in Seq(Bytes) /\ Len(Frame(n, size)) = size + 1
         /\ Frame(n, size)[1] = [len |-> size, of |-> n]
         /\ \A i \in 1..size : Frame(n, size)[i + 1] = Payload(n)
  <1> DEFINE a == <<[len |-> size, of |-> n]>>
             b == [i \in 1..size |-> Payload(n)]
  <1>1. a \in Seq(Bytes) /\ Len(a) = 1 /\ a[1] = [len |-> size, of |-> n]
    BY DEF Bytes
  <1>2. b \in Seq(Bytes) /\ Len(b) = size /\ \A i \in 1..size : b[i] = Payload(n)
    <2>1. Payload(n) \in Bytes
      BY DEF Payload, Bytes
    <2> QED BY <2>1
  <1>3. Frame(n, size) = a \o b
    BY DEF Frame, Payload
  <1>4. /\ a \o b \in Seq(Bytes) /\ Len(a \o b) = 1 + size
        /\ \A i \in 1..(1 + size) : (a \o b)[i] = IF i <= 1 THEN a[i] ELSE b[i - 1]
    <2> HIDE DEF a, b
    <2>1. /\ a \o b \in Seq(Bytes) /\ Len(a \o b) = Len(a) + Len(b)
          /\ \A i \in 1..(Len(a) + Len(b)) : (a \o b)[i] = IF i <= Len(a) THEN a[i] ELSE b[i - Len(a)]
      BY <1>1, <1>2, ConcatProperties
    <2> QED BY <1>1, <1>2, <2>1
  <1> HIDE DEF a, b
  <1>5. 1 \in 1..(1 + size) /\ 1 + size = size + 1
    OBVIOUS
  <1>6. ASSUME NEW i \in 1..size PROVE (a \o b)[i + 1] = Payload(n)
    <2>1. i + 1 \in 1..(1 + size) /\ ~(i + 1 <= 1) /\ (i + 1) - 1 = i
      OBVIOUS
    <2> QED BY <1>2, <1>4, <2>1
  <1> QED BY <1>1, <1>3, <1>4, <1>5, <1>6

LEMMA SendChain ==
  ASSUME NEW w \in Seq(Bytes), NEW s \in Seq(Nat), NEW m \in Nat, NEW p \in Nat, NEW size \in Nat \ {0},
         Chain(w, s), BeginsAt(w, m, p), EndsWhole(w, s, m, p)
  PROVE  /\ Chain(w \o Frame(Len(s) + 1, size), Append(s, size))
         /\ BeginsAt(w \o Frame(Len(s) + 1, size), m, p)
         /\ EndsWhole(w \o Frame(Len(s) + 1, size), Append(s, size), m, p)
  <1> DEFINE L == Len(w)
             n == Len(s) + 1
             f == Frame(n, size)
             x == w \o f
             z == Append(s, size)
  <1>0. L \in Nat /\ Len(s) \in Nat /\ n \in Nat /\ size \in Nat /\ size > 0
    OBVIOUS
  <1>1. /\ f \in Seq(Bytes) /\ Len(f) = size + 1 /\ f[1] = [len |-> size, of |-> n]
        /\ \A i \in 1..size : f[i + 1] = Payload(n)
    BY <1>0, FrameIs
  <1>2. /\ Len(x) = L + (size + 1)
        /\ \A i \in 1..(L + (size + 1)) : x[i] = IF i <= L THEN w[i] ELSE f[i - L]
    <2> HIDE DEF f
    <2>1. /\ Len(w \o f) = Len(w) + Len(f)
          /\ \A i \in 1..(Len(w) + Len(f)) : (w \o f)[i] = IF i <= Len(w) THEN w[i] ELSE f[i - Len(w)]
      BY <1>1, ConcatProperties
    <2> QED BY <1>1, <2>1
  <1>3. Len(z) = n /\ z[n] = size /\ \A i \in 1..Len(s) : z[i] = s[i]
    OBVIOUS
  <1> HIDE DEF x, z, f, n, L
  <1>n. n = Len(s) + 1
    BY DEF n
  <1>4. \A j \in 1..L : j \in 1..Len(w) /\ x[j] = w[j] /\ w[j].len \in Nat /\ w[j].of \in Nat
    BY <1>0, <1>2, ByteIs DEF L
  <1>5. /\ x[L + 1] = [len |-> size, of |-> n] /\ x[L + 1].len = size /\ x[L + 1].of = n
        /\ \A i \in 1..size : x[(L + 1) + i] = Payload(n) /\ x[(L + 1) + i].len = 0
    <2>1. L + 1 \in 1..(L + (size + 1)) /\ ~(L + 1 <= L) /\ (L + 1) - L = 1
      BY <1>0
    <2>2. x[L + 1] = [len |-> size, of |-> n]
      BY <1>1, <1>2, <2>1
    <2>3. ASSUME NEW i \in 1..size PROVE x[(L + 1) + i] = Payload(n)
      <3>1. (L + 1) + i \in 1..(L + (size + 1)) /\ ~((L + 1) + i <= L) /\ ((L + 1) + i) - L = i + 1
        BY <1>0
      <3> QED BY <1>1, <1>2, <3>1
    <2> QED BY <2>2, <2>3 DEF Payload
  <1>6. ASSUME NEW j \in 1..Len(x), x[j].len > 0 PROVE j \in 1..L \/ j = L + 1
    <2>1. CASE j > L + 1
      <3> DEFINE i == j - (L + 1)
      <3>1. i \in 1..size /\ (L + 1) + i = j
        BY <1>0, <1>2, <2>1
      <3>2. x[j].len = 0
        <4> HIDE DEF i
        <4> QED BY <1>5, <3>1
      <3> QED BY <1>6, <3>2
    <2> QED BY <1>0, <1>2, <2>1
  <1>7. ASSUME NEW j \in 1..L, w[j].len > 0
        PROVE  /\ w[j].of \in 1..Len(s) /\ w[j].len = s[w[j].of]
               /\ \A i \in 1..w[j].len : j + i <= L => w[j + i] = Payload(w[j].of)
               /\ j + w[j].len + 1 <= L => w[j + w[j].len + 1].len > 0 /\ w[j + w[j].len + 1].of = w[j].of + 1
               /\ j + w[j].len <= L /\ (j + w[j].len = L => w[j].of = Len(s))
    BY <1>4, <1>7 DEF Chain, EndsWhole, L
  <1>8. Chain(x, z)
    <2> SUFFICES ASSUME NEW j \in 1..Len(x), x[j].len > 0
                 PROVE  /\ x[j].of \in 1..Len(z) /\ x[j].len = z[x[j].of]
                        /\ \A i \in 1..x[j].len : j + i <= Len(x) => x[j + i] = Payload(x[j].of)
                        /\ j + x[j].len + 1 <= Len(x) => x[j + x[j].len + 1].len > 0 /\ x[j + x[j].len + 1].of = x[j].of + 1
      BY DEF Chain
    <2>1. CASE j \in 1..L
      <3> DEFINE l == w[j].len
                 o == w[j].of
      <3>1. x[j] = w[j] /\ l \in Nat /\ o \in Nat /\ l > 0
        BY <1>4, <2>1
      <3>2. /\ o \in 1..Len(s) /\ l = s[o]
            /\ \A i \in 1..l : j + i <= L => w[j + i] = Payload(o)
            /\ j + l + 1 <= L => w[j + l + 1].len > 0 /\ w[j + l + 1].of = o + 1
            /\ j + l <= L /\ (j + l = L => o = Len(s))
        BY <1>7, <2>1, <3>1
      <3> HIDE DEF l, o
      <3>a. j \in Nat /\ 1 <= j /\ l \in Nat /\ j + l <= L
        BY <2>1, <3>1, <3>2
      <3>3. o \in 1..Len(z) /\ l = z[o]
        BY <1>0, <1>n, <1>3, <3>2
      <3>4. ASSUME NEW i \in 1..l PROVE x[j + i] = Payload(o)
        <4>1. j + i \in 1..L /\ j + i <= L
          BY <1>0, <3>a, SMTT(30)
        <4>2. w[j + i] = Payload(o)
          BY <3>2, <4>1
        <4> QED BY <1>4, <4>1, <4>2
      <3>5. x[j + l + 1].len > 0 /\ x[j + l + 1].of = o + 1
        <4>1. CASE j + l + 1 <= L
          <5>1. j + l + 1 \in 1..L
            BY <1>0, <2>1, <3>1, <4>1, SMTT(30)
          <5> QED BY <1>4, <3>2, <4>1, <5>1
        <4>2. CASE ~(j + l + 1 <= L)
          <5>0. L \in Nat
            BY <1>0
          <5>1. j + l = L /\ j + l + 1 = L + 1
            <6> HIDE DEF L
            <6> QED BY <3>a, <4>2, <5>0
          <5> QED BY <1>0, <1>n, <1>5, <3>2, <5>1
        <4> QED BY <4>1, <4>2
      <3> QED BY <3>1, <3>3, <3>4, <3>5 DEF l, o
    <2>2. CASE j = L + 1
      <3>1. x[j].len = size /\ x[j].of = n /\ n \in 1..Len(z) /\ z[n] = size
        BY <1>0, <1>n, <1>3, <1>5, <2>2
      <3>2. ~(j + size + 1 <= Len(x))
        BY <1>0, <1>2, <2>2
      <3>3. \A i \in 1..size : x[j + i] = Payload(n)
        BY <1>5, <2>2
      <3> QED BY <3>1, <3>2, <3>3
    <2> QED BY <1>6, <2>1, <2>2
  <1>9. m <= L /\ (L = m => p = n)
    BY <1>n DEF EndsWhole, L
  <1>10. BeginsAt(x, m, p)
    <2>1. ASSUME NEW i \in 1..m PROVE x[i] = Payload(p - 1)
      <3>1. i \in 1..L /\ i <= Len(w)
        BY <1>0, <1>9 DEF L
      <3> QED BY <1>4, <3>1 DEF BeginsAt
    <2>2. x[m + 1].len > 0 /\ x[m + 1].of = p
      <3>1. CASE m + 1 <= L
        <4>1. m + 1 \in 1..L /\ m + 1 <= Len(w)
          BY <1>0, <3>1 DEF L
        <4> QED BY <1>4, <4>1 DEF BeginsAt
      <3>2. CASE ~(m + 1 <= L)
        <4>1. m = L
          BY <1>0, <1>9, <3>2
        <4> QED BY <1>0, <1>5, <1>9, <4>1
      <3> QED BY <3>1, <3>2
    <2> QED BY <2>1, <2>2 DEF BeginsAt
  <1>11. EndsWhole(x, z, m, p)
    <2>1. m <= Len(x) /\ Len(x) # m
      BY <1>0, <1>2, <1>9
    <2>2. ASSUME NEW j \in 1..Len(x), x[j].len > 0
          PROVE  j + x[j].len <= Len(x) /\ (j + x[j].len = Len(x) => x[j].of = Len(z))
      <3>1. CASE j \in 1..L
        <4>1. x[j] = w[j] /\ w[j].len \in Nat
          BY <1>4, <3>1
        <4>2. j + w[j].len <= L
          BY <1>7, <2>2, <3>1, <4>1
        <4>3. j + w[j].len <= Len(x) /\ j + w[j].len # Len(x)
          BY <1>0, <1>2, <4>1, <4>2, SMTT(30)
        <4> QED BY <4>1, <4>3
      <3>2. CASE j = L + 1
        BY <1>0, <1>2, <1>3, <1>5, <3>2
      <3> QED BY <1>6, <2>2, <3>1, <3>2
    <2> QED BY <2>1, <2>2 DEF EndsWhole
  <1> QED BY <1>8, <1>10, <1>11 DEF x, z, f, n

LEMMA IpcFacts ==
  ASSUME IpcType
  PROVE  /\ Stream \in Seq(Bytes) /\ Len(received) \in Nat /\ Len(sent) \in Nat /\ NextFrame \in Nat
         /\ sent \in Seq(Nat) /\ \A i \in 1..Len(sent) : sent[i] \in 1..MaxFrameSize /\ sent[i] \in Nat
  <1>1. Stream \in Seq(Bytes)
    BY ConcatProperties DEF IpcType, Stream
  <1>2. MaxFrameSize \in Nat /\ 1..MaxFrameSize \subseteq Nat
    BY IpcAssumption
  <1>3. Len(received) \in Nat /\ Len(sent) \in Nat /\ \A i \in 1..Len(sent) : sent[i] \in 1..MaxFrameSize
    <2>1. sent \in Seq(1..MaxFrameSize) /\ received \in Seq(Seq(Bytes))
      BY DEF IpcType
    <2>2. Len(received) \in Nat /\ Len(sent) \in Nat
      BY <2>1, LenProperties
    <2> QED BY <2>1, <2>2, ElementOfSeq
  <1>4. sent \in Seq(Nat)
    <2>1. sent \in Seq(1..MaxFrameSize)
      BY DEF IpcType
    <2> QED BY <1>2, <2>1, SeqMonotonic
  <1> QED BY <1>1, <1>2, <1>3, <1>4 DEF NextFrame

LEMMA StreamTail ==
  ASSUME IpcType, wire # <<>>
  PROVE  /\ Stream # <<>> /\ Head(Stream) = Head(wire) /\ Tail(wire) \o outgoing = Tail(Stream)
         /\ Tail(wire) \in Seq(Bytes) /\ Head(wire) \in Bytes
  <1> DEFINE v == Tail(wire)
             w == Stream
             a == Len(wire)
             b == Len(outgoing)
  <1>0. wire \in Seq(Bytes) /\ outgoing \in Seq(Bytes) /\ a \in Nat \ {0} /\ b \in Nat
    BY EmptySeq DEF IpcType
  <1>1. w \in Seq(Bytes) /\ Len(w) = a + b /\ \A i \in 1..(a + b) : w[i] = IF i <= a THEN wire[i] ELSE outgoing[i - a]
    BY <1>0, ConcatProperties DEF Stream
  <1>2. v \in Seq(Bytes) /\ Len(v) = a - 1 /\ (\A i \in 1..Len(v) : v[i] = wire[i + 1]) /\ Head(wire) \in Bytes
    BY <1>0, HeadTailProperties
  <1>3. w # <<>> /\ Head(w) = w[1] /\ w[1] = wire[1] /\ Head(wire) = wire[1]
    BY <1>0, <1>1
  <1>4. Tail(w) \in Seq(Bytes) /\ Len(Tail(w)) = Len(w) - 1 /\ \A i \in 1..Len(Tail(w)) : Tail(w)[i] = w[i + 1]
    <2> HIDE DEF w
    <2> QED BY <1>1, <1>3, HeadTailProperties
  <1>5. /\ v \o outgoing \in Seq(Bytes) /\ Len(v \o outgoing) = Len(v) + b
        /\ \A i \in 1..(Len(v) + b) : (v \o outgoing)[i] = IF i <= Len(v) THEN v[i] ELSE outgoing[i - Len(v)]
    <2> HIDE DEF v
    <2> QED BY <1>0, <1>2, ConcatProperties
  <1> HIDE DEF v, w, a, b
  <1>6. ASSUME NEW i \in 1..Len(Tail(w)) PROVE Tail(w)[i] = (v \o outgoing)[i]
    <2>0. i \in 1..(Len(v) + b) /\ i + 1 \in 1..(a + b) /\ Len(v) = a - 1
      BY <1>0, <1>1, <1>2, <1>4
    <2>1. CASE i <= a - 1
      <3>1. i \in 1..Len(v) /\ i + 1 <= a /\ i <= Len(v)
        BY <1>0, <1>2, <2>0, <2>1
      <3> QED BY <1>1, <1>2, <1>4, <1>5, <2>0, <3>1
    <2>2. CASE ~(i <= a - 1)
      <3>1. ~(i <= Len(v)) /\ ~(i + 1 <= a) /\ i - Len(v) = (i + 1) - a
        BY <1>0, <1>2, <2>0, <2>2
      <3> QED BY <1>1, <1>4, <1>5, <2>0, <3>1
    <2> QED BY <2>1, <2>2
  <1>7. Len(Tail(w)) = Len(v \o outgoing)
    BY <1>0, <1>1, <1>2, <1>4, <1>5
  <1>8. Tail(w) = v \o outgoing
    BY <1>4, <1>5, <1>6, <1>7, SeqEqual
  <1> QED BY <1>2, <1>3, <1>8 DEF v, w

LEMMA SendStep ==
  ASSUME IpcInv, NEW size \in FrameSizes, Send(size)
  PROVE  IpcInv'
  <1>0. IpcType /\ Taken /\ Chain(Stream, sent) /\ BeginsAt(Stream, need, NextFrame) /\ size \in Nat \ {0} /\ MaxFrameSize \in Nat
    BY IpcAssumption DEF IpcInv
  <1>1. /\ link = "up" /\ outgoing = <<>> /\ outgoing' = WriteFrame(size)
        /\ sent' = IF size > MaxFrameSize THEN sent ELSE Append(sent, size)
        /\ wire' = wire /\ need' = need /\ got' = got /\ received' = received /\ link' = link
    BY DEF Send
  <1>2. EndsWhole(Stream, sent, need, NextFrame) /\ need \in Nat /\ wire \in Seq(Bytes)
    BY <1>1 DEF IpcInv, IpcType
  <1>3. Stream = wire /\ NextFrame' = NextFrame
    BY <1>1, <1>2, ConcatEmptySeq DEF Stream, NextFrame
  <1>4. CASE size > MaxFrameSize
    <2>1. outgoing' = outgoing /\ sent' = sent
      BY <1>1, <1>4 DEF WriteFrame
    <2> QED BY <1>1, <2>1 DEF IpcInv, IpcType, Taken, Stream, NextFrame
  <1>5. CASE ~(size > MaxFrameSize)
    <2> DEFINE f == Frame(Len(sent) + 1, size)
    <2>1. outgoing' = f /\ sent' = Append(sent, size) /\ size \in 1..MaxFrameSize
      BY <1>0, <1>1, <1>5 DEF WriteFrame
    <2>2. f \in Seq(Bytes)
      <3>1. Len(sent) + 1 \in Nat /\ size \in Nat
        BY <1>0, IpcFacts
      <3> QED BY ONLY <3>1, FrameIs
    <2>3. IpcType'
      <3>1. sent \in Seq(1..MaxFrameSize)
        BY <1>0 DEF IpcType
      <3>2. sent' \in Seq(1..MaxFrameSize)
        BY <2>1, <3>1
      <3> HIDE DEF f
      <3> QED BY <1>0, <1>1, <2>1, <2>2, <3>2 DEF IpcType
    <2>4. /\ Len(sent') = Len(sent) + 1 /\ Len(sent) \in Nat /\ \A i \in 1..Len(sent) : sent'[i] = sent[i]
      BY <1>0, <2>1, IpcFacts
    <2>5. Taken'
      <3>1. Len(received) <= Len(sent) /\ Len(received) \in Nat
        BY <1>0, IpcFacts DEF Taken
      <3>2. \A i \in 1..Len(received) : sent'[i] = sent[i]
        BY <2>4, <3>1
      <3>3. need > 0 => Len(received) + 1 \in 1..Len(sent) /\ sent'[Len(received) + 1] = sent[Len(received) + 1]
        <4>1. need > 0 => Len(received) < Len(sent)
          BY <1>0 DEF Taken
        <4> QED BY <2>4, <3>1, <4>1
      <3>4. Len(received) <= Len(sent') /\ (need > 0 => Len(received) < Len(sent'))
        BY <2>4, <3>1
      <3> QED BY <1>0, <1>1, <3>2, <3>3, <3>4 DEF Taken
    <2>6. Stream' = Stream \o f
      BY <1>1, <1>3, <2>1 DEF Stream
    <2>7. /\ Chain(Stream \o f, Append(sent, size)) /\ BeginsAt(Stream \o f, need, NextFrame)
          /\ EndsWhole(Stream \o f, Append(sent, size), need, NextFrame)
      <3>1. Stream \in Seq(Bytes) /\ sent \in Seq(Nat) /\ NextFrame \in Nat
        BY <1>0, IpcFacts
      <3> QED BY <1>0, <1>2, <3>1, SendChain
    <2>8. Chain(Stream, sent)' /\ BeginsAt(Stream, need, NextFrame)' /\ EndsWhole(Stream, sent, need, NextFrame)'
      BY <1>1, <1>3, <2>1, <2>6, <2>7
    <2> QED BY <2>3, <2>5, <2>8 DEF IpcInv
  <1> QED BY <1>4, <1>5

LEMMA CarryStep ==
  ASSUME IpcInv, NEW n \in 1..Len(outgoing), Carry(n)
  PROVE  IpcInv'
  <1> DEFINE a == SubSeq(outgoing, 1, n)
             b == SubSeq(outgoing, n + 1, Len(outgoing))
  <1>0. IpcType /\ wire \in Seq(Bytes) /\ outgoing \in Seq(Bytes) /\ Len(outgoing) \in Nat
    BY DEF IpcInv, IpcType
  <1>1. /\ wire' = wire \o a /\ outgoing' = b
        /\ sent' = sent /\ need' = need /\ got' = got /\ received' = received /\ link' = link
    BY DEF Carry
  <1>2. a \in Seq(Bytes) /\ b \in Seq(Bytes)
    <2>1. \A i \in 1..n : outgoing[i] \in Bytes
      BY <1>0, ElementOfSeq
    <2>2. \A i \in (n + 1)..Len(outgoing) : outgoing[i] \in Bytes
      BY <1>0, ElementOfSeq
    <2>3. 1 \in Int /\ n \in Int /\ n + 1 \in Int /\ Len(outgoing) \in Int
      BY <1>0
    <2> QED BY <2>1, <2>2, <2>3, SubSeqProperties
  <1>3. a \o b = outgoing
    <2>1. 1 \in 1..(Len(outgoing) + 1) /\ n \in (1 - 1)..Len(outgoing) /\ Len(outgoing) \in n..Len(outgoing)
      BY <1>0
    <2>2. a \o b = SubSeq(outgoing, 1, Len(outgoing))
      BY <1>0, <2>1, ConcatAdjacentSubSeq
    <2> QED BY <1>0, <2>2, SubSeqFull
  <1>4. Stream' = Stream
    <2>1. (wire \o a) \o b = wire \o (a \o b)
      <3>1. wire \in Seq(Bytes) /\ a \in Seq(Bytes) /\ b \in Seq(Bytes)
        BY <1>0, <1>2
      <3> HIDE DEF a, b
      <3> QED BY ONLY <3>1, ConcatAssociative, SMTT(30)
    <2> QED BY <1>1, <1>3, <2>1 DEF Stream
  <1>5. IpcType'
    <2>1. wire \o a \in Seq(Bytes)
      <3> HIDE DEF a
      <3> QED BY <1>0, <1>2, ConcatProperties
    <2> QED BY <1>0, <1>1, <1>2, <2>1 DEF IpcType
  <1>6. Taken' /\ NextFrame' = NextFrame
    BY <1>1 DEF IpcInv, Taken, NextFrame
  <1> QED BY <1>1, <1>4, <1>5, <1>6 DEF IpcInv

LEMMA HangUpStep ==
  ASSUME IpcInv, HangUp
  PROVE  IpcInv'
  <1>0. IpcType /\ Taken /\ Chain(Stream, sent) /\ BeginsAt(Stream, need, NextFrame) /\ wire \in Seq(Bytes)
        /\ outgoing \in Seq(Bytes) /\ need \in Nat
    BY DEF IpcInv, IpcType
  <1>1. /\ link' = "closed" /\ outgoing' = <<>>
        /\ wire' = wire /\ sent' = sent /\ need' = need /\ got' = got /\ received' = received
    BY DEF HangUp
  <1>2. Stream' = wire /\ NextFrame' = NextFrame
    BY <1>0, <1>1, ConcatEmptySeq DEF Stream, NextFrame
  <1>3. Chain(wire, sent) /\ BeginsAt(wire, need, NextFrame)
    BY <1>0, PrefixChain DEF Stream
  <1>4. IpcType' /\ Taken'
    BY <1>0, <1>1 DEF IpcType, Taken
  <1> QED BY <1>1, <1>2, <1>3, <1>4 DEF IpcInv

LEMMA ReadLengthStep ==
  ASSUME IpcInv, ReadLength
  PROVE  IpcInv'
  <1> DEFINE r == Len(received)
             w == Stream
  <1>0. IpcType /\ Taken /\ Chain(w, sent) /\ BeginsAt(w, need, NextFrame) /\ need \in Nat
    BY DEF IpcInv, IpcType
  <1>1. /\ need = 0 /\ wire # <<>> /\ wire' = Tail(wire) /\ outgoing' = outgoing /\ sent' = sent
        /\ got' = got /\ received' = received
    BY DEF ReadLength
  <1>2. NextFrame = r + 1 /\ r \in Nat /\ sent \in Seq(Nat) /\ w \in Seq(Bytes)
    BY <1>0, <1>1, IpcFacts DEF NextFrame
  <1>3. w # <<>> /\ Head(w) = Head(wire) /\ Stream' = Tail(w) /\ Tail(wire) \in Seq(Bytes)
    BY <1>0, <1>1, StreamTail DEF Stream
  <1> HIDE DEF w
  <1>4. /\ Head(w).of = r + 1 /\ r + 1 \in 1..Len(sent) /\ Head(w).len = sent[r + 1] /\ sent[r + 1] > 0
        /\ BeginsAt(Tail(w), sent[r + 1], (r + 1) + 1)
    BY <1>0, <1>1, <1>2, <1>3, TailFront
  <1>5. sent[r + 1] \in 1..MaxFrameSize /\ sent[r + 1] \in Nat /\ Len(sent) \in Nat
    BY <1>0, <1>4, IpcFacts
  <1>6. need' = sent[r + 1] /\ link' = link
    BY <1>3, <1>4, <1>5 DEF ReadLength
  <1>7. IpcType'
    BY <1>0, <1>1, <1>3, <1>5, <1>6 DEF IpcType
  <1>8. Taken'
    <2>1. got = <<>> /\ r < Len(sent)
      BY <1>0, <1>1, <1>2, <1>4, <1>5 DEF Taken
    <2>2. Len(got) = 0 /\ sent[r + 1] - sent[r + 1] = 0 /\ sent[r + 1] <= sent[r + 1]
      BY <1>5, <2>1
    <2> QED BY <1>0, <1>1, <1>4, <1>6, <2>1, <2>2 DEF Taken
  <1>9. NextFrame' = (r + 1) + 1
    BY <1>1, <1>2, <1>4, <1>6 DEF NextFrame
  <1>10. Chain(Tail(w), sent)
    BY <1>0, <1>2, <1>3, TailChain
  <1>11. link' = "up" => EndsWhole(Tail(w), sent, sent[r + 1], (r + 1) + 1)
    <2> SUFFICES ASSUME link = "up" PROVE EndsWhole(Tail(w), sent, sent[r + 1], (r + 1) + 1)
      BY <1>6
    <2>1. EndsWhole(w, sent, 0, r + 1) /\ 0 \in Nat /\ r + 1 \in Nat
      BY <1>1, <1>2 DEF IpcInv, w
    <2> QED BY <1>2, <1>3, <1>4, <2>1, TailWhole
  <1> QED BY <1>1, <1>3, <1>4, <1>6, <1>7, <1>8, <1>9, <1>10, <1>11 DEF IpcInv

LEMMA ReadPayloadStep ==
  ASSUME IpcInv, ReadPayload
  PROVE  IpcInv'
  <1> DEFINE r == Len(received)
             w == Stream
             x == Payload(r + 1)
  <1>0. IpcType /\ Taken /\ Chain(w, sent) /\ BeginsAt(w, need, NextFrame) /\ need \in Nat
    BY DEF IpcInv, IpcType
  <1>1. /\ need > 0 /\ wire # <<>> /\ wire' = Tail(wire) /\ need' = need - 1
        /\ outgoing' = outgoing /\ sent' = sent /\ link' = link
    BY DEF ReadPayload
  <1>2. NextFrame = r + 2 /\ r \in Nat /\ sent \in Seq(Nat) /\ w \in Seq(Bytes) /\ Len(sent) \in Nat
    BY <1>0, <1>1, IpcFacts DEF NextFrame
  <1>3. w # <<>> /\ Head(w) = Head(wire) /\ Stream' = Tail(w) /\ Tail(wire) \in Seq(Bytes)
    BY <1>0, <1>1, StreamTail DEF Stream
  <1> HIDE DEF w
  <1>4. Head(wire) = x /\ BeginsAt(Tail(w), need - 1, r + 2)
    <2>1. Head(w) = Payload((r + 2) - 1) /\ BeginsAt(Tail(w), need - 1, r + 2)
      BY <1>0, <1>1, <1>2, <1>3, TailFront
    <2>2. (r + 2) - 1 = r + 1
      BY <1>2
    <2> QED BY <1>3, <2>1, <2>2
  <1>5. Chain(Tail(w), sent)
    BY <1>0, <1>2, <1>3, TailChain
  <1>6. link' = "up" => EndsWhole(Tail(w), sent, need - 1, r + 2)
    <2> SUFFICES ASSUME link = "up" PROVE EndsWhole(Tail(w), sent, need - 1, r + 2)
      BY <1>1
    <2>1. EndsWhole(w, sent, need, r + 2) /\ r + 2 \in Nat
      BY <1>2 DEF IpcInv, w
    <2> QED BY <1>0, <1>1, <1>2, <1>3, <2>1, TailWhole
  <1>7. /\ r + 1 \in 1..Len(sent) /\ sent[r + 1] \in Nat /\ need <= sent[r + 1] /\ Len(got) = sent[r + 1] - need
        /\ got \in Seq(Bytes) /\ \A i \in 1..Len(got) : got[i] = x
    <2>1. r < Len(sent) /\ need <= sent[r + 1] /\ Len(got) = sent[r + 1] - need /\ \A i \in 1..Len(got) : got[i] = x
      BY <1>0, <1>1 DEF Taken
    <2>2. r + 1 \in 1..Len(sent)
      BY <1>2, <2>1
    <2> QED BY <1>0, <2>1, <2>2, IpcFacts DEF IpcType
  <1> DEFINE g == Append(got, x)
  <1>8. g \in Seq(Bytes) /\ Len(g) = Len(got) + 1 /\ \A i \in 1..Len(g) : g[i] = x
    <2>1. x \in Bytes
      BY <1>2 DEF Payload, Bytes
    <2>2. g \in Seq(Bytes) /\ Len(g) = Len(got) + 1 /\ g[Len(got) + 1] = x /\ Len(got) \in Nat
          /\ \A i \in 1..Len(got) : g[i] = got[i]
      <3> HIDE DEF x
      <3> QED BY <1>7, <2>1
    <2>3. \A i \in 1..(Len(got) + 1) : i \in 1..Len(got) \/ i = Len(got) + 1
      BY <2>2
    <2> HIDE DEF g
    <2> QED BY <1>7, <2>2, <2>3
  <1>9. Len(received) <= Len(sent) /\ \A i \in 1..r : received[i] = [k \in 1..sent[i] |-> Payload(i)]
    BY <1>0 DEF Taken
  <1> HIDE DEF g
  <1>10. CASE need = 1
    <2>1. received' = Append(received, g) /\ got' = <<>> /\ need' = 0
      BY <1>1, <1>4, <1>10 DEF ReadPayload, g
    <2>2. IpcType'
      BY <1>0, <1>1, <1>3, <1>8, <2>1 DEF IpcType
    <2>3. Len(received') = r + 1 /\ received'[r + 1] = g /\ \A i \in 1..r : received'[i] = received[i]
      <3>1. received \in Seq(Seq(Bytes))
        BY <1>0 DEF IpcType
      <3> QED BY <1>8, <2>1, <3>1
    <2>4. g = [k \in 1..sent[r + 1] |-> Payload(r + 1)]
      <3>1. Len(g) = sent[r + 1]
        BY <1>2, <1>7, <1>8, <1>10
      <3>2. g = [k \in 1..Len(g) |-> g[k]]
        BY <1>8
      <3> QED BY <1>8, <3>1, <3>2
    <2>5. Taken'
      <3>1. \A i \in 1..(r + 1) : received'[i] = [k \in 1..sent[i] |-> Payload(i)]
        <4> SUFFICES ASSUME NEW i \in 1..(r + 1) PROVE received'[i] = [k \in 1..sent[i] |-> Payload(i)]
          OBVIOUS
        <4>1. CASE i = r + 1
          BY <2>3, <2>4, <4>1
        <4>2. CASE i # r + 1
          <5>1. i \in 1..r
            BY <1>2, <4>2
          <5> QED BY <1>9, <2>3, <5>1
        <4> QED BY <4>1, <4>2
      <3>2. r + 1 <= Len(sent)
        BY <1>2, <1>7
      <3> QED BY <1>1, <2>1, <2>3, <3>1, <3>2 DEF Taken
    <2>6. NextFrame' = r + 2
      BY <1>2, <2>1, <2>3 DEF NextFrame
    <2> QED BY <1>1, <1>3, <1>4, <1>5, <1>6, <2>2, <2>5, <2>6 DEF IpcInv
  <1>11. CASE need # 1
    <2>1. received' = received /\ got' = g /\ need - 1 \in Nat /\ need - 1 > 0
      BY <1>0, <1>1, <1>4, <1>11 DEF ReadPayload, g
    <2>2. IpcType'
      BY <1>0, <1>1, <1>3, <1>8, <2>1 DEF IpcType
    <2>3. Len(g) = sent[r + 1] - (need - 1) /\ need - 1 <= sent[r + 1]
      BY <1>0, <1>7, <1>8
    <2>4. r < Len(sent)
      BY <1>2, <1>7
    <2>5. Taken'
      BY <1>1, <1>8, <1>9, <2>1, <2>3, <2>4 DEF Taken
    <2>6. NextFrame' = r + 2
      BY <1>1, <1>2, <2>1 DEF NextFrame
    <2> QED BY <1>1, <1>3, <1>4, <1>5, <1>6, <2>2, <2>5, <2>6 DEF IpcInv
  <1> QED BY <1>10, <1>11

\* The socket (ipc.rs): for any sizes of payloads, however the bytes are cut and
\* whenever a peer hangs up, what is received is what was sent, whole and in order,
\* and the reader never finds itself out of step.
THEOREM FramesAreWhole == StoresSpec => []FramesWhole
  <1>1. StoresInit => IpcInv
    <2> SUFFICES ASSUME IpcInit PROVE IpcInv
      BY DEF StoresInit
    <2>1. IpcType
      BY DEF IpcInit, IpcType
    <2>2. Stream = <<>> /\ Len(Stream) = 0 /\ need = 0 /\ Len(received) = 0 /\ Len(sent) = 0 /\ got = <<>>
      BY ConcatEmptySeq DEF IpcInit, Stream
    <2>3. NextFrame = 1
      BY <2>2 DEF NextFrame
    <2>4. Taken
      BY <2>2 DEF Taken
    <2>5. Chain(Stream, sent)
      BY <2>2 DEF Chain
    <2>6. BeginsAt(Stream, need, NextFrame)
      BY <2>2 DEF BeginsAt
    <2>7. EndsWhole(Stream, sent, need, NextFrame)
      BY <2>2, <2>3 DEF EndsWhole
    <2> QED BY <2>1, <2>4, <2>5, <2>6, <2>7 DEF IpcInv
  <1>2. IpcInv /\ [StoresNext]_storesVars => IpcInv'
    <2> SUFFICES ASSUME IpcInv, [IpcNext]_ipcVars PROVE IpcInv'
      BY EachStore
    <2>1. CASE UNCHANGED ipcVars
      <3>1. /\ wire' = wire /\ outgoing' = outgoing /\ sent' = sent /\ need' = need /\ got' = got
            /\ received' = received /\ link' = link
        BY <2>1 DEF ipcVars
      <3> QED BY <3>1 DEF IpcInv, IpcType, Taken, Stream, NextFrame
    <2>2. CASE ReadEof
      <3>1. /\ wire' = wire /\ outgoing' = outgoing /\ sent' = sent /\ need' = need /\ got' = got
            /\ received' = received /\ link' = "eof"
        BY <2>2 DEF ReadEof
      <3> QED BY <3>1 DEF IpcInv, IpcType, Taken, Stream, NextFrame
    <2> QED BY <2>1, <2>2, SendStep, CarryStep, HangUpStep, ReadLengthStep, ReadPayloadStep DEF IpcNext
  <1>3. IpcInv => FramesWhole
    <2> SUFFICES ASSUME IpcInv PROVE FramesWhole
      OBVIOUS
    <2>1. IpcType /\ Taken
      BY DEF IpcInv
    <2>2. DOMAIN received = 1..Len(received) /\ Len(received) \in Nat /\ Len(sent) \in Nat
      BY <2>1 DEF IpcType
    <2>3. \A i \in 1..Len(received) : i <= Len(sent) /\ received[i] = [k \in 1..sent[i] |-> [len |-> 0, of |-> i]]
      BY <2>1, <2>2 DEF Taken, Payload
    <2>4. link # "misread"
      BY <2>1 DEF IpcType
    <2> QED BY <2>2, <2>3, <2>4 DEF FramesWhole
  <1> QED BY <1>1, <1>2, <1>3, PTL DEF StoresSpec

-----------------------------------------------------------------------------
(* Sums over finite sets, as the library's fold takes them.                *)

PickOf(s) == CHOOSE x \in s : TRUE

\* The sums of h over all subsets of S.
SumTable(h, S, g) ==
    g = [s \in SUBSET S |-> IF s = {} THEN 0 ELSE h[PickOf(s)] + g[s \ {PickOf(s)}]]

SumOver(h, S) == (CHOOSE g : SumTable(h, S, g))[S]

LEMMA PickIs ==
  ASSUME NEW s, s # {}
  PROVE  PickOf(s) \in s
  BY DEF PickOf

LEMMA SumTableExists ==
  ASSUME NEW S, IsFiniteSet(S), NEW h \in [S -> Int]
  PROVE  \E g : SumTable(h, S, g) /\ g \in [SUBSET S -> Int]
  <1> DEFINE Small(m) == {s \in SUBSET S : Cardinality(s) <= m}
             Good(m, g) == /\ g \in [Small(m) -> Int]
                           /\ \A s \in Small(m) : g[s] = IF s = {} THEN 0 ELSE h[PickOf(s)] + g[s \ {PickOf(s)}]
             W == {m \in Nat : \E g : Good(m, g)}
  <1>0. \A s \in SUBSET S : IsFiniteSet(s) /\ Cardinality(s) \in Nat
    BY FS_Subset, FS_CardinalityType
  <1>a. \A s \in SUBSET S : s # {} => /\ PickOf(s) \in s /\ s \ {PickOf(s)} \in SUBSET S
                                      /\ Cardinality(s \ {PickOf(s)}) = Cardinality(s) - 1
                                      /\ h[PickOf(s)] \in Int
    BY <1>0, PickIs, FS_RemoveElement
  <1>1. 0 \in W
    <2> DEFINE g == [s \in Small(0) |-> 0]
    <2>1. \A s \in Small(0) : s = {}
      BY <1>0, FS_EmptySet
    <2>2. Good(0, g)
      BY <2>1
    <2> QED BY <2>2
  <1>2. ASSUME NEW m \in W PROVE m + 1 \in W
    <2>1. PICK f : Good(m, f)
      BY <1>2
    <2>0. m \in Nat /\ \A s \in Small(m) : s \in Small(m + 1)
      BY <1>0
    <2> DEFINE g == [s \in Small(m + 1) |-> IF s \in Small(m) THEN f[s] ELSE h[PickOf(s)] + f[s \ {PickOf(s)}]]
    <2>2. ASSUME NEW s \in Small(m + 1), s # {} PROVE s \ {PickOf(s)} \in Small(m)
      <3>1. Cardinality(s) <= m + 1 /\ Cardinality(s) \in Nat /\ s \in SUBSET S
        BY <1>0
      <3>2. s \ {PickOf(s)} \in SUBSET S /\ Cardinality(s \ {PickOf(s)}) = Cardinality(s) - 1
        BY <1>a, <2>2
      <3>3. Cardinality(s \ {PickOf(s)}) <= m
        BY <2>0, <3>1, <3>2
      <3> QED BY <3>2, <3>3
    <2>3. \A s \in Small(m + 1) : s \notin Small(m) => s # {}
      <3>1. {} \in Small(m)
        BY <2>0, FS_EmptySet
      <3> QED BY <3>1
    <2> DEFINE SM == Small(m)
               SN == Small(m + 1)
    <2>4. /\ f \in [SM -> Int]
          /\ \A s \in SM : f[s] = IF s = {} THEN 0 ELSE h[PickOf(s)] + f[s \ {PickOf(s)}]
          /\ \A s \in SM : s \in SN /\ s \in SUBSET S
          /\ \A s \in SN : s # {} => s \ {PickOf(s)} \in SM /\ h[PickOf(s)] \in Int
          /\ \A s \in SN : s \notin SM => s # {}
      BY <1>a, <2>0, <2>1, <2>2, <2>3
    <2>5. g = [s \in SN |-> IF s \in SM THEN f[s] ELSE h[PickOf(s)] + f[s \ {PickOf(s)}]]
      OBVIOUS
    <2> HIDE DEF SM, SN, g
    <2>6. g \in [SN -> Int]
      BY <2>4, <2>5
    <2>7. \A s \in SM : g[s] = f[s]
      BY <2>4, <2>5
    <2>8. ASSUME NEW s \in SN PROVE g[s] = IF s = {} THEN 0 ELSE h[PickOf(s)] + g[s \ {PickOf(s)}]
      <3>1. CASE s \in SM
        BY <2>4, <2>7, <3>1
      <3>2. CASE s \notin SM
        BY <2>4, <2>5, <2>7, <3>2
      <3> QED BY <3>1, <3>2
    <2>9. Good(m + 1, g)
      BY <2>6, <2>8 DEF SN
    <2> HIDE DEF Good
    <2> QED BY <2>0, <2>9
  <1>3. Nat \subseteq W
    <2> HIDE DEF W
    <2> QED BY <1>1, <1>2, SetInduction
  <1>4. PICK g : Good(Cardinality(S), g)
    BY <1>0, <1>3
  <1>5. Small(Cardinality(S)) = SUBSET S
    BY <1>0, FS_Subset
  <1>6. SumTable(h, S, g) /\ g \in [SUBSET S -> Int]
    BY <1>4, <1>5 DEF SumTable
  <1> QED BY <1>6

\* The order in which the elements are taken does not matter.
LEMMA SumAny ==
  ASSUME NEW S, IsFiniteSet(S), NEW h \in [S -> Int], NEW g \in [SUBSET S -> Int], SumTable(h, S, g)
  PROVE  g[{}] = 0 /\ \A s \in SUBSET S : \A x \in s : g[s] = h[x] + g[s \ {x}]
  <1> DEFINE W == {n \in Nat : \A s \in SUBSET S : Cardinality(s) = n => \A x \in s : g[s] = h[x] + g[s \ {x}]}
  <1>0. \A s \in SUBSET S : IsFiniteSet(s) /\ Cardinality(s) \in Nat
    BY FS_Subset, FS_CardinalityType
  <1>1. \A s \in SUBSET S : g[s] = IF s = {} THEN 0 ELSE h[PickOf(s)] + g[s \ {PickOf(s)}]
    BY DEF SumTable
  <1>2. 0 \in W
    BY <1>0, FS_EmptySet
  <1>3. ASSUME NEW n \in W PROVE n + 1 \in W
    <2> SUFFICES ASSUME NEW s \in SUBSET S, Cardinality(s) = n + 1, NEW x \in s PROVE g[s] = h[x] + g[s \ {x}]
      OBVIOUS
    <2> DEFINE p == PickOf(s)
    <2>1. p \in s /\ g[s] = h[p] + g[s \ {p}]
      BY <1>1, PickIs
    <2>2. CASE p = x
      BY <2>1, <2>2
    <2>3. CASE p # x
      <3> HIDE DEF p
      <3>1. Cardinality(s \ {p}) = n /\ Cardinality(s \ {x}) = n
        <4>1. n \in Nat /\ IsFiniteSet(s) /\ (n + 1) - 1 = n
          BY <1>0
        <4>2. Cardinality(s \ {p}) = Cardinality(s) - 1 /\ Cardinality(s \ {x}) = Cardinality(s) - 1
          BY <2>1, <4>1, FS_RemoveElement
        <4> QED BY <4>1, <4>2
      <3>2. s \ {p} \in SUBSET S /\ x \in s \ {p} /\ s \ {x} \in SUBSET S /\ p \in s \ {x}
        BY <2>1, <2>3
      <3>3. g[s \ {p}] = h[x] + g[(s \ {p}) \ {x}] /\ g[s \ {x}] = h[p] + g[(s \ {x}) \ {p}]
        BY <1>3, <3>1, <3>2
      <3>4. (s \ {p}) \ {x} = (s \ {x}) \ {p} /\ (s \ {p}) \ {x} \in SUBSET S
        OBVIOUS
      <3>5. h[x] \in Int /\ h[p] \in Int /\ g[(s \ {p}) \ {x}] \in Int
        BY <2>1, <3>4
      <3> DEFINE c == g[(s \ {p}) \ {x}]
      <3>6. g[s \ {p}] = h[x] + c /\ g[s \ {x}] = h[p] + c /\ c \in Int
        BY <3>3, <3>4, <3>5
      <3>7. \A a, b, d \in Int : a + (b + d) = b + (a + d)
        OBVIOUS
      <3>8. g[s] = h[p] + (h[x] + c) /\ h[x] + g[s \ {x}] = h[x] + (h[p] + c)
        BY <2>1, <3>6
      <3> HIDE DEF c
      <3> QED BY ONLY <3>5, <3>6, <3>7, <3>8
    <2> QED BY <2>2, <2>3
  <1>4. Nat \subseteq W
    <2> HIDE DEF W
    <2> QED BY <1>2, <1>3, SetInduction
  <1>5. g[{}] = 0
    BY <1>1
  <1> QED BY <1>0, <1>4, <1>5

Sums(h, S, g) == IsFiniteSet(S) /\ h \in [S -> Int] /\ g \in [SUBSET S -> Int] /\ SumTable(h, S, g)
TakesOut(h, S, g) == g[{}] = 0 /\ \A s \in SUBSET S : \A x \in s : g[s] = h[x] + g[s \ {x}]

LEMMA SumsTakeOut ==
  ASSUME NEW S, NEW h, NEW g, Sums(h, S, g)
  PROVE  TakesOut(h, S, g)
  <1>1. IsFiniteSet(S) /\ h \in [S -> Int] /\ g \in [SUBSET S -> Int] /\ SumTable(h, S, g)
    BY DEF Sums
  <1> QED BY ONLY <1>1, SumAny DEF TakesOut

\* Sums of functions that agree on a set agree on it.
LEMMA SumAgree ==
  ASSUME NEW S, NEW h, NEW g, Sums(h, S, g), NEW T, NEW k, NEW f, Sums(k, T, f),
         NEW A \in SUBSET (S \cap T), \A x \in A : h[x] = k[x]
  PROVE  g[A] = f[A]
  <1> DEFINE G == {B \in SUBSET A : g[B] = f[B]}
  <1>a. TakesOut(h, S, g) /\ TakesOut(k, T, f)
    BY ONLY Sums(h, S, g), Sums(k, T, f), SumsTakeOut
  <1>1. {} \in G
    BY <1>a DEF TakesOut
  <1>2. ASSUME NEW B \in SUBSET A, NEW x \in A \ B, B \in G PROVE B \cup {x} \in G
    <2>1. B \cup {x} \in SUBSET S /\ B \cup {x} \in SUBSET T /\ x \in B \cup {x} /\ (B \cup {x}) \ {x} = B
      OBVIOUS
    <2>2. g[B \cup {x}] = h[x] + g[(B \cup {x}) \ {x}]
      BY <1>a, <2>1 DEF TakesOut
    <2>3. f[B \cup {x}] = k[x] + f[(B \cup {x}) \ {x}]
      BY <1>a, <2>1 DEF TakesOut
    <2>4. h[x] = k[x] /\ g[B] = f[B]
      BY <1>2
    <2> QED BY <2>1, <2>2, <2>3, <2>4
  <1>3. IsFiniteSet(A)
    BY FS_Subset DEF Sums
  <1>4. A \in G
    <2> HIDE DEF G
    <2> QED BY <1>1, <1>2, <1>3, SizeInduction
  <1> QED BY <1>4

LEMMA SumTableType ==
  ASSUME NEW S, IsFiniteSet(S), NEW h \in [S -> Int], NEW g, SumTable(h, S, g)
  PROVE  g \in [SUBSET S -> Int]
  <1>0. \A s \in SUBSET S : IsFiniteSet(s) /\ Cardinality(s) \in Nat
    BY FS_Subset, FS_CardinalityType
  <1>1. g = [s \in SUBSET S |-> g[s]] /\ \A s \in SUBSET S : g[s] = IF s = {} THEN 0 ELSE h[PickOf(s)] + g[s \ {PickOf(s)}]
    BY DEF SumTable
  <1> DEFINE V == {n \in Nat : \A s \in SUBSET S : Cardinality(s) = n => g[s] \in Int}
  <1>2. 0 \in V
    <2>1. \A s \in SUBSET S : Cardinality(s) = 0 => s = {}
      BY <1>0, FS_EmptySet
    <2>2. g[{}] = 0
      BY <1>1
    <2> QED BY <2>1, <2>2
  <1>3. ASSUME NEW n \in V PROVE n + 1 \in V
    <2> SUFFICES ASSUME NEW s \in SUBSET S, Cardinality(s) = n + 1 PROVE g[s] \in Int
      OBVIOUS
    <2>1. s # {} /\ n \in Nat /\ IsFiniteSet(s) /\ (n + 1) - 1 = n
      BY <1>0, FS_EmptySet
    <2>2. PickOf(s) \in s
      BY <2>1, PickIs
    <2>3. Cardinality(s \ {PickOf(s)}) = Cardinality(s) - 1
      <3>1. IsFiniteSet(s)
        BY <2>1
      <3> QED BY ONLY <2>2, <3>1, FS_RemoveElement
    <2>4. s \ {PickOf(s)} \in SUBSET S /\ Cardinality(s \ {PickOf(s)}) = n
      BY <2>1, <2>3
    <2>5. g[s \ {PickOf(s)}] \in Int
      BY <1>3, <2>4
    <2>6. h[PickOf(s)] \in Int
      BY <2>2
    <2>7. g[s] = h[PickOf(s)] + g[s \ {PickOf(s)}]
      BY <1>1, <2>1
    <2> QED BY ONLY <2>5, <2>6, <2>7
  <1>4. Nat \subseteq V
    <2> HIDE DEF V
    <2> QED BY <1>2, <1>3, SetInduction
  <1>5. \A s \in SUBSET S : g[s] \in Int
    BY <1>0, <1>4
  <1> HIDE DEF V
  <1> QED BY <1>1, <1>5

LEMMA SumOverTable ==
  ASSUME NEW S, IsFiniteSet(S), NEW h \in [S -> Int]
  PROVE  \E g \in [SUBSET S -> Int] : SumTable(h, S, g) /\ SumOver(h, S) = g[S]
  <1> DEFINE g == CHOOSE f : SumTable(h, S, f)
  <1>1. SumTable(h, S, g)
    BY SumTableExists
  <1>2. SumOver(h, S) = g[S]
    BY DEF SumOver
  <1> HIDE DEF g
  <1>3. g \in [SUBSET S -> Int]
    BY <1>1, SumTableType
  <1> QED BY <1>1, <1>2, <1>3

\* Any table of the sums will do.
LEMMA SumIs ==
  ASSUME NEW S, IsFiniteSet(S), NEW h \in [S -> Int], NEW c, SumTable(h, S, c)
  PROVE  c[S] = SumOver(h, S)
  <1>1. PICK g \in [SUBSET S -> Int] : SumTable(h, S, g) /\ SumOver(h, S) = g[S]
    BY SumOverTable
  <1>2. c \in [SUBSET S -> Int]
    BY SumTableType
  <1>3. Sums(h, S, g) /\ Sums(h, S, c)
    BY <1>1, <1>2 DEF Sums
  <1>4. S \in SUBSET (S \cap S) /\ \A x \in S : h[x] = h[x]
    OBVIOUS
  <1>5. g[S] = c[S]
    BY ONLY <1>3, <1>4, SumAgree
  <1> QED BY <1>1, <1>5

\* One element is taken out of a sum.
LEMMA SumSplit ==
  ASSUME NEW S, IsFiniteSet(S), NEW h \in [S -> Int], NEW x \in S,
         NEW k \in [S \ {x} -> Int], \A y \in S \ {x} : k[y] = h[y]
  PROVE  SumOver(h, S) = h[x] + SumOver(k, S \ {x}) /\ SumOver(h, S) \in Int /\ SumOver(k, S \ {x}) \in Int
  <1> DEFINE T == S \ {x}
  <1>0. IsFiniteSet(T)
    BY FS_RemoveElement
  <1>1. PICK g \in [SUBSET S -> Int] : SumTable(h, S, g) /\ SumOver(h, S) = g[S]
    BY SumOverTable
  <1>2. PICK f \in [SUBSET T -> Int] : SumTable(k, T, f) /\ SumOver(k, T) = f[T]
    BY <1>0, SumOverTable
  <1>3. g[S] = h[x] + g[T] /\ g[S] \in Int /\ T \in SUBSET S /\ T \in SUBSET T
    <2>1. Sums(h, S, g)
      BY <1>1 DEF Sums
    <2>2. TakesOut(h, S, g)
      BY ONLY <2>1, SumsTakeOut
    <2> QED BY <2>2 DEF TakesOut
  <1>4. g[T] = f[T]
    <2>1. T \in SUBSET (S \cap T) /\ \A y \in T : h[y] = k[y]
      OBVIOUS
    <2>2. k \in [T -> Int]
      OBVIOUS
    <2>3. Sums(h, S, g) /\ Sums(k, T, f)
      BY <1>0, <1>1, <1>2 DEF Sums
    <2> HIDE DEF T
    <2> QED BY ONLY <2>1, <2>2, <2>3, SumAgree
  <1>5. f[T] \in Int
    BY <1>3
  <1> QED BY <1>1, <1>2, <1>3, <1>4, <1>5

LEMMA SumEmpty ==
  ASSUME NEW h \in [{} -> Int]
  PROVE  SumOver(h, {}) = 0
  <1>1. PICK g \in [SUBSET {} -> Int] : SumTable(h, {}, g) /\ SumOver(h, {}) = g[{}]
    BY SumOverTable, FS_EmptySet
  <1>2. IsFiniteSet({}) /\ h \in [{} -> Int] /\ g \in [SUBSET {} -> Int] /\ SumTable(h, {}, g)
    BY <1>1, FS_EmptySet
  <1>3. g[{}] = 0
    BY ONLY <1>2, SumAny
  <1> QED BY <1>1, <1>3

\* A sum of as many values as there are elements lies between as many of the least
\* and of the greatest.
LEMMA SumBounds ==
  ASSUME NEW S, IsFiniteSet(S), NEW h \in [S -> 1..2]
  PROVE  SumOver(h, S) \in Int /\ Cardinality(S) <= SumOver(h, S) /\ SumOver(h, S) <= 2 * Cardinality(S)
  <1>0. h \in [S -> Int]
    OBVIOUS
  <1>1. PICK g \in [SUBSET S -> Int] : SumTable(h, S, g) /\ SumOver(h, S) = g[S]
    BY <1>0, SumOverTable
  <1> DEFINE G == {A \in SUBSET S : Cardinality(A) <= g[A] /\ g[A] <= 2 * Cardinality(A)}
  <1>a. IsFiniteSet(S) /\ h \in [S -> Int] /\ g \in [SUBSET S -> Int] /\ SumTable(h, S, g)
    BY <1>0, <1>1
  <1>b. g[{}] = 0 /\ \A s \in SUBSET S : \A x \in s : g[s] = h[x] + g[s \ {x}]
    BY ONLY <1>a, SumAny
  <1>2. \A s \in SUBSET S : \A x \in s : g[s] = h[x] + g[s \ {x}]
    BY <1>b
  <1>3. {} \in G
    <2>1. g[{}] = 0 /\ Cardinality({}) = 0
      BY <1>b, FS_EmptySet
    <2> QED BY <2>1
  <1>4. ASSUME NEW A \in SUBSET S, NEW x \in S \ A, A \in G PROVE A \cup {x} \in G
    <2>1. A \cup {x} \in SUBSET S /\ x \in A \cup {x} /\ (A \cup {x}) \ {x} = A
      OBVIOUS
    <2>2. g[A \cup {x}] = h[x] + g[A] /\ g[A] \in Int /\ h[x] \in 1..2
      BY <1>2, <2>1
    <2>3. IsFiniteSet(A) /\ Cardinality(A) \in Nat
      BY FS_Subset, FS_CardinalityType
    <2>4. Cardinality(A \cup {x}) = Cardinality(A) + 1
      BY <2>3, FS_AddElement
    <2>5. Cardinality(A) <= g[A] /\ g[A] <= 2 * Cardinality(A)
      BY <1>4
    <2>6. Cardinality(A \cup {x}) <= g[A \cup {x}] /\ g[A \cup {x}] <= 2 * Cardinality(A \cup {x})
      BY <2>2, <2>3, <2>4, <2>5
    <2> QED BY <2>1, <2>6
  <1>5. S \in G
    <2> HIDE DEF G
    <2> QED BY <1>3, <1>4, SizeInduction
  <1> QED BY <1>1, <1>5

-----------------------------------------------------------------------------
(* Learning: the replay buffer.                                            *)

\* What the assumption says of everything but how fine a Q value is.
LEMMA LearnFacts ==
  /\ MaxExperiences \in Nat /\ MaxRecent \in Nat /\ MaxActionRecords \in Nat \ {0}
  /\ TrendWindow \in 1..MaxRecent /\ ExpPriorities \subseteq Nat /\ QScale \in Nat \ {0}
  /\ QRewards \subseteq Int /\ IsFiniteSet(QRewards) /\ IsFiniteSet(QActions) /\ Arms \subseteq Nat
  BY LearningAssumption, Zenon

\* As long as there is room nothing was dropped; what was dropped is no better
\* than what is there.
ReplayInv ==
    /\ learned \in Nat /\ experiences \in Seq(Nat \X Nat) /\ dropped \subseteq Nat \X Nat
    /\ Len(experiences) <= MaxExperiences
    /\ Len(experiences) < MaxExperiences => dropped = {}
    /\ \A i \in 1..Len(experiences), d \in dropped : experiences[i][2] >= d[2]

LEMMA FrontPart ==
  ASSUME NEW X, NEW s \in Seq(X), NEW n \in Nat, n <= Len(s)
  PROVE  /\ SubSeq(s, 1, n) \in Seq(X) /\ Len(SubSeq(s, 1, n)) = n
         /\ \A j \in 1..n : SubSeq(s, 1, n)[j] = s[j]
  OBVIOUS

\* t is s with one item fewer.
OneFewer(t, s) ==
    /\ t \in Seq(Nat \X Nat) /\ Len(t) = Len(s) - 1
    /\ \A j \in 1..(Len(s) - 1) : \E k \in 1..Len(s) : t[j] = s[k]

LEMMA SwapRemoveIs ==
  ASSUME NEW s \in Seq(Nat \X Nat), NEW i \in 1..Len(s)
  PROVE  OneFewer(SwapRemove(s, i), s)
  <1> DEFINE t == [s EXCEPT ![i] = s[Len(s)]]
  <1>0. Len(s) \in Nat \ {0} /\ Len(s) \in 1..Len(s)
    OBVIOUS
  <1>1. t \in Seq(Nat \X Nat) /\ Len(t) = Len(s) /\ \A j \in 1..Len(s) : t[j] = IF j = i THEN s[Len(s)] ELSE s[j]
    BY <1>0, ExceptSeq
  <1> HIDE DEF t
  <1>2. SwapRemove(s, i) = SubSeq(t, 1, Len(s) - 1)
    BY DEF SwapRemove, t
  <1>3. /\ SubSeq(t, 1, Len(s) - 1) \in Seq(Nat \X Nat) /\ Len(SubSeq(t, 1, Len(s) - 1)) = Len(s) - 1
        /\ \A j \in 1..(Len(s) - 1) : SubSeq(t, 1, Len(s) - 1)[j] = t[j]
    <2>1. Len(s) - 1 \in Nat /\ Len(s) - 1 <= Len(t)
      BY <1>0, <1>1
    <2> QED BY <1>1, <2>1, FrontPart
  <1>4. \A j \in 1..(Len(s) - 1) : SwapRemove(s, i)[j] = IF j = i THEN s[Len(s)] ELSE s[j]
    BY <1>0, <1>1, <1>2, <1>3
  <1>5. \A j \in 1..(Len(s) - 1) : j \in 1..Len(s)
    BY <1>0
  <1> QED BY <1>0, <1>2, <1>3, <1>4, <1>5 DEF OneFewer

LEMMA LowestIs ==
  ASSUME ReplayInv, experiences # <<>>
  PROVE  Lowest \in 1..Len(experiences) /\ \A j \in 1..Len(experiences) : experiences[Lowest][2] <= experiences[j][2]
  <1> DEFINE C == 1..Len(experiences)
             f == [i \in C |-> experiences[i][2]]
  <1>0. experiences \in Seq(Nat \X Nat) /\ DOMAIN experiences = C /\ Len(experiences) \in Nat \ {0}
    BY DEF ReplayInv
  <1>1. C \in SUBSET Nat /\ C # {} /\ IsFiniteSet(C) /\ f \in [C -> Int]
    <2>0. 1 \in C /\ \A i \in C : i \in Nat
      BY <1>0
    <2>1. C # {} /\ C \in SUBSET Nat
      <3> HIDE DEF C
      <3> QED BY <2>0
    <2>2. IsFiniteSet(C)
      BY <1>0, FS_Interval
    <2>3. \A i \in C : experiences[i][2] \in Int
      BY <1>0
    <2> QED BY <2>1, <2>2, <2>3
  <1>2. \E i \in C : \A j \in C : f[i] < f[j] \/ (f[i] = f[j] /\ i <= j)
    <2> HIDE DEF C, f
    <2> QED BY <1>1, FirstOfBest
  <1>3. \E i \in C : \A j \in C : experiences[i][2] < experiences[j][2] \/ (experiences[i][2] = experiences[j][2] /\ i <= j)
    BY <1>2
  <1>4. Lowest \in C /\ \A j \in C : experiences[Lowest][2] < experiences[j][2] \/ experiences[Lowest][2] = experiences[j][2]
    BY <1>0, <1>3 DEF Lowest
  <1>5. \A j \in C : experiences[j][2] \in Nat
    BY <1>0
  <1> QED BY <1>4, <1>5

LEMMA ReplayStep ==
  ASSUME ReplayInv, NEW p \in ExpPriorities, PushExperience(p)
  PROVE  ReplayInv'
  <1> DEFINE new == <<learned + 1, p>>
             L == Len(experiences)
  <1>0. /\ learned \in Nat /\ learned' = learned + 1 /\ p \in Nat /\ new \in Nat \X Nat /\ new[2] = p
        /\ L \in Nat /\ MaxExperiences \in Nat /\ L <= MaxExperiences /\ experiences \in Seq(Nat \X Nat)
        /\ dropped \subseteq Nat \X Nat
        /\ \A i \in 1..L, d \in dropped : experiences[i][2] >= d[2]
        /\ \A i \in 1..L : experiences[i] \in Nat \X Nat /\ experiences[i][2] \in Nat
        /\ \A d \in dropped : d[2] \in Nat
    <2>1. learned \in Nat /\ learned' = learned + 1 /\ p \in Nat
      BY LearnFacts DEF ReplayInv, PushExperience, Learns
    <2>2. /\ L \in Nat /\ MaxExperiences \in Nat /\ L <= MaxExperiences /\ experiences \in Seq(Nat \X Nat)
          /\ dropped \subseteq Nat \X Nat
          /\ \A i \in 1..L, d \in dropped : experiences[i][2] >= d[2]
      BY LearnFacts DEF ReplayInv
    <2>3. new \in Nat \X Nat /\ new[2] = p
      BY <2>1
    <2>4. \A i \in 1..L : experiences[i] \in Nat \X Nat
      BY <2>2
    <2>5. \A e \in Nat \X Nat : e[2] \in Nat
      OBVIOUS
    <2> QED BY <2>1, <2>2, <2>3, <2>4, <2>5
  <1>1. CASE L < MaxExperiences
    <2>1. experiences' = Append(experiences, new) /\ dropped' = {}
      BY <1>1 DEF PushExperience, ReplayInv
    <2>2. experiences' \in Seq(Nat \X Nat) /\ Len(experiences') = L + 1
      BY <1>0, <2>1
    <2> QED BY <1>0, <1>1, <2>1, <2>2, LearnFacts DEF ReplayInv
  <1>2. CASE ~(L < MaxExperiences) /\ experiences # <<>> /\ Admits(p)
    <2> DEFINE l == Lowest
               t == SwapRemove(experiences, l)
    <2>1. experiences' = Append(t, new) /\ dropped' = dropped \cup {experiences[l]}
      BY <1>2 DEF PushExperience
    <2>2. l \in 1..L /\ \A j \in 1..L : experiences[l][2] <= experiences[j][2]
      BY <1>2, LowestIs
    <2>3. p > experiences[l][2]
      BY <1>2 DEF Admits
    <2> HIDE DEF l
    <2>4. t \in Seq(Nat \X Nat) /\ Len(t) = L - 1 /\ \A j \in 1..(L - 1) : \E k \in 1..L : t[j] = experiences[k]
      <3>1. experiences \in Seq(Nat \X Nat) /\ l \in 1..Len(experiences)
        BY <1>0, <2>2
      <3>2. OneFewer(SwapRemove(experiences, l), experiences)
        BY ONLY <3>1, SwapRemoveIs
      <3> QED BY <3>2 DEF OneFewer
    <2> HIDE DEF t
    <2>5. /\ experiences' \in Seq(Nat \X Nat) /\ Len(experiences') = L /\ L \in Nat \ {0}
          /\ experiences'[L] = new /\ \A j \in 1..(L - 1) : experiences'[j] = t[j]
      BY <1>0, <2>1, <2>2, <2>4
    <2>6. ASSUME NEW i \in 1..L PROVE experiences'[i][2] \in Nat /\ experiences'[i][2] >= experiences[l][2]
      <3>1. CASE i = L
        BY <1>0, <2>2, <2>3, <2>5, <3>1, SMTT(30)
      <3>2. CASE i # L
        <4>1. i \in 1..(L - 1)
          BY <1>0, <3>2
        <4>2. PICK k \in 1..L : t[i] = experiences[k]
          BY <2>4, <4>1
        <4>3. experiences'[i][2] = experiences[k][2]
          BY <2>5, <4>1, <4>2
        <4> QED BY <1>0, <2>2, <4>2, <4>3
      <3> QED BY <3>1, <3>2
    <2>7. \A d \in dropped' : d[2] \in Nat /\ experiences[l][2] >= d[2]
      BY <1>0, <2>1, <2>2
    <2>8. experiences[l][2] \in Nat
      BY <1>0, <2>2
    <2>9. \A i \in 1..Len(experiences'), d \in dropped' : experiences'[i][2] >= d[2]
      <3> SUFFICES ASSUME NEW i \in 1..Len(experiences'), NEW d \in dropped' PROVE experiences'[i][2] >= d[2]
        OBVIOUS
      <3>1. experiences'[i][2] \in Nat /\ experiences'[i][2] >= experiences[l][2]
        BY <2>5, <2>6
      <3>2. d[2] \in Nat /\ experiences[l][2] >= d[2]
        BY <2>7
      <3> HIDE DEF L
      <3> QED BY ONLY <3>1, <3>2, <2>8
    <2>10. dropped' \subseteq Nat \X Nat
      BY <1>0, <2>1, <2>2
    <2> QED BY <1>0, <1>2, <2>5, <2>9, <2>10, LearnFacts DEF ReplayInv
  <1>3. CASE ~(L < MaxExperiences) /\ ~(experiences # <<>> /\ Admits(p))
    <2>1. experiences' = experiences /\ dropped' = dropped \cup {new}
      BY <1>3 DEF PushExperience
    <2>2. ASSUME NEW i \in 1..L PROVE experiences[i][2] >= p
      <3>1. experiences # <<>>
        BY <1>0
      <3>2. Lowest \in 1..L /\ experiences[Lowest][2] <= experiences[i][2]
        BY <3>1, LowestIs
      <3>3. ~(p > experiences[Lowest][2])
        BY <1>3, <3>1 DEF Admits
      <3>4. p \in Nat /\ experiences[Lowest][2] \in Nat /\ experiences[i][2] \in Nat
        BY <1>0, <3>2
      <3> QED BY ONLY <3>2, <3>3, <3>4
    <2>3. \A i \in 1..Len(experiences'), d \in dropped' : experiences'[i][2] >= d[2]
      BY <1>0, <2>1, <2>2
    <2> QED BY <1>0, <1>3, <2>1, <2>3, LearnFacts DEF ReplayInv
  <1> QED BY <1>1, <1>2, <1>3

\* There is a sample of any size: experiences with a priority as long as there are
\* any, then the first of the others.
LEMMA SamplesExist ==
  ASSUME ReplayInv, NEW n \in Nat
  PROVE  Samples(n) # {}
  <1> DEFINE L == Len(experiences)
             D == 1..L
             Wd == {i \in D : experiences[i][2] > 0}
             Ok(S) == \/ S \subseteq Wd
                      \/ (Wd \subseteq S /\ \A i \in S \ Wd, j \in D \ S : i < j)
             K == {k \in Nat : k <= L => \E S \in SUBSET D : Cardinality(S) = k /\ Ok(S)}
  <1>0. L \in Nat /\ DOMAIN experiences = D /\ IsFiniteSet(D) /\ Cardinality(D) = L
    <2>1. L \in Nat /\ DOMAIN experiences = D
      BY DEF ReplayInv
    <2>2. IsFiniteSet(D) /\ Cardinality(D) = L
      <3> HIDE DEF L
      <3> QED BY <2>1, FS_Interval
    <2> QED BY <2>1, <2>2
  <1>a. \A S \in SUBSET D : IsFiniteSet(S)
    BY <1>0, FS_Subset
  <1>1. 0 \in K
    BY FS_EmptySet
  <1>2. ASSUME NEW k \in K PROVE k + 1 \in K
    <2> SUFFICES ASSUME k + 1 <= L PROVE \E S \in SUBSET D : Cardinality(S) = k + 1 /\ Ok(S)
      OBVIOUS
    <2>1. k \in Nat /\ k <= L
      BY <1>0
    <2>2. PICK S \in SUBSET D : Cardinality(S) = k /\ Ok(S)
      BY <1>2, <2>1
    <2>3. \A x \in D \ S : Cardinality(S \cup {x}) = k + 1 /\ S \cup {x} \in SUBSET D
      BY <1>a, <2>2, FS_AddElement
    <2>4. CASE \E x \in Wd : x \notin S /\ S \subseteq Wd
      <3>1. PICK x \in Wd : x \notin S /\ S \subseteq Wd
        BY <2>4
      <3>2. x \in D \ S /\ Ok(S \cup {x})
        BY <3>1
      <3> HIDE DEF D, Ok
      <3> QED BY <2>3, <3>2
    <2>5. CASE ~(\E x \in Wd : x \notin S /\ S \subseteq Wd)
      <3>1. Wd \subseteq S /\ \A i \in S \ Wd, j \in D \ S : i < j
        BY <2>2, <2>5
      <3>2. D \ S # {} /\ D \ S \in SUBSET Nat
        <4>1. S # D
          BY <1>0, <2>1, <2>2
        <4>2. \E x \in D : x \notin S
          BY <4>1, Zenon
        <4> QED BY <4>2
      <3>3. PICK m \in D \ S : \A y \in D \ S : m <= y
        <4> DEFINE R == D \ S
        <4>1. R \in SUBSET Nat /\ R # {}
          BY <3>2
        <4> HIDE DEF R
        <4>2. \E x \in R : \A y \in R : x <= y
          BY <4>1, LeastNat
        <4> QED BY <4>2 DEF R
      <3>4. Ok(S \cup {m})
        <4>1. Wd \subseteq S \cup {m}
          BY <3>1
        <4>2. ASSUME NEW i \in (S \cup {m}) \ Wd, NEW j \in D \ (S \cup {m}) PROVE i < j
          BY <3>1, <3>3
        <4> QED BY <4>1, <4>2
      <3> HIDE DEF D, Ok
      <3> QED BY <2>3, <3>3, <3>4
    <2> QED BY <2>4, <2>5
  <1>3. Nat \subseteq K
    <2> HIDE DEF K
    <2> QED BY <1>1, <1>2, SetInduction
  <1> DEFINE size == IF n < L THEN n ELSE L
  <1>4. size \in Nat /\ size <= L
    BY <1>0
  <1>5. PICK S \in SUBSET D : Cardinality(S) = size /\ Ok(S)
    BY <1>3, <1>4
  <1>6. S \in Samples(n)
    BY <1>0, <1>5 DEF Samples
  <1> QED BY <1>6

-----------------------------------------------------------------------------
(* Learning: scores and records.                                           *)

LEMMA RecentIs ==
  ASSUME NEW X, NEW s \in Seq(X), NEW n \in Nat
  PROVE  /\ Recent(s, n) \in Seq(X) /\ Len(Recent(s, n)) <= n /\ Len(Recent(s, n)) <= Len(s)
         /\ Len(s) <= n => Recent(s, n) = s
         /\ Len(s) > n => Recent(s, n) = LastOf(s, n) /\ Len(Recent(s, n)) = n
  <1>1. CASE Len(s) <= n
    BY <1>1 DEF Recent
  <1>2. CASE ~(Len(s) <= n)
    <2>1. n \in 0..Len(s)
      BY <1>2
    <2>2. LastOf(s, n) \in Seq(X) /\ Len(LastOf(s, n)) = n
      BY <2>1, LastOfIs
    <2>3. Recent(s, n) = LastOf(s, n)
      BY <1>2 DEF Recent, LastOf
    <2> QED BY <1>2, <2>2, <2>3
  <1> QED BY <1>1, <1>2

\* Cutting as the outcomes come leaves what cutting them all at once would.
LEMMA RecentGrows ==
  ASSUME NEW X, NEW s \in Seq(X), NEW x \in X, NEW n \in Nat \ {0}
  PROVE  Recent(Append(Recent(s, n), x), n) = Recent(Append(s, x), n)
  <1> DEFINE t == Append(s, x)
             r == Recent(s, n)
             u == Append(r, x)
  <1>0. t \in Seq(X) /\ Len(t) = Len(s) + 1 /\ t[Len(t)] = x /\ \A i \in 1..Len(s) : t[i] = s[i]
    OBVIOUS
  <1>1. CASE Len(s) < n
    <2>1. Len(s) <= n
      BY <1>1
    <2>2. Recent(s, n) = s
      BY <2>1 DEF Recent
    <2> QED BY <2>2
  <1>2. CASE ~(Len(s) < n)
    <2>0. n \in 0..Len(s) /\ n \in 0..Len(t) /\ Len(s) \in Nat
      BY <1>0, <1>2
    <2>1. r \in Seq(X) /\ Len(r) = n /\ \A i \in 1..n : r[i] = s[Len(s) - n + i]
      <3>1. CASE Len(s) = n
        <4>1. r = s
          BY <3>1 DEF Recent
        <4>2. \A i \in 1..n : Len(s) - n + i = i
          BY <3>1
        <4> QED BY <3>1, <4>1, <4>2
      <3>2. CASE Len(s) # n
        <4>1. Len(s) > n
          BY <2>0, <3>2
        <4>2. r = LastOf(s, n)
          BY <4>1, RecentIs
        <4>3. LastOf(s, n) \in Seq(X) /\ Len(LastOf(s, n)) = n /\ \A i \in 1..n : LastOf(s, n)[i] = s[Len(s) - n + i]
          BY <2>0, LastOfIs
        <4> QED BY <4>2, <4>3
      <3> QED BY <3>1, <3>2
    <2> HIDE DEF r
    <2>2. u \in Seq(X) /\ Len(u) = n + 1 /\ u[n + 1] = x /\ \A i \in 1..n : u[i] = r[i]
      BY <2>1
    <2>3. n \in 0..Len(u) /\ Len(u) > n /\ Len(t) > n
      BY <1>0, <2>0, <2>2
    <2> HIDE DEF u, t
    <2>4. Recent(u, n) = LastOf(u, n) /\ Recent(t, n) = LastOf(t, n)
      BY <1>0, <2>2, <2>3, RecentIs
    <2>5. LastOf(u, n) \in Seq(X) /\ Len(LastOf(u, n)) = n /\ \A i \in 1..n : LastOf(u, n)[i] = u[Len(u) - n + i]
      BY <2>2, <2>3, LastOfIs
    <2>6. LastOf(t, n) \in Seq(X) /\ Len(LastOf(t, n)) = n /\ \A i \in 1..n : LastOf(t, n)[i] = t[Len(t) - n + i]
      BY <1>0, <2>0, LastOfIs
    <2>7. ASSUME NEW i \in 1..n PROVE LastOf(u, n)[i] = LastOf(t, n)[i]
      <3>1. CASE i = n
        <4>1. Len(u) - n + i = n + 1 /\ Len(t) - n + i = Len(t)
          BY <1>0, <2>2, <2>0, <3>1
        <4> QED BY <1>0, <2>2, <2>5, <2>6, <4>1
      <3>2. CASE i # n
        <4>1. /\ Len(u) - n + i = i + 1 /\ i + 1 \in 1..n /\ Len(s) - n + (i + 1) = Len(t) - n + i
              /\ Len(s) - n + (i + 1) \in 1..Len(s)
          BY <1>0, <2>2, <2>0, <3>2
        <4>2. LastOf(u, n)[i] = u[i + 1] /\ u[i + 1] = r[i + 1] /\ r[i + 1] = s[Len(s) - n + (i + 1)]
          BY <2>1, <2>2, <2>5, <4>1
        <4>3. LastOf(t, n)[i] = t[Len(s) - n + (i + 1)] /\ t[Len(s) - n + (i + 1)] = s[Len(s) - n + (i + 1)]
          BY <1>0, <2>6, <4>1
        <4> QED BY <4>2, <4>3
      <3> QED BY <3>1, <3>2
    <2>8. LastOf(u, n) = LastOf(t, n)
      BY <2>5, <2>6, <2>7, SeqEqual
    <2> QED BY <2>4, <2>8 DEF r, u, t
  <1> QED BY <1>1, <1>2

LEMMA UpTo ==
  ASSUME NEW n \in Nat
  PROVE  IsFiniteSet(1..n) /\ Cardinality(1..n) = n
  BY FS_Interval

LEMMA HitsIs ==
  ASSUME NEW s \in Seq(BOOLEAN)
  PROVE  /\ Hits(s) \in Nat /\ Hits(s) <= Len(s)
         /\ (\A i \in 1..Len(s) : s[i] = TRUE) => Hits(s) = Len(s)
  <1> DEFINE D == 1..Len(s)
             H == {i \in D : s[i]}
  <1>0. Len(s) \in Nat /\ DOMAIN s = D /\ IsFiniteSet(D) /\ Cardinality(D) = Len(s)
    <2>1. Len(s) \in Nat /\ DOMAIN s = D
      OBVIOUS
    <2> QED BY <2>1, UpTo
  <1>1. Hits(s) = Cardinality(H)
    BY <1>0 DEF Hits
  <1>2. IsFiniteSet(H) /\ Cardinality(H) <= Cardinality(D) /\ Cardinality(H) \in Nat
    <2>1. H \subseteq D
      OBVIOUS
    <2> HIDE DEF H, D
    <2> QED BY <1>0, <2>1, FS_Subset, FS_CardinalityType
  <1>3. ASSUME \A i \in D : s[i] = TRUE PROVE H = D
    BY <1>3
  <1> QED BY <1>0, <1>1, <1>2, <1>3

LEMMA HitsGrow ==
  ASSUME NEW s \in Seq(BOOLEAN), NEW ok \in BOOLEAN
  PROVE  Hits(Append(s, ok)) = Hits(s) + (IF ok THEN 1 ELSE 0)
  <1> DEFINE t == Append(s, ok)
             H == {i \in 1..Len(s) : s[i]}
             J == {i \in 1..Len(t) : t[i]}
             m == Len(s) + 1
  <1>0. Len(s) \in Nat /\ t \in Seq(BOOLEAN) /\ Len(t) = m /\ t[m] = ok /\ \A i \in 1..Len(s) : t[i] = s[i]
    OBVIOUS
  <1>1. Hits(s) = Cardinality(H) /\ Hits(t) = Cardinality(J)
    <2>1. DOMAIN s = 1..Len(s) /\ DOMAIN t = 1..Len(t)
      BY <1>0
    <2> HIDE DEF t
    <2> QED BY <2>1 DEF Hits
  <1>2. IsFiniteSet(H) /\ Cardinality(H) \in Nat /\ m \notin H
    <2>1. H \subseteq 1..Len(s) /\ m \notin 1..Len(s)
      BY <1>0
    <2> HIDE DEF H
    <2>2. IsFiniteSet(1..Len(s))
      BY <1>0, UpTo
    <2> QED BY <2>1, <2>2, FS_Subset, FS_CardinalityType
  <1>3. \A i : i \in 1..Len(t) <=> (i \in 1..Len(s) \/ i = m)
    BY <1>0
  <1>4. CASE ok = TRUE
    <2>1. J = H \cup {m}
      <3> HIDE DEF t, m
      <3> QED BY <1>0, <1>3, <1>4
    <2>2. Cardinality(H \cup {m}) = Cardinality(H) + 1
      <3> HIDE DEF H, m
      <3> QED BY <1>2, FS_AddElement
    <2> QED BY <1>1, <1>4, <2>1, <2>2
  <1>5. CASE ok = FALSE
    <2>1. J = H
      <3> HIDE DEF t, m
      <3> QED BY <1>0, <1>3, <1>5
    <2>2. Cardinality(H) + 0 = Cardinality(H)
      <3> HIDE DEF H
      <3> QED BY <1>2
    <2>3. Hits(t) = Hits(s) + 0
      <3> HIDE DEF H, J
      <3> QED BY <1>1, <2>1, <2>2
    <2> QED BY <1>5, <2>3
  <1> QED BY <1>4, <1>5

\* The counts are those of the whole history, of which the last outcomes are kept.
ScoreInv ==
    /\ outcomes \in Seq(BOOLEAN) /\ successes = Hits(outcomes) /\ failures = Len(outcomes) - Hits(outcomes)
    /\ recent = Recent(outcomes, MaxRecent)

LEMMA ScoreStep ==
  ASSUME ScoreInv, NEW ok \in BOOLEAN, RecordOutcome(ok)
  PROVE  ScoreInv'
  <1>0. MaxRecent \in Nat \ {0}
    BY LearnFacts
  <1>1. outcomes \in Seq(BOOLEAN) /\ Hits(outcomes) \in Nat
    BY HitsIs DEF ScoreInv
  <1>2. /\ outcomes' = Append(outcomes, ok) /\ recent' = Recent(Append(recent, ok), MaxRecent)
        /\ successes' = successes + (IF ok THEN 1 ELSE 0) /\ failures' = failures + (IF ok THEN 0 ELSE 1)
    BY DEF RecordOutcome
  <1>3. outcomes' \in Seq(BOOLEAN) /\ Len(outcomes') = Len(outcomes) + 1 /\ Len(outcomes) \in Nat
    BY <1>1, <1>2
  <1>4. Hits(outcomes') = Hits(outcomes) + (IF ok THEN 1 ELSE 0)
    BY <1>1, <1>2, HitsGrow
  <1>5. successes' = Hits(outcomes')
    BY <1>2, <1>4 DEF ScoreInv
  <1>6. failures' = Len(outcomes') - Hits(outcomes')
    <2>1. failures = Len(outcomes) - Hits(outcomes)
      BY DEF ScoreInv
    <2>2. CASE ok
      BY <1>1, <1>2, <1>3, <1>4, <2>1, <2>2
    <2>3. CASE ~ok
      BY <1>1, <1>2, <1>3, <1>4, <2>1, <2>3
    <2> QED BY <2>2, <2>3
  <1>7. recent' = Recent(outcomes', MaxRecent)
    BY <1>0, <1>1, <1>2, RecentGrows DEF ScoreInv
  <1>8. Recent(outcomes', MaxRecent) = Recent(outcomes, MaxRecent)' /\ Hits(outcomes') = Hits(outcomes)'
    BY DEF Recent, Hits
  <1> QED BY <1>3, <1>5, <1>6, <1>7, <1>8 DEF ScoreInv

\* The trend is stable while the window is the history, and rises only when
\* something had failed.
LEMMA TrendIs ==
  ASSUME ScoreInv
  PROVE  /\ Len(outcomes) <= TrendWindow => Trend = "stable"
         /\ Trend = "improving" => FALSE \in {outcomes[i] : i \in DOMAIN outcomes}
  <1> DEFINE w == TrendWindow
             n == Len(outcomes)
             a == Hits(Recent(recent, w))
             b == Hits(outcomes)
  <1>0. w \in Nat \ {0} /\ MaxRecent \in Nat /\ w <= MaxRecent /\ outcomes \in Seq(BOOLEAN) /\ n \in Nat
    BY LearnFacts DEF ScoreInv
  <1>1. b \in Nat /\ b <= n /\ successes = b /\ successes + failures = n
    <2>1. b \in Nat /\ b <= n
      BY <1>0, HitsIs
    <2>2. successes = b /\ failures = n - b
      BY DEF ScoreInv
    <2> HIDE DEF b, n
    <2> QED BY <1>0, <2>1, <2>2
  <1>2. recent \in Seq(BOOLEAN) /\ Len(recent) <= n
    BY <1>0, RecentIs DEF ScoreInv
  <1>3. Recent(recent, w) \in Seq(BOOLEAN) /\ Len(Recent(recent, w)) <= w
    BY <1>0, <1>2, RecentIs
  <1>4. a \in Nat /\ a <= w
    <2> DEFINE s == Recent(recent, w)
    <2>1. s \in Seq(BOOLEAN) /\ Len(s) <= w /\ Len(s) \in Nat
      BY <1>3
    <2> HIDE DEF s
    <2>2. Hits(s) \in Nat /\ Hits(s) <= Len(s)
      BY ONLY <2>1, HitsIs
    <2>3. Hits(s) <= w
      BY ONLY <1>0, <2>1, <2>2
    <2> QED BY <2>2, <2>3 DEF s
  <1>5. Trend = IF Len(recent) < w THEN "stable"
                ELSE IF 10 * (a * n - b * w) > w * n THEN "improving"
                ELSE IF 10 * (a * n - b * w) < -w * n THEN "declining"
                ELSE "stable"
    BY <1>1 DEF Trend
  <1>6. ASSUME n <= w, ~(Len(recent) < w) PROVE Trend = "stable"
    <2>1. n = w /\ n <= MaxRecent
      BY <1>0, <1>2, <1>6
    <2>2. recent = outcomes
      BY <1>0, <2>1, RecentIs DEF ScoreInv
    <2>3. a = b
      BY <1>0, <2>1, <2>2, RecentIs
    <2> HIDE DEF a, b, n, w
    <2>4. a * n - b * w = 0
      BY <1>0, <1>1, <2>1, <2>3
    <2>5. w * n \in Nat
      BY <1>0
    <2>6. -w * n = -(w * n)
      BY <1>0
    <2> QED BY <1>5, <2>4, <2>5, <2>6
  <1>7. ASSUME \A i \in 1..n : outcomes[i] = TRUE PROVE Trend # "improving"
    <2>1. b = n
      BY <1>0, <1>7, HitsIs
    <2> HIDE DEF a, b, n, w
    <2>2. a * n <= w * n /\ a * n \in Nat /\ w * n \in Nat
      BY <1>0, <1>4, Products
    <2>3. b * w = w * n
      BY <1>0, <2>1
    <2>4. ~(10 * (a * n - b * w) > w * n)
      BY <2>2, <2>3
    <2> QED BY <1>5, <2>4
  <1>8. DOMAIN outcomes = 1..n /\ \A i \in 1..n : outcomes[i] \in BOOLEAN
    BY <1>0
  <1>9. Trend = "improving" => \E i \in 1..n : outcomes[i] = FALSE
    <2>1. ASSUME NEW i \in 1..n, outcomes[i] # TRUE PROVE outcomes[i] = FALSE
      BY <1>8, <2>1, Zenon
    <2> QED BY <1>7, <2>1, Zenon
  <1>10. Len(outcomes) <= TrendWindow => Trend = "stable"
    BY <1>5, <1>6
  <1>11. Trend = "improving" => FALSE \in {outcomes[i] : i \in DOMAIN outcomes}
    BY <1>8, <1>9, Zenon
  <1> QED BY <1>10, <1>11

RecordInv == records \in Seq([ok : BOOLEAN, ms : 1..2]) /\ Len(records) <= MaxActionRecords

LEMMA RecordStep ==
  ASSUME RecordInv, NEW ok \in BOOLEAN, NEW d \in 1..2, RecordAction(ok, d)
  PROVE  RecordInv'
  <1> DEFINE X == [ok : BOOLEAN, ms : 1..2]
             new == [ok |-> ok, ms |-> d]
             r == Recent(records, MaxActionRecords - 1)
  <1>0. MaxActionRecords - 1 \in Nat /\ MaxActionRecords \in Nat /\ records \in Seq(X) /\ new \in X
    BY LearnFacts DEF RecordInv
  <1>1. r \in Seq(X) /\ Len(r) <= MaxActionRecords - 1
    <2> HIDE DEF X
    <2> QED BY <1>0, RecentIs
  <1>2. records' = Append(r, new)
    BY DEF RecordAction
  <1>3. records' \in Seq(X) /\ Len(records') = Len(r) + 1 /\ Len(r) \in Nat
    <2> HIDE DEF X, r, new
    <2> QED BY <1>0, <1>1, <1>2
  <1>4. Len(records') <= MaxActionRecords
    BY <1>0, <1>1, <1>3
  <1> QED BY <1>3, <1>4 DEF RecordInv

LEMMA Halves ==
  ASSUME NEW x \in Int, NEW n \in Nat \ {0}, n <= x, x <= 2 * n
  PROVE  x \div n \in 1..2
  <1>1. CASE x = 2 * n
    <2>1. (2 * n) \div n = 2
      OBVIOUS
    <2> QED BY <1>1, <2>1
  <1>2. CASE x < 2 * n
    <2>1. x = 1 * n + (x - n) /\ 0 <= x - n /\ x - n < n
      BY <1>2
    <2>2. x \div n = 1
      BY <2>1
    <2> QED BY <2>2
  <1> QED BY <1>1, <1>2

LEMMA RecordsSay ==
  ASSUME RecordInv, records # <<>>
  PROVE  AvgDuration(records) \in 1..2 /\ SuccessRate(records)[1] <= Len(records)
  <1> DEFINE n == Len(records)
             D == 1..n
             h == [i \in D |-> records[i].ms]
             H == {i \in D : records[i].ok}
  <1>0. n \in Nat \ {0} /\ DOMAIN records = D /\ h \in [D -> 1..2] /\ IsFiniteSet(D) /\ Cardinality(D) = n
    <2>0. records \in Seq([ok : BOOLEAN, ms : 1..2])
      BY DEF RecordInv
    <2>1. n \in Nat \ {0} /\ DOMAIN records = D
      BY <2>0
    <2>2. \A i \in D : records[i].ms \in 1..2
      <3>1. \A i \in D : records[i] \in [ok : BOOLEAN, ms : 1..2]
        BY <2>0, <2>1, ElementOfSeq
      <3> HIDE DEF D
      <3> QED BY <3>1
    <2> QED BY <2>1, <2>2, UpTo
  <1>1. MapThenSumSet(LAMBDA i : records[i].ms, D) = SumOver(h, D)
    <2> DEFINE P(g) == g = [s \in SUBSET D |-> IF s = {} THEN 0
                              ELSE records[PickOf(s)].ms + g[s \ {PickOf(s)}]]
               c == CHOOSE g : P(g)
    <2>1. MapThenSumSet(LAMBDA i : records[i].ms, D) = c[D]
      BY DEF MapThenSumSet, MapThenFoldSet, PickOf
    <2>2. ASSUME NEW g PROVE P(g) <=> SumTable(h, D, g)
      <3>1. \A s \in SUBSET D : s # {} => h[PickOf(s)] = records[PickOf(s)].ms
        BY PickIs
      <3> HIDE DEF h, D
      <3>2. [s \in SUBSET D |-> IF s = {} THEN 0 ELSE records[PickOf(s)].ms + g[s \ {PickOf(s)}]]
              = [s \in SUBSET D |-> IF s = {} THEN 0 ELSE h[PickOf(s)] + g[s \ {PickOf(s)}]]
        BY <3>1
      <3> QED BY <3>2 DEF SumTable
    <2>3. h \in [D -> Int]
      BY <1>0
    <2>4. \E g : SumTable(h, D, g)
      <3> HIDE DEF h, D
      <3> QED BY <1>0, <2>3, SumTableExists
    <2>5. SumTable(h, D, c)
      <3> HIDE DEF h, D
      <3>1. \E g : P(g)
        BY <2>2, <2>4
      <3>2. P(c)
        <4> HIDE DEF P
        <4> QED BY <3>1
      <3> HIDE DEF P, c
      <3> QED BY <2>2, <3>2
    <2> HIDE DEF h, D, c
    <2>6. c[D] = SumOver(h, D)
      BY <1>0, <2>3, <2>5, SumIs
    <2> QED BY <2>1, <2>6
  <1>2. SumOver(h, D) \in Int /\ n <= SumOver(h, D) /\ SumOver(h, D) <= 2 * n
    <2> HIDE DEF h, D
    <2> QED BY <1>0, SumBounds
  <1>3. AvgDuration(records) = SumOver(h, D) \div n
    BY <1>0, <1>1 DEF AvgDuration
  <1>4. AvgDuration(records) \in 1..2
    <2> HIDE DEF h, D, n
    <2> QED BY <1>0, <1>2, <1>3, Halves
  <1>5. Cardinality(H) <= Cardinality(D)
    <2>1. H \subseteq D
      OBVIOUS
    <2> HIDE DEF H, D
    <2> QED BY <1>0, <2>1, FS_Subset
  <1>6. SuccessRate(records)[1] = Cardinality(H)
    BY <1>0 DEF SuccessRate
  <1> QED BY <1>0, <1>4, <1>5, <1>6

-----------------------------------------------------------------------------
(* Learning: values and arms.                                              *)

QLow == Min(QRewards \cup {0}) * QScale
QHigh == 2 * Max(QRewards \cup {0}) * QScale

QInv == q \in [QStates -> [QActions -> QLow..QHigh]]

\* A reward is within the bounds by itself.
LEMMA QBounds ==
  /\ QLow \in Int /\ QHigh \in Int /\ QLow <= 0 /\ 0 <= QHigh
  /\ \A r \in QRewards : r * QScale \in Int /\ QLow <= r * QScale /\ 2 * (r * QScale) <= QHigh
  <1> DEFINE T == QRewards \cup {0}
             lo == Min(T)
             hi == Max(T)
  <1>1. T \in SUBSET Int /\ IsFiniteSet(T) /\ T # {} /\ 0 \in T
    BY LearnFacts, FS_AddElement
  <1>2. lo \in Int /\ hi \in Int /\ \A r \in T : r \in Int /\ lo <= r /\ r <= hi
    <2> HIDE DEF T
    <2> QED BY <1>1, MaxMin
  <1>3. lo <= 0 /\ 0 <= hi /\ QScale \in Nat
    BY <1>1, <1>2, LearnFacts
  <1>4. QLow = lo * QScale /\ QHigh = 2 * (hi * QScale)
    <2>1. QLow = lo * QScale /\ QHigh = (2 * hi) * QScale
      BY DEF QLow, QHigh
    <2> HIDE DEF lo, hi, T
    <2> QED BY <1>2, <1>3, <2>1
  <1> HIDE DEF lo, hi
  <1>5. ASSUME NEW r \in T PROVE lo * QScale <= r * QScale /\ r * QScale <= hi * QScale
    <2>1. r - lo \in Nat /\ hi - r \in Nat /\ r \in Int
      BY <1>2
    <2>2. (r - lo) * QScale \in Nat /\ (hi - r) * QScale \in Nat
      <3> DEFINE x == r - lo
                 y == hi - r
      <3>1. x \in Nat /\ y \in Nat
        BY <2>1
      <3> HIDE DEF x, y
      <3>2. x * QScale \in Nat /\ y * QScale \in Nat
        BY <1>3, <3>1
      <3> QED BY <3>2 DEF x, y
    <2>3. (r - lo) * QScale = r * QScale - lo * QScale /\ (hi - r) * QScale = hi * QScale - r * QScale
      BY <1>2, <1>3, <2>1
    <2>4. r * QScale \in Int /\ lo * QScale \in Int /\ hi * QScale \in Int
      BY <1>2, <1>3, <2>1
    <2> QED BY <2>2, <2>3, <2>4
  <1>6. 0 * QScale = 0 /\ lo * QScale \in Int /\ hi * QScale \in Int /\ \A r \in T : r * QScale \in Int
    BY <1>2, <1>3
  <1>7. lo * QScale <= 0 /\ 0 <= hi * QScale
    BY <1>1, <1>5, <1>6
  <1> DEFINE a == lo * QScale
             b == hi * QScale
  <1>8. a \in Int /\ b \in Int /\ a <= 0 /\ 0 <= b /\ QLow = a /\ QHigh = 2 * b
    BY <1>4, <1>6, <1>7
  <1>9. ASSUME NEW r \in QRewards PROVE r * QScale \in Int /\ QLow <= r * QScale /\ 2 * (r * QScale) <= QHigh
    <2> DEFINE x == r * QScale
    <2>1. x \in Int /\ a <= x /\ x <= b
      BY <1>5, <1>6
    <2> HIDE DEF a, b, x
    <2>2. QLow <= x /\ 2 * x <= QHigh
      BY <1>8, <2>1
    <2> QED BY <2>1, <2>2 DEF x
  <1> HIDE DEF a, b
  <1>10. QLow \in Int /\ QHigh \in Int /\ QLow <= 0 /\ 0 <= QHigh
    BY <1>8
  <1> QED BY <1>9, <1>10

LEMMA NextValueIs ==
  ASSUME QInv, NEW s \in QStates
  PROVE  NextValue(s) \in Int /\ 0 <= NextValue(s) /\ NextValue(s) <= QHigh
  <1> DEFINE K == {q[s][a] : a \in QActions}
             T == K \cup {0}
  <1>1. q[s] \in [QActions -> QLow..QHigh] /\ QLow \in Int /\ QHigh \in Int /\ 0 <= QHigh
    BY QBounds DEF QInv
  <1>2. IsFiniteSet(K)
    <2>1. q[s] \in Surjection(QActions, K)
      BY <1>1 DEF Surjection
    <2> QED BY <2>1, FS_Surjection, LearnFacts
  <1>3. T \in SUBSET Int /\ \A x \in T : x <= QHigh
    BY <1>1
  <1>4. IsFiniteSet(T) /\ 0 \in T
    <2> HIDE DEF K
    <2> QED BY <1>2, FS_AddElement
  <1>5. Max(T) \in T /\ \A y \in T : y <= Max(T)
    <2> HIDE DEF T
    <2> QED BY <1>3, <1>4, MaxMin
  <1>6. NextValue(s) = Max(T)
    BY DEF NextValue
  <1> HIDE DEF T
  <1> QED BY <1>3, <1>4, <1>5, <1>6

\* A step half way from a value to a target stays between them.
LEMMA HalfWay ==
  ASSUME NEW lo \in Int, NEW hi \in Int, NEW v \in lo..hi, NEW x \in Int, NEW n \in Int,
         lo <= x, 2 * x <= hi, 0 <= n, n <= hi
  PROVE  v + ((x + n \div 2) - v) \div 2 \in lo..hi
  <1>1. n \div 2 \in Int /\ 0 <= n \div 2 /\ 2 * (n \div 2) <= hi
    OBVIOUS
  <1> DEFINE t == x + n \div 2
  <1>2. t \in Int /\ lo <= t /\ t <= hi
    BY <1>1
  <1> HIDE DEF t
  <1>3. (t - v) \div 2 \in Int /\ 2 * ((t - v) \div 2) <= t - v /\ t - v <= 2 * ((t - v) \div 2) + 1
    BY <1>2
  <1>4. v + (t - v) \div 2 \in lo..hi
    BY <1>2, <1>3
  <1> QED BY <1>4 DEF t

LEMMA QStep ==
  ASSUME QInv, NEW s \in QStates, NEW next \in QStates, NEW a \in QActions, NEW r \in QRewards, UpdateQ(s, a, r, next)
  PROVE  QInv'
  <1> DEFINE v == q[s][a]
             n == NextValue(next)
             x == r * QScale
             new == v + ((x + n \div 2) - v) \div 2
  <1>1. v \in QLow..QHigh /\ QLow \in Int /\ QHigh \in Int
    BY QBounds DEF QInv
  <1>2. n \in Int /\ 0 <= n /\ n <= QHigh
    BY NextValueIs
  <1>3. x \in Int /\ QLow <= x /\ 2 * x <= QHigh
    BY QBounds
  <1>4. new \in QLow..QHigh
    <2> HIDE DEF v, n, x
    <2> QED BY <1>1, <1>2, <1>3, HalfWay
  <1>5. q' = [q EXCEPT ![s][a] = new]
    BY DEF UpdateQ
  <1>6. q' \in [QStates -> [QActions -> QLow..QHigh]]
    <2> HIDE DEF new
    <2> QED BY <1>4, <1>5 DEF QInv
  <1>7. QLow' = QLow /\ QHigh' = QHigh
    BY DEF QLow, QHigh
  <1> QED BY <1>6, <1>7 DEF QInv

\* While an arm is fresh none was pulled twice.
ArmsInv == pulls \in [Arms -> Nat] /\ \A a, b \in Arms : pulls[a] > 1 => pulls[b] > 0

LEMMA ArmsStep ==
  ASSUME ArmsInv, NEW a \in Arms, NEW r, PullArm(a, r)
  PROVE  ArmsInv'
  <1>0. pulls \in [Arms -> Nat] /\ pulls' = [pulls EXCEPT ![a] = @ + 1]
    BY DEF ArmsInv, PullArm
  <1>1. pulls' \in [Arms -> Nat] /\ pulls'[a] = pulls[a] + 1 /\ \A b \in Arms : b # a => pulls'[b] = pulls[b]
    BY <1>0
  <1>2. CASE Fresh # {}
    <2>1. Fresh \in SUBSET Nat
      BY LearnFacts DEF Fresh
    <2>2. Min(Fresh) \in Fresh
      BY <1>2, <2>1, LeastNat DEF Min
    <2>3. a \in Fresh
      BY <1>2, <2>2 DEF PullArm, Selected
    <2>4. pulls[a] = 0
      BY <2>3 DEF Fresh
    <2>5. \A b \in Arms : ~(pulls[b] > 1)
      BY <2>4 DEF ArmsInv
    <2>6. \A b \in Arms : ~(pulls'[b] > 1)
      BY <1>1, <2>4, <2>5
    <2> QED BY <1>1, <2>6 DEF ArmsInv
  <1>3. CASE Fresh = {}
    <2>1. \A b \in Arms : pulls[b] > 0
      BY <1>0, <1>3 DEF Fresh
    <2>2. \A b \in Arms : pulls'[b] > 0
      BY <1>0, <1>1, <2>1
    <2> QED BY <1>1, <2>2 DEF ArmsInv
  <1> QED BY <1>2, <1>3

LearningInv == ReplayInv /\ ScoreInv /\ RecordInv /\ QInv /\ ArmsInv

\* The learning stores (replay.rs, capability.rs, profile.rs, optimizer.rs and
\* strategy.rs): for any capacities, rewards and arms and however long the history,
\* the buffer holds the best, a sample of every size exists, the trend compares the
\* window with the whole, Q values stay within the rewards' geometric sum and every
\* arm is tried before any is tried twice.
THEOREM LearningIsSound == StoresSpec => []LearningSound
  <1>1. StoresInit => LearningInv
    <2> SUFFICES ASSUME LearnInit PROVE LearningInv
      BY DEF StoresInit
    <2>1. ReplayInv
      BY LearnFacts DEF LearnInit, ReplayInv
    <2>2. ScoreInv
      <3>1. outcomes = <<>> /\ outcomes \in Seq(BOOLEAN) /\ Len(outcomes) = 0 /\ recent = outcomes
        BY DEF LearnInit
      <3>2. Hits(outcomes) = 0
        <4>1. Hits(outcomes) \in Nat /\ Hits(outcomes) <= Len(outcomes)
          BY <3>1, HitsIs
        <4> QED BY <3>1, <4>1
      <3>3. Recent(outcomes, MaxRecent) = outcomes
        BY <3>1, LearnFacts DEF Recent
      <3> QED BY <3>1, <3>2, <3>3 DEF LearnInit, ScoreInv
    <2>3. RecordInv
      BY LearnFacts DEF LearnInit, RecordInv
    <2>4. QInv
      <3>1. 0 \in QLow..QHigh
        BY QBounds
      <3> QED BY <3>1 DEF LearnInit, QInv
    <2>5. ArmsInv
      BY DEF LearnInit, ArmsInv
    <2> QED BY <2>1, <2>2, <2>3, <2>4, <2>5 DEF LearningInv
  <1>2. LearningInv /\ [StoresNext]_storesVars => LearningInv'
    <2> SUFFICES ASSUME LearningInv, [ReplayNext \/ ScoreNext \/ QNext \/ BanditNext]_learnVars PROVE LearningInv'
      BY EachStore
    <2>a. ReplayInv /\ ScoreInv /\ RecordInv /\ QInv /\ ArmsInv
      BY DEF LearningInv
    <2>b. UNCHANGED <<experiences, dropped, learned>> => ReplayInv'
      BY <2>a DEF ReplayInv
    <2>c. UNCHANGED <<successes, failures, recent, outcomes>> => ScoreInv'
      BY <2>a DEF ScoreInv, Hits, Recent
    <2>d. UNCHANGED records => RecordInv'
      BY <2>a DEF RecordInv
    <2>e. UNCHANGED q => QInv'
      BY <2>a DEF QInv, QLow, QHigh
    <2>f. UNCHANGED pulls => ArmsInv'
      BY <2>a DEF ArmsInv
    <2>g. Learns /\ UNCHANGED <<experiences, dropped>> => ReplayInv'
      <3> SUFFICES ASSUME Learns, UNCHANGED <<experiences, dropped>> PROVE ReplayInv'
        OBVIOUS
      <3>1. learned' \in Nat
        BY <2>a DEF Learns, ReplayInv
      <3> QED BY <2>a, <3>1 DEF ReplayInv
    <2>1. CASE UNCHANGED learnVars
      BY <2>1, <2>b, <2>c, <2>d, <2>e, <2>f DEF learnVars, LearningInv
    <2>2. CASE ReplayNext
      <3>1. PICK p \in ExpPriorities : PushExperience(p)
        BY <2>2 DEF ReplayNext
      <3>2. ReplayInv'
        BY <2>a, <3>1, ReplayStep
      <3>3. UNCHANGED <<successes, failures, recent, outcomes, records, q, pulls>>
        BY <3>1 DEF PushExperience
      <3> QED BY <3>2, <3>3, <2>c, <2>d, <2>e, <2>f DEF LearningInv
    <2>3. CASE ScoreNext
      <3>1. PICK ok \in BOOLEAN : RecordOutcome(ok) \/ \E d \in 1..2 : RecordAction(ok, d)
        BY <2>3 DEF ScoreNext
      <3>2. CASE RecordOutcome(ok)
        <4>1. ScoreInv'
          BY <2>a, <3>2, ScoreStep
        <4>2. Learns /\ UNCHANGED <<experiences, dropped, records, q, pulls>>
          BY <3>2 DEF RecordOutcome
        <4> QED BY <4>1, <4>2, <2>d, <2>e, <2>f, <2>g DEF LearningInv
      <3>3. ASSUME NEW d \in 1..2, RecordAction(ok, d) PROVE LearningInv'
        <4>1. RecordInv'
          BY <2>a, <3>3, RecordStep
        <4>2. Learns /\ UNCHANGED <<experiences, dropped, successes, failures, recent, outcomes, q, pulls>>
          BY <3>3 DEF RecordAction
        <4> QED BY <4>1, <4>2, <2>c, <2>e, <2>f, <2>g DEF LearningInv
      <3> QED BY <3>1, <3>2, <3>3
    <2>4. CASE QNext
      <3>1. PICK s \in QStates, next \in QStates, a \in QActions, r \in QRewards : UpdateQ(s, a, r, next)
        BY <2>4 DEF QNext
      <3>2. QInv'
        BY <2>a, <3>1, QStep
      <3>3. Learns /\ UNCHANGED <<experiences, dropped, successes, failures, recent, outcomes, records, pulls>>
        BY <3>1 DEF UpdateQ
      <3> QED BY <3>2, <3>3, <2>c, <2>d, <2>f, <2>g DEF LearningInv
    <2>5. CASE BanditNext
      <3>1. PICK a \in Arms, r \in {0, 1} : PullArm(a, r)
        BY <2>5 DEF BanditNext
      <3>2. ArmsInv'
        BY <2>a, <3>1, ArmsStep
      <3>3. Learns /\ UNCHANGED <<experiences, dropped, successes, failures, recent, outcomes, records, q>>
        BY <3>1 DEF PullArm
      <3> QED BY <3>2, <3>3, <2>c, <2>d, <2>e, <2>g DEF LearningInv
    <2> QED BY <2>1, <2>2, <2>3, <2>4, <2>5
  <1>3. LearningInv => LearningSound
    <2> SUFFICES ASSUME LearningInv PROVE LearningSound
      OBVIOUS
    <2>a. ReplayInv /\ ScoreInv /\ RecordInv /\ QInv /\ ArmsInv
      BY DEF LearningInv
    <2>1. /\ Len(experiences) <= MaxExperiences
          /\ \A i \in DOMAIN experiences, d \in dropped : experiences[i][2] >= d[2]
      <3>1. DOMAIN experiences = 1..Len(experiences)
        BY <2>a DEF ReplayInv
      <3> QED BY <2>a, <3>1 DEF ReplayInv
    <2>2. \A n \in 0..(MaxExperiences + 1) : Samples(n) # {}
      <3>1. \A n \in 0..(MaxExperiences + 1) : n \in Nat
        BY LearnFacts
      <3> QED BY <2>a, <3>1, SamplesExist
    <2>3. successes = Hits(outcomes) /\ recent = Recent(outcomes, MaxRecent)
      BY <2>a DEF ScoreInv
    <2>4. /\ Len(outcomes) <= TrendWindow => Trend = "stable"
          /\ Trend = "improving" => FALSE \in {outcomes[i] : i \in DOMAIN outcomes}
      BY <2>a, TrendIs
    <2>5. Len(records) <= MaxActionRecords
      BY <2>a DEF RecordInv
    <2>6. records # <<>> => AvgDuration(records) \in 1..2 /\ SuccessRate(records)[1] <= Len(records)
      BY <2>a, RecordsSay
    <2>7. \A s \in QStates, a \in QActions :
            q[s][a] \in (Min(QRewards \cup {0}) * QScale)..(2 * Max(QRewards \cup {0}) * QScale)
      <3>1. \A s \in QStates, a \in QActions : q[s][a] \in QLow..QHigh
        BY <2>a DEF QInv
      <3> QED BY <3>1 DEF QLow, QHigh
    <2>8. \A a, b \in Arms : pulls[a] > 1 => pulls[b] > 0
      BY <2>a DEF ArmsInv
    <2> QED BY <2>1, <2>2, <2>3, <2>4, <2>5, <2>6, <2>7, <2>8 DEF LearningSound
  <1> QED BY <1>1, <1>2, <1>3, PTL DEF StoresSpec

\* The stores of a process (plan_cache.rs, memory.rs, learning/, the IPC frames and
\* budget.rs): each keeps its promise in every behaviour, for every value of the
\* constants.
THEOREM StoresAreSound == StoresSpec => []StoresSound
  <1>1. PlansSound /\ BufferExact /\ LearningSound /\ FramesWhole /\ OvershootBounded => StoresSound
    BY DEF StoresSound
  <1> QED BY <1>1, PlansAreSound, BufferIsExact, LearningIsSound, FramesAreWhole, OvershootIsBounded, PTL

-----------------------------------------------------------------------------
(* Federation.                                                             *)

FedRoles == {"follower", "candidate", "coordinator"}
PeerStates == [status : {"unknown", "online", "suspect", "offline"}, role : {"follower", "coordinator"}, beat : Nat]

FedType ==
    /\ peers \in [Clusters -> [Clusters -> PeerStates]] /\ fedRole \in [Clusters -> FedRoles]
    /\ term \in [Clusters -> Nat] /\ leader \in [Clusters -> Nat] /\ declared \subseteq Nat \X Clusters
    /\ fedClock \in Nat /\ checked \in [Clusters -> Nat]
    /\ \A m \in Clusters : checked[m] <= fedClock

SelfOk(m) ==
    /\ leader[m] # 0 => <<term[m], leader[m]>> \in declared
    /\ (fedRole[m] = "coordinator") <=> (leader[m] = m)
    /\ fedRole[m] = "candidate" => leader[m] = 0
    /\ leader[m] = 0 /\ fedRole[m] = "follower" => term[m] = 0

RolesOk(m) ==
    \A c \in Clusters : peers[m][c].role = "coordinator" =>
      leader[m] \in {0, c} /\ \A d \in Clusters \ {c} : peers[m][d].role = "follower"

Shown(p, now) == IF now - p.beat > OfflineTimeout THEN "offline"
                 ELSE IF now - p.beat > SuspectTimeout THEN "suspect" ELSE "online"

StatusOk(m) == \A c \in Clusters : peers[m][c] # NoPeer => peers[m][c].status = Shown(peers[m][c], checked[m])

FedInv == FedType /\ \A m \in Clusters : SelfOk(m) /\ RolesOk(m) /\ StatusOk(m)

LEMMA FedFacts ==
  /\ Clusters \subseteq Nat \ {0} /\ SuspectTimeout \in Nat /\ OfflineTimeout \in Nat
  /\ SuspectTimeout <= OfflineTimeout /\ NoPeer \in PeerStates
  BY FederationAssumption DEF NoPeer, PeerStates

LEMMA HeartbeatFed ==
  ASSUME FedInv, NEW m \in Clusters, NEW c \in Clusters, HeartbeatFrom(m, c)
  PROVE  FedInv'
  <1> DEFINE p == [peers[m][c] EXCEPT !.status = "online", !.beat = fedClock]
  <1>0. FedType /\ \A x \in Clusters : SelfOk(x) /\ RolesOk(x) /\ StatusOk(x)
    BY DEF FedInv
  <1>1. peers' = [peers EXCEPT ![m][c] = p] /\ UNCHANGED <<fedRole, term, leader, declared, fedClock, checked>>
    BY <1>0 DEF HeartbeatFrom, FedType, PeerStates
  <1>2. peers[m][c] \in PeerStates /\ fedClock \in Nat
    BY <1>0 DEF FedType
  <1>3. p \in PeerStates /\ p.role = peers[m][c].role /\ p.status = "online" /\ p.beat = fedClock
    BY <1>2 DEF PeerStates
  <1> HIDE DEF p
  <1>4. FedType'
    BY <1>0, <1>1, <1>3 DEF FedType
  <1>5. /\ peers'[m][c] = p
        /\ \A x, d \in Clusters : (x # m \/ d # c) => peers'[x][d] = peers[x][d]
    BY <1>0, <1>1 DEF FedType
  <1>6. \A x, d \in Clusters : peers'[x][d].role = peers[x][d].role
    BY <1>3, <1>5
  <1>7. ASSUME NEW x \in Clusters PROVE SelfOk(x)' /\ RolesOk(x)' /\ StatusOk(x)'
    <2>1. SelfOk(x)'
      BY <1>0, <1>1 DEF SelfOk
    <2>2. RolesOk(x)'
      BY <1>0, <1>1, <1>6 DEF RolesOk
    <2>3. ASSUME NEW d \in Clusters, peers'[x][d] # NoPeer PROVE peers'[x][d].status = Shown(peers'[x][d], checked[x])
      <3>1. CASE x = m /\ d = c
        <4>1. checked[m] \in Nat /\ checked[m] <= fedClock
          BY <1>0 DEF FedType
        <4> QED BY <1>2, <1>3, <1>5, <3>1, <4>1, FedFacts DEF Shown
      <3>2. CASE ~(x = m /\ d = c)
        BY <1>0, <1>5, <2>3, <3>2 DEF StatusOk
      <3> QED BY <3>1, <3>2
    <2>4. StatusOk(x)'
      BY <1>1, <2>3 DEF StatusOk, Shown, NoPeer
    <2> QED BY <2>1, <2>2, <2>4
  <1> QED BY <1>4, <1>7 DEF FedInv

\* A status that was right at the last check is right after this one.
LEMMA LivenessIs ==
  ASSUME FedType, NEW p \in PeerStates, NEW then \in Nat, then <= fedClock, p.status = Shown(p, then)
  PROVE  Liveness(p) = Shown(p, fedClock)
  <1>0. p.beat \in Nat /\ fedClock \in Nat
    BY DEF FedType, PeerStates
  <1> DEFINE e == fedClock - p.beat
             o == then - p.beat
  <1>1. e \in Int /\ o \in Int /\ o <= e
    BY <1>0
  <1>2. Liveness(p) = IF e > OfflineTimeout /\ p.status # "offline" THEN "offline"
                      ELSE IF e > SuspectTimeout /\ p.status = "online" THEN "suspect" ELSE p.status
    BY DEF Liveness
  <1>3. p.status = IF o > OfflineTimeout THEN "offline" ELSE IF o > SuspectTimeout THEN "suspect" ELSE "online"
    BY DEF Shown
  <1>4. Shown(p, fedClock) = IF e > OfflineTimeout THEN "offline" ELSE IF e > SuspectTimeout THEN "suspect" ELSE "online"
    BY DEF Shown
  <1> HIDE DEF e, o
  <1> QED BY <1>1, <1>2, <1>3, <1>4, FedFacts

LEMMA CheckFed ==
  ASSUME FedInv, NEW m \in Clusters, CheckLiveness(m)
  PROVE  FedInv'
  <1> DEFINE G(d) == IF peers[m][d] = NoPeer THEN NoPeer ELSE [peers[m][d] EXCEPT !.status = Liveness(peers[m][d])]
  <1>0. FedType /\ \A x \in Clusters : SelfOk(x) /\ RolesOk(x) /\ StatusOk(x)
    BY DEF FedInv
  <1>1. /\ peers' = [peers EXCEPT ![m] = [d \in Clusters |-> G(d)]]
        /\ checked' = [checked EXCEPT ![m] = fedClock] /\ UNCHANGED <<fedRole, term, leader, declared, fedClock>>
    BY DEF CheckLiveness
  <1>2. ASSUME NEW d \in Clusters
        PROVE  /\ G(d) \in PeerStates /\ G(d).role = peers[m][d].role
               /\ G(d) # NoPeer => G(d).status = Shown(G(d), fedClock)
    <2>1. peers[m][d] \in PeerStates /\ checked[m] \in Nat /\ checked[m] <= fedClock
      BY <1>0 DEF FedType
    <2>2. CASE peers[m][d] = NoPeer
      BY <2>1, <2>2
    <2>3. CASE peers[m][d] # NoPeer
      <3> DEFINE p == peers[m][d]
                 s == Liveness(p)
      <3>1. p.status = Shown(p, checked[m])
        BY <1>0, <2>3 DEF StatusOk
      <3>2. s = Shown(p, fedClock)
        BY <1>0, <2>1, <3>1, LivenessIs
      <3>3. G(d) = [p EXCEPT !.status = s]
        BY <2>3
      <3>4. s \in {"online", "suspect", "offline"}
        BY <3>2 DEF Shown
      <3> HIDE DEF p, s
      <3>5. p \in PeerStates
        BY <2>1 DEF p
      <3>6. G(d) \in PeerStates /\ G(d).role = p.role /\ G(d).beat = p.beat /\ G(d).status = s
        BY <3>3, <3>4, <3>5 DEF PeerStates
      <3>7. Shown(G(d), fedClock) = Shown(p, fedClock)
        BY <3>6 DEF Shown
      <3> QED BY <3>2, <3>6, <3>7 DEF p
    <2> QED BY <2>2, <2>3
  <1>3. /\ \A d \in Clusters : peers'[m][d] = G(d)
        /\ \A x, d \in Clusters : x # m => peers'[x][d] = peers[x][d]
        /\ checked'[m] = fedClock /\ \A x \in Clusters : x # m => checked'[x] = checked[x]
    <2> HIDE DEF G
    <2> QED BY <1>0, <1>1 DEF FedType
  <1> HIDE DEF G
  <1>4. FedType'
    <2>1. [d \in Clusters |-> G(d)] \in [Clusters -> PeerStates]
      BY <1>2
    <2>2. peers' \in [Clusters -> [Clusters -> PeerStates]]
      BY <1>0, <1>1, <2>1 DEF FedType
    <2>3. checked' \in [Clusters -> Nat] /\ \A x \in Clusters : checked'[x] <= fedClock'
      BY <1>0, <1>1 DEF FedType
    <2> QED BY <1>0, <1>1, <2>2, <2>3 DEF FedType
  <1>6. \A x, d \in Clusters : peers'[x][d].role = peers[x][d].role
    BY <1>2, <1>3
  <1>7. ASSUME NEW x \in Clusters PROVE SelfOk(x)' /\ RolesOk(x)' /\ StatusOk(x)'
    <2>1. SelfOk(x)'
      BY <1>0, <1>1 DEF SelfOk
    <2>2. RolesOk(x)'
      BY <1>0, <1>1, <1>6 DEF RolesOk
    <2>3. ASSUME NEW d \in Clusters, peers'[x][d] # NoPeer PROVE peers'[x][d].status = Shown(peers'[x][d], checked'[x])
      <3>1. CASE x = m
        BY <1>2, <1>3, <2>3, <3>1
      <3>2. CASE x # m
        BY <1>0, <1>3, <2>3, <3>2 DEF StatusOk
      <3> QED BY <3>1, <3>2
    <2>4. StatusOk(x)'
      BY <2>3 DEF StatusOk, Shown, NoPeer
    <2> QED BY <2>1, <2>2, <2>4
  <1> QED BY <1>4, <1>7 DEF FedInv

LEMMA StartFed ==
  ASSUME FedInv, NEW m \in Clusters, StartElection(m)
  PROVE  FedInv'
  <1>0. FedType /\ \A x \in Clusters : SelfOk(x) /\ RolesOk(x) /\ StatusOk(x)
    BY DEF FedInv
  <1>1. /\ term' = [term EXCEPT ![m] = @ + 1] /\ leader' = [leader EXCEPT ![m] = 0]
        /\ fedRole' = [fedRole EXCEPT ![m] = "candidate"] /\ UNCHANGED <<peers, declared, fedClock, checked>>
    BY DEF StartElection
  <1>2. FedType'
    BY <1>0, <1>1 DEF FedType, FedRoles
  <1>3. ASSUME NEW x \in Clusters PROVE SelfOk(x)' /\ RolesOk(x)' /\ StatusOk(x)'
    <2>1. SelfOk(x)'
      <3>1. CASE x = m
        <4>1. leader'[x] = 0 /\ fedRole'[x] = "candidate" /\ x # 0
          BY <1>0, <1>1, <3>1, FedFacts DEF FedType
        <4> QED BY <4>1 DEF SelfOk
      <3>2. CASE x # m
        <4>1. leader'[x] = leader[x] /\ fedRole'[x] = fedRole[x] /\ term'[x] = term[x] /\ declared' = declared
          BY <1>0, <1>1, <3>2 DEF FedType
        <4> QED BY <1>0, <4>1 DEF SelfOk
      <3> QED BY <3>1, <3>2
    <2>2. RolesOk(x)'
      <3>1. peers' = peers /\ leader'[x] \in {0, leader[x]}
        BY <1>0, <1>1 DEF FedType
      <3> QED BY <1>0, <3>1 DEF RolesOk
    <2>3. StatusOk(x)'
      BY <1>0, <1>1 DEF StatusOk, Shown, NoPeer
    <2> QED BY <2>1, <2>2, <2>3
  <1> QED BY <1>2, <1>3 DEF FedInv

LEMMA AcceptFed ==
  ASSUME FedInv, NEW m \in Clusters, NEW t \in Nat, NEW c \in Clusters, Accept(m, t, c),
         declared \subseteq declared', declared' \subseteq Nat \X Clusters, <<t, c>> \in declared',
         UNCHANGED <<fedClock, checked>>
  PROVE  FedInv'
  <1> DEFINE G(d) == IF peers[m][d] = NoPeer THEN NoPeer
                     ELSE [peers[m][d] EXCEPT !.role = IF d = c THEN "coordinator" ELSE "follower"]
  <1>0. FedType /\ \A x \in Clusters : SelfOk(x) /\ RolesOk(x) /\ StatusOk(x)
    BY DEF FedInv
  <1>1. /\ term' = [term EXCEPT ![m] = t] /\ leader' = [leader EXCEPT ![m] = c]
        /\ fedRole' = [fedRole EXCEPT ![m] = IF c = m THEN "coordinator" ELSE "follower"]
        /\ peers' = [peers EXCEPT ![m] = [d \in Clusters |-> G(d)]]
    BY DEF Accept, TermAfter
  <1>2. ASSUME NEW d \in Clusters
        PROVE  /\ G(d) \in PeerStates /\ G(d).status = peers[m][d].status /\ G(d).beat = peers[m][d].beat
               /\ G(d).role = "coordinator" => d = c
               /\ G(d) # NoPeer => peers[m][d] # NoPeer
    <2>1. peers[m][d] \in PeerStates
      BY <1>0 DEF FedType
    <2>2. CASE peers[m][d] = NoPeer
      BY <2>1, <2>2 DEF NoPeer
    <2>3. CASE peers[m][d] # NoPeer
      BY <2>1, <2>3 DEF PeerStates
    <2> QED BY <2>2, <2>3
  <1>3. /\ \A d \in Clusters : peers'[m][d] = G(d)
        /\ \A x, d \in Clusters : x # m => peers'[x][d] = peers[x][d]
        /\ leader'[m] = c /\ term'[m] = t /\ fedRole'[m] = (IF c = m THEN "coordinator" ELSE "follower")
        /\ \A x \in Clusters : x # m => leader'[x] = leader[x] /\ term'[x] = term[x] /\ fedRole'[x] = fedRole[x]
    <2> HIDE DEF G
    <2> QED BY <1>0, <1>1 DEF FedType
  <1> HIDE DEF G
  <1>4. FedType'
    <2>1. [d \in Clusters |-> G(d)] \in [Clusters -> PeerStates]
      BY <1>2
    <2>2. peers' \in [Clusters -> [Clusters -> PeerStates]]
      BY <1>0, <1>1, <2>1 DEF FedType
    <2>3. term' \in [Clusters -> Nat] /\ leader' \in [Clusters -> Nat]
      BY <1>0, <1>1, FedFacts DEF FedType
    <2>4. fedRole' \in [Clusters -> FedRoles]
      BY <1>0, <1>1 DEF FedType, FedRoles
    <2> QED BY <1>0, <2>2, <2>3, <2>4 DEF FedType
  <1>5. ASSUME NEW x \in Clusters PROVE SelfOk(x)' /\ RolesOk(x)' /\ StatusOk(x)'
    <2>1. CASE x = m
      <3>1. SelfOk(x)'
        <4>1. c # 0
          BY FedFacts
        <4> QED BY <1>3, <2>1, <4>1 DEF SelfOk
      <3>2. RolesOk(x)'
        <4>1. \A d \in Clusters : peers'[m][d].role \in {"follower", "coordinator"}
          BY <1>2, <1>3 DEF PeerStates
        <4> QED BY <1>2, <1>3, <2>1, <4>1 DEF RolesOk
      <3>3. ASSUME NEW d \in Clusters, peers'[m][d] # NoPeer
            PROVE  peers'[m][d].status = Shown(peers'[m][d], checked[m])
        <4>1. peers[m][d].status = Shown(peers[m][d], checked[m])
          BY <1>0, <1>2, <1>3, <3>3 DEF StatusOk
        <4> QED BY <1>2, <1>3, <4>1 DEF Shown
      <3>4. StatusOk(x)'
        BY <2>1, <3>3 DEF StatusOk, Shown, NoPeer
      <3> QED BY <3>1, <3>2, <3>4
    <2>2. CASE x # m
      <3>1. SelfOk(x)'
        BY <1>0, <1>3, <2>2 DEF SelfOk
      <3>2. RolesOk(x)'
        BY <1>0, <1>3, <2>2 DEF RolesOk
      <3>3. StatusOk(x)'
        BY <1>0, <1>3, <2>2 DEF StatusOk, Shown, NoPeer
      <3> QED BY <3>1, <3>2, <3>3
    <2> QED BY <2>1, <2>2
  <1> QED BY <1>4, <1>5 DEF FedInv

LEMMA EvictFed ==
  ASSUME FedInv, NEW m \in Clusters, EvictOffline(m)
  PROVE  FedInv'
  <1>0. FedType /\ \A x \in Clusters : SelfOk(x) /\ RolesOk(x) /\ StatusOk(x)
    BY DEF FedInv
  <1>1. UNCHANGED <<fedRole, term, leader, declared, fedClock, checked>>
    BY DEF EvictOffline
  <1>2. peers' \in [Clusters -> [Clusters -> PeerStates]] /\ \A x, d \in Clusters : peers'[x][d] \in {NoPeer, peers[x][d]}
    BY <1>0, FedFacts DEF FedType, EvictOffline
  <1>3. FedType'
    BY <1>0, <1>1, <1>2 DEF FedType
  <1>4. ASSUME NEW x \in Clusters PROVE SelfOk(x)' /\ RolesOk(x)' /\ StatusOk(x)'
    <2>1. SelfOk(x)'
      BY <1>0, <1>1 DEF SelfOk
    <2>2. RolesOk(x)'
      <3>1. NoPeer.role = "follower"
        BY DEF NoPeer
      <3>2. leader' = leader /\ \A d \in Clusters : peers'[x][d].role \in {"follower", peers[x][d].role}
        BY <1>1, <1>2, <3>1
      <3>3. \A d \in Clusters : peers'[x][d].role \in {"follower", "coordinator"}
        BY <1>2 DEF PeerStates
      <3> QED BY <1>0, <3>2, <3>3 DEF RolesOk
    <2>3. \A d \in Clusters : peers'[x][d] # NoPeer => peers'[x][d].status = Shown(peers'[x][d], checked[x])
      BY <1>0, <1>2 DEF StatusOk
    <2>4. StatusOk(x)'
      BY <1>1, <2>3 DEF StatusOk, Shown, NoPeer
    <2> QED BY <2>1, <2>2, <2>4
  <1> QED BY <1>3, <1>4 DEF FedInv

\* The federation (federation.rs): for any clusters and timeouts, however
\* declarations are delayed, repeated or lost, a cluster follows only whom the term
\* it is in declared, and shows a peer as its last heartbeat was to the last check.
THEOREM ClustersFollowTheirTerm == StoresSpec => []FollowsItsTerm
  <1>1. StoresInit => FedInv
    <2> SUFFICES ASSUME FedInit PROVE FedInv
      BY DEF StoresInit
    <2>1. FedType
      BY FedFacts DEF FedInit, FedType, FedRoles
    <2>2. ASSUME NEW m \in Clusters PROVE SelfOk(m) /\ RolesOk(m) /\ StatusOk(m)
      <3>1. m # 0 /\ leader[m] = 0 /\ term[m] = 0 /\ fedRole[m] = "follower" /\ \A c \in Clusters : peers[m][c] = NoPeer
        BY FedFacts DEF FedInit
      <3>2. NoPeer.role = "follower"
        BY DEF NoPeer
      <3>3. SelfOk(m)
        BY <3>1 DEF SelfOk
      <3>4. RolesOk(m)
        BY <3>1, <3>2 DEF RolesOk
      <3> QED BY <3>1, <3>3, <3>4 DEF StatusOk
    <2> QED BY <2>1, <2>2 DEF FedInv
  <1>2. FedInv /\ [StoresNext]_storesVars => FedInv'
    <2> SUFFICES ASSUME FedInv, [FedNext]_fedVars PROVE FedInv'
      BY EachStore
    <2>1. CASE UNCHANGED fedVars
      BY <2>1 DEF fedVars, FedInv, FedType, SelfOk, RolesOk, StatusOk, Shown
    <2>2. CASE FedTick
      <3>1. fedClock' = fedClock + 1 /\ UNCHANGED <<peers, fedRole, term, leader, declared, checked>>
        BY <2>2 DEF FedTick
      <3>2. FedType'
        BY <3>1 DEF FedInv, FedType
      <3>3. \A m \in Clusters : SelfOk(m)' /\ RolesOk(m)' /\ StatusOk(m)'
        BY <3>1 DEF FedInv, SelfOk, RolesOk, StatusOk, Shown
      <3> QED BY <3>2, <3>3 DEF FedInv
    <2>3. ASSUME NEW m \in Clusters, NEW d \in declared, DeclareCoordinator(m, d) PROVE FedInv'
      <3>1. declared \subseteq Nat \X Clusters
        BY DEF FedInv, FedType
      <3>2. d[1] \in Nat /\ d[2] \in Clusters /\ d = <<d[1], d[2]>>
        BY <3>1
      <3>3. Accept(m, d[1], d[2]) /\ declared' = declared /\ UNCHANGED <<fedClock, checked>>
        BY <2>3 DEF DeclareCoordinator
      <3> QED BY <2>3, <3>1, <3>2, <3>3, AcceptFed
    <2>4. ASSUME NEW m \in Clusters, ElectByLowestId(m) PROVE FedInv'
      <3> DEFINE winner == CHOOSE c \in Online(m) : \A d \in Online(m) : c <= d
      <3>1. Online(m) \in SUBSET Nat /\ Online(m) # {} /\ Online(m) \subseteq Clusters
        BY <2>4, FedFacts DEF Online
      <3>2. winner \in Clusters
        BY <3>1, LeastNat
      <3>3. term[m] \in Nat /\ declared \subseteq Nat \X Clusters
        BY <2>4 DEF FedInv, FedType
      <3>4. /\ Accept(m, term[m] + 1, winner) /\ declared' = declared \cup {<<term[m] + 1, winner>>}
            /\ UNCHANGED <<fedClock, checked>>
        BY <2>4 DEF ElectByLowestId
      <3> DEFINE t == term[m] + 1
      <3> HIDE DEF winner
      <3>5. t \in Nat /\ Accept(m, t, winner) /\ declared' = declared \cup {<<t, winner>>}
        BY <3>3, <3>4
      <3> HIDE DEF t
      <3>6. declared \subseteq declared' /\ declared' \subseteq Nat \X Clusters /\ <<t, winner>> \in declared'
        BY <3>2, <3>3, <3>5
      <3> QED BY <2>4, <3>2, <3>4, <3>5, <3>6, AcceptFed
    <2> QED BY <2>1, <2>2, <2>3, <2>4, HeartbeatFed, CheckFed, StartFed, EvictFed DEF FedNext
  <1>3. FedInv => FollowsItsTerm
    BY DEF FedInv, FollowsItsTerm, SelfOk, RolesOk, StatusOk, Shown
  <1> QED BY <1>1, <1>2, <1>3, PTL DEF StoresSpec

-----------------------------------------------------------------------------
(* The relay.                                                              *)

RelayTargets == RelayNodes \cup {Everyone}
Outgoing == [seq : Nat, to : RelayTargets]
Packets == [seq : Nat, to : RelayTargets, from : RelayNodes]
StatCounts == [sent : Nat, received : Nat, dropped : Nat]
Busy(n) == {t \in RelayThreads : sending[n][t] # NoMessage}

RelayType ==
    /\ nextSeq \in [RelayNodes -> Nat \ {0}] /\ sending \in [RelayNodes -> [RelayThreads -> Outgoing]]
    /\ onNetwork \subseteq Packets /\ seen \in [RelayNodes -> [RelayNodes -> Nat]]
    /\ accepted \in [RelayNodes -> Seq(Packets)]
    /\ relayStats \in [RelayNodes -> StatCounts]

\* Numbers are given out below the next one.
Numbered ==
    /\ \A n \in RelayNodes, t \in RelayThreads : sending[n][t].seq < nextSeq[n]
    /\ \A msg \in onNetwork : msg.seq < nextSeq[msg.from]

\* What a node accepted is in the order of its sender's numbers, none above the
\* last one seen.
Ordered(n) ==
    /\ \A i \in 1..Len(accepted[n]) : /\ Addressed(n, accepted[n][i])
                                      /\ accepted[n][i].seq < nextSeq[accepted[n][i].from]
                                      /\ accepted[n][i].seq <= seen[n][accepted[n][i].from]
    /\ \A i, j \in 1..Len(accepted[n]) : i < j /\ accepted[n][i].from = accepted[n][j].from =>
         accepted[n][i].seq < accepted[n][j].seq

Counted(n) ==
    /\ relayStats[n].received = Len(accepted[n])
    /\ relayStats[n].sent + Cardinality(Busy(n)) = nextSeq[n] - 1

RelayInv == RelayType /\ Numbered /\ \A n \in RelayNodes : Ordered(n) /\ Counted(n)

LEMMA StatsGrow ==
  ASSUME NEW st \in [RelayNodes -> StatCounts], NEW n \in RelayNodes
  PROVE  /\ [st EXCEPT ![n].sent = @ + 1] \in [RelayNodes -> StatCounts]
         /\ [st EXCEPT ![n].received = @ + 1] \in [RelayNodes -> StatCounts]
         /\ [st EXCEPT ![n].dropped = @ + 1] \in [RelayNodes -> StatCounts]
  <1>1. st[n] \in StatCounts
    OBVIOUS
  <1>2. /\ [st[n] EXCEPT !.sent = @ + 1] \in StatCounts /\ [st[n] EXCEPT !.received = @ + 1] \in StatCounts
        /\ [st[n] EXCEPT !.dropped = @ + 1] \in StatCounts
    BY <1>1 DEF StatCounts
  <1> QED BY <1>2

LEMMA BusyFinite ==
  ASSUME NEW n
  PROVE  IsFiniteSet(Busy(n)) /\ Cardinality(Busy(n)) \in Nat
  BY RelayAssumption, FS_Subset, FS_CardinalityType DEF Busy

LEMMA TakeSeqStep ==
  ASSUME RelayInv, NEW n \in RelayNodes, NEW t \in RelayThreads, NEW to \in RelayTargets, TakeSeq(n, t, to)
  PROVE  RelayInv'
  <1> DEFINE new == [seq |-> nextSeq[n], to |-> to]
  <1>0. RelayType /\ Numbered /\ \A x \in RelayNodes : Ordered(x) /\ Counted(x)
    BY DEF RelayInv
  <1>1. /\ sending[n][t] = NoMessage /\ sending' = [sending EXCEPT ![n][t] = new]
        /\ nextSeq' = [nextSeq EXCEPT ![n] = @ + 1] /\ UNCHANGED <<onNetwork, seen, accepted, relayStats>>
    BY DEF TakeSeq
  <1>2. nextSeq[n] \in Nat \ {0} /\ new \in Outgoing /\ new.seq = nextSeq[n] /\ new # NoMessage
    <2>1. nextSeq[n] \in Nat \ {0}
      BY <1>0 DEF RelayType
    <2>2. NoMessage.seq = 0
      BY DEF NoMessage
    <2> QED BY <2>1, <2>2 DEF Outgoing
  <1> HIDE DEF new
  <1>3. RelayType'
    <2>1. sending' \in [RelayNodes -> [RelayThreads -> Outgoing]]
      BY <1>0, <1>1, <1>2 DEF RelayType
    <2>2. nextSeq' \in [RelayNodes -> Nat \ {0}]
      BY <1>0, <1>1 DEF RelayType
    <2> QED BY <1>0, <1>1, <2>1, <2>2 DEF RelayType
  <1>4. /\ nextSeq'[n] = nextSeq[n] + 1 /\ \A x \in RelayNodes : x # n => nextSeq'[x] = nextSeq[x]
        /\ sending'[n][t] = new
        /\ \A x \in RelayNodes, s \in RelayThreads : (x # n \/ s # t) => sending'[x][s] = sending[x][s]
    BY <1>0, <1>1 DEF RelayType
  <1>5. \A x \in RelayNodes : nextSeq[x] \in Nat /\ nextSeq'[x] \in Nat /\ nextSeq[x] <= nextSeq'[x]
    <2>1. \A x \in RelayNodes : nextSeq[x] \in Nat
      BY <1>0 DEF RelayType
    <2> QED BY <2>1, <1>4
  <1>6. Numbered'
    <2>1. ASSUME NEW x \in RelayNodes, NEW s \in RelayThreads PROVE sending'[x][s].seq < nextSeq'[x]
      <3>1. CASE x = n /\ s = t
        BY <1>2, <1>4, <3>1
      <3>2. CASE ~(x = n /\ s = t)
        <4>1. sending'[x][s] = sending[x][s] /\ sending[x][s].seq < nextSeq[x] /\ sending[x][s].seq \in Nat
          BY <1>0, <1>4, <3>2 DEF Numbered, RelayType, Outgoing
        <4> QED BY <1>5, <4>1
      <3> QED BY <3>1, <3>2
    <2>2. ASSUME NEW msg \in onNetwork PROVE msg.seq < nextSeq'[msg.from]
      <3>1. msg.seq \in Nat /\ msg.from \in RelayNodes /\ msg.seq < nextSeq[msg.from]
        BY <1>0 DEF Numbered, RelayType, Packets
      <3> QED BY <1>5, <3>1
    <2> QED BY <1>1, <2>1, <2>2 DEF Numbered
  <1>7. ASSUME NEW x \in RelayNodes PROVE Ordered(x)'
    <2>1. ASSUME NEW i \in 1..Len(accepted[x]) PROVE accepted[x][i].seq < nextSeq'[accepted[x][i].from]
      <3>1. accepted[x][i] \in Packets
        BY <1>0 DEF RelayType
      <3>2. accepted[x][i].seq \in Nat /\ accepted[x][i].from \in RelayNodes
        BY <3>1 DEF Packets
      <3>3. accepted[x][i].seq < nextSeq[accepted[x][i].from]
        BY <1>0 DEF Ordered
      <3> QED BY <1>5, <3>2, <3>3
    <2> QED BY <1>0, <1>1, <2>1 DEF Ordered, Addressed
  <1>8. ASSUME NEW x \in RelayNodes PROVE Counted(x)'
    <2>0. /\ relayStats' = relayStats /\ accepted' = accepted /\ relayStats[x].sent \in Nat /\ nextSeq[x] \in Nat
          /\ Cardinality(Busy(x)) \in Nat /\ IsFiniteSet(Busy(x))
      BY <1>0, <1>1, <1>5, BusyFinite DEF RelayType, StatCounts
    <2>1. CASE x = n
      <3>1. Busy(n)' = Busy(n) \cup {t} /\ t \notin Busy(n)
        BY <1>1, <1>2, <1>4 DEF Busy, NoMessage
      <3>2. Cardinality(Busy(n) \cup {t}) = Cardinality(Busy(n)) + 1
        BY <2>0, <2>1, <3>1, FS_AddElement
      <3>3. relayStats[n].received = Len(accepted[n]) /\ relayStats[n].sent + Cardinality(Busy(n)) = nextSeq[n] - 1
        BY <1>0 DEF Counted
      <3>4. relayStats[n].sent + (Cardinality(Busy(n)) + 1) = nextSeq'[n] - 1
        BY <1>4, <2>0, <2>1, <3>3
      <3>5. Cardinality(Busy(n)') = Cardinality(Busy(n)) + 1
        BY <3>1, <3>2
      <3>6. relayStats'[n].sent + Cardinality(Busy(n)') = nextSeq'[n] - 1
        BY <2>0, <3>4, <3>5
      <3> QED BY <2>0, <2>1, <3>3, <3>6 DEF Counted
    <2>2. CASE x # n
      <3>1. Busy(x)' = Busy(x)
        BY <1>4, <2>2 DEF Busy, NoMessage
      <3>2. nextSeq'[x] = nextSeq[x]
        BY <1>4, <2>2
      <3> QED BY <1>0, <2>0, <3>1, <3>2 DEF Counted
    <2> QED BY <2>1, <2>2
  <1>9. \A x \in RelayNodes : Ordered(x)' /\ Counted(x)'
    BY <1>7, <1>8
  <1> QED BY <1>3, <1>6, <1>9 DEF RelayInv

LEMMA PublishMessageStep ==
  ASSUME RelayInv, NEW n \in RelayNodes, NEW t \in RelayThreads, PublishMessage(n, t)
  PROVE  RelayInv'
  <1> DEFINE new == [seq |-> sending[n][t].seq, to |-> sending[n][t].to, from |-> n]
  <1>0. RelayType /\ Numbered /\ \A x \in RelayNodes : Ordered(x) /\ Counted(x)
    BY DEF RelayInv
  <1>1. /\ sending[n][t] # NoMessage /\ sending' = [sending EXCEPT ![n][t] = NoMessage]
        /\ onNetwork' = onNetwork \cup {new} /\ relayStats' = [relayStats EXCEPT ![n].sent = @ + 1]
        /\ UNCHANGED <<nextSeq, seen, accepted>>
    BY DEF PublishMessage
  <1>2. new \in Packets /\ new.seq < nextSeq[new.from] /\ NoMessage \in Outgoing /\ NoMessage.seq = 0
    <2>1. sending[n][t] \in Outgoing /\ sending[n][t].seq < nextSeq[n]
      BY <1>0 DEF RelayType, Numbered
    <2> QED BY <2>1 DEF Packets, Outgoing, NoMessage, RelayTargets
  <1> HIDE DEF new
  <1>3. RelayType'
    <2>1. sending' \in [RelayNodes -> [RelayThreads -> Outgoing]]
      BY <1>0, <1>1, <1>2 DEF RelayType
    <2>2. relayStats' \in [RelayNodes -> StatCounts]
      BY <1>0, <1>1, StatsGrow DEF RelayType
    <2> QED BY <1>0, <1>1, <1>2, <2>1, <2>2 DEF RelayType
  <1>4. /\ sending'[n][t] = NoMessage
        /\ \A x \in RelayNodes, s \in RelayThreads : (x # n \/ s # t) => sending'[x][s] = sending[x][s]
        /\ relayStats'[n].sent = relayStats[n].sent + 1
        /\ \A x \in RelayNodes : x # n => relayStats'[x] = relayStats[x]
        /\ \A x \in RelayNodes : relayStats'[x].received = relayStats[x].received
    BY <1>0, <1>1 DEF RelayType
  <1>5. Numbered'
    <2>1. \A x \in RelayNodes : nextSeq[x] > 0
      BY <1>0 DEF RelayType
    <2>2. \A x \in RelayNodes, s \in RelayThreads : sending'[x][s].seq < nextSeq[x]
      BY <1>0, <1>2, <1>4, <2>1 DEF Numbered
    <2>3. \A msg \in onNetwork' : msg.seq < nextSeq[msg.from]
      BY <1>0, <1>1, <1>2 DEF Numbered
    <2> QED BY <1>1, <2>2, <2>3 DEF Numbered
  <1>6. ASSUME NEW x \in RelayNodes PROVE Ordered(x)'
    BY <1>0, <1>1 DEF Ordered, Addressed
  <1>7. ASSUME NEW x \in RelayNodes PROVE Counted(x)'
    <2>0. /\ accepted' = accepted /\ nextSeq' = nextSeq /\ relayStats[x].sent \in Nat /\ nextSeq[x] \in Nat
          /\ Cardinality(Busy(x)) \in Nat /\ IsFiniteSet(Busy(x))
      BY <1>0, <1>1, BusyFinite DEF RelayType, StatCounts
    <2>1. CASE x = n
      <3>1. Busy(n)' = Busy(n) \ {t} /\ t \in Busy(n)
        BY <1>1, <1>2, <1>4 DEF Busy, NoMessage
      <3>2. Cardinality(Busy(n) \ {t}) = Cardinality(Busy(n)) - 1
        BY <2>0, <2>1, <3>1, FS_RemoveElement
      <3>3. relayStats[n].received = Len(accepted[n]) /\ relayStats[n].sent + Cardinality(Busy(n)) = nextSeq[n] - 1
        BY <1>0 DEF Counted
      <3>4. (relayStats[n].sent + 1) + (Cardinality(Busy(n)) - 1) = nextSeq[n] - 1
        BY <2>0, <2>1, <3>3, SMTT(30)
      <3>5. Cardinality(Busy(n)') = Cardinality(Busy(n)) - 1
        BY <3>1, <3>2
      <3>6. relayStats'[n].sent + Cardinality(Busy(n)') = nextSeq'[n] - 1
        BY <1>4, <2>0, <3>4, <3>5
      <3> QED BY <1>4, <2>0, <2>1, <3>3, <3>6 DEF Counted
    <2>2. CASE x # n
      <3>1. Busy(x)' = Busy(x)
        BY <1>4, <2>2 DEF Busy, NoMessage
      <3> QED BY <1>0, <1>4, <2>0, <2>2, <3>1 DEF Counted
    <2> QED BY <2>1, <2>2
  <1> QED BY <1>3, <1>5, <1>6, <1>7 DEF RelayInv

LEMMA ReceiveMessageStep ==
  ASSUME RelayInv, NEW msg \in onNetwork, NEW n \in RelayNodes, ReceiveMessage(n, msg)
  PROVE  RelayInv'
  <1> DEFINE f == msg.from
  <1>0. RelayType /\ Numbered /\ \A x \in RelayNodes : Ordered(x) /\ Counted(x)
    BY DEF RelayInv
  <1>1. Addressed(n, msg) /\ UNCHANGED <<nextSeq, sending, onNetwork>>
    BY DEF ReceiveMessage
  <1>2. msg \in Packets /\ msg.seq \in Nat /\ f \in RelayNodes /\ msg.seq < nextSeq[f] /\ seen[n][f] \in Nat
    BY <1>0 DEF RelayType, Numbered, Packets
  <1>3. Numbered' /\ \A x \in RelayNodes : Busy(x)' = Busy(x)
    BY <1>0, <1>1 DEF Numbered, Busy, NoMessage
  <1>4. CASE Duplicate(n, msg)
    <2>1. relayStats' = [relayStats EXCEPT ![n].dropped = @ + 1] /\ UNCHANGED <<seen, accepted>>
      BY <1>4 DEF ReceiveMessage
    <2>2. RelayType'
      <3>1. relayStats' \in [RelayNodes -> StatCounts]
        BY <1>0, <2>1, StatsGrow DEF RelayType
      <3> QED BY <1>0, <1>1, <2>1, <3>1 DEF RelayType
    <2>3. \A x \in RelayNodes : relayStats'[x].sent = relayStats[x].sent /\ relayStats'[x].received = relayStats[x].received
      BY <1>0, <2>1 DEF RelayType
    <2>4. \A x \in RelayNodes : Ordered(x)'
      BY <1>0, <1>1, <2>1 DEF Ordered, Addressed
    <2>5. \A x \in RelayNodes : Counted(x)'
      BY <1>0, <1>1, <1>3, <2>1, <2>3 DEF Counted
    <2> QED BY <1>3, <2>2, <2>4, <2>5 DEF RelayInv
  <1>5. CASE ~Duplicate(n, msg)
    <2>1. /\ seen' = [seen EXCEPT ![n][f] = msg.seq] /\ accepted' = [accepted EXCEPT ![n] = Append(@, msg)]
          /\ relayStats' = [relayStats EXCEPT ![n].received = @ + 1]
      BY <1>5 DEF ReceiveMessage
    <2>2. msg.seq > seen[n][f]
      BY <1>2, <1>5 DEF Duplicate
    <2>3. RelayType'
      <3>1. seen' \in [RelayNodes -> [RelayNodes -> Nat]]
        BY <1>0, <1>2, <2>1 DEF RelayType
      <3>2. accepted' \in [RelayNodes -> Seq(Packets)]
        BY <1>0, <1>2, <2>1 DEF RelayType
      <3>3. relayStats' \in [RelayNodes -> StatCounts]
        BY <1>0, <2>1, StatsGrow DEF RelayType
      <3> QED BY <1>0, <1>1, <3>1, <3>2, <3>3 DEF RelayType
    <2>4. /\ accepted'[n] = Append(accepted[n], msg)
          /\ \A x \in RelayNodes : x # n => accepted'[x] = accepted[x] /\ seen'[x] = seen[x] /\ relayStats'[x] = relayStats[x]
          /\ seen'[n][f] = msg.seq /\ \A y \in RelayNodes : y # f => seen'[n][y] = seen[n][y]
          /\ relayStats'[n].received = relayStats[n].received + 1 /\ relayStats'[n].sent = relayStats[n].sent
      BY <1>0, <1>2, <2>1 DEF RelayType
    <2> DEFINE s == accepted[n]
               u == accepted'[n]
               L == Len(s)
    <2>5. s \in Seq(Packets) /\ L \in Nat /\ Len(u) = L + 1 /\ u[L + 1] = msg /\ \A i \in 1..L : u[i] = s[i]
      BY <1>0, <2>4 DEF RelayType
    <2>6. \A i \in 1..L : /\ Addressed(n, s[i]) /\ s[i].seq < nextSeq[s[i].from] /\ s[i].seq <= seen[n][s[i].from]
                          /\ s[i].seq \in Nat /\ s[i].from \in RelayNodes
      <3>1. \A i \in 1..L : s[i] \in Packets
        BY <2>5
      <3>2. \A i \in 1..L : s[i].seq \in Nat /\ s[i].from \in RelayNodes
        BY <3>1 DEF Packets
      <3> QED BY <1>0, <3>2 DEF Ordered
    <2>7. \A i, j \in 1..L : i < j /\ s[i].from = s[j].from => s[i].seq < s[j].seq
      BY <1>0 DEF Ordered
    <2> HIDE DEF s, u, L
    <2>8. \A i \in 1..L : s[i].seq <= seen'[n][s[i].from] /\ (s[i].from = f => s[i].seq < msg.seq)
      <3> SUFFICES ASSUME NEW i \in 1..L PROVE s[i].seq <= seen'[n][s[i].from] /\ (s[i].from = f => s[i].seq < msg.seq)
        OBVIOUS
      <3>1. CASE s[i].from = f
        BY <1>2, <2>2, <2>4, <2>6, <3>1
      <3>2. CASE s[i].from # f
        BY <2>4, <2>6, <3>2
      <3> QED BY <3>1, <3>2
    <2>9. ASSUME NEW i \in 1..Len(u)
          PROVE  Addressed(n, u[i]) /\ u[i].seq < nextSeq[u[i].from] /\ u[i].seq <= seen'[n][u[i].from]
      <3>1. CASE i = L + 1
        BY <1>1, <1>2, <2>4, <2>5, <3>1
      <3>2. CASE i # L + 1
        <4>1. i \in 1..L
          BY <2>5, <3>2
        <4> QED BY <2>5, <2>6, <2>8, <4>1
      <3> QED BY <3>1, <3>2
    <2>10. ASSUME NEW i \in 1..Len(u), NEW j \in 1..Len(u), i < j, u[i].from = u[j].from PROVE u[i].seq < u[j].seq
      <3>1. i \in 1..L
        BY <2>5, <2>10
      <3>2. CASE j = L + 1
        BY <2>5, <2>8, <2>10, <3>1, <3>2
      <3>3. CASE j # L + 1
        <4>1. j \in 1..L
          BY <2>5, <3>3
        <4> QED BY <2>5, <2>7, <2>10, <3>1, <4>1
      <3> QED BY <3>2, <3>3
    <2>11. Ordered(n)'
      BY <1>1, <2>9, <2>10 DEF Ordered, Addressed, u
    <2>12. \A x \in RelayNodes : x # n => Ordered(x)'
      BY <1>0, <1>1, <2>4, SMTT(30) DEF Ordered, Addressed
    <2>13. Counted(n)'
      <3>1. relayStats[n].received = L /\ relayStats[n].sent + Cardinality(Busy(n)) = nextSeq[n] - 1
        BY <1>0 DEF Counted, L, s
      <3>2. relayStats'[n].received = Len(u)
        BY <2>4, <2>5, <3>1
      <3> QED BY <1>1, <1>3, <2>4, <3>1, <3>2 DEF Counted, u
    <2>14. \A x \in RelayNodes : x # n => Counted(x)'
      BY <1>0, <1>1, <1>3, <2>4 DEF Counted
    <2> QED BY <1>3, <2>3, <2>11, <2>12, <2>13, <2>14 DEF RelayInv
  <1> QED BY <1>4, <1>5

\* The relay (relay.rs): for any nodes and threads, and a network that loses,
\* delays and repeats, no message is accepted twice or after a later one of its
\* sender, and the statistics count what happened.
THEOREM RelayIsOnceInOrder == StoresSpec => []OnceInOrder
  <1>1. StoresInit => RelayInv
    <2> SUFFICES ASSUME RelayInit PROVE RelayInv
      BY DEF StoresInit
    <2>1. RelayType
      <3>1. NoMessage \in Outgoing
        BY DEF NoMessage, Outgoing, RelayTargets
      <3>2. /\ nextSeq \in [RelayNodes -> Nat \ {0}] /\ onNetwork \subseteq Packets
            /\ seen \in [RelayNodes -> [RelayNodes -> Nat]] /\ accepted \in [RelayNodes -> Seq(Packets)]
        BY DEF RelayInit
      <3>3. sending \in [RelayNodes -> [RelayThreads -> Outgoing]]
        BY <3>1 DEF RelayInit
      <3>4. relayStats \in [RelayNodes -> StatCounts]
        BY DEF RelayInit, StatCounts
      <3> QED BY <3>2, <3>3, <3>4 DEF RelayType
    <2>2. Numbered
      BY DEF RelayInit, Numbered, NoMessage
    <2>3. ASSUME NEW n \in RelayNodes PROVE Ordered(n) /\ Counted(n)
      <3>1. accepted[n] = <<>> /\ Len(accepted[n]) = 0 /\ nextSeq[n] = 1 /\ relayStats[n].received = 0 /\ relayStats[n].sent = 0
        BY DEF RelayInit
      <3>2. Busy(n) = {}
        BY DEF RelayInit, Busy
      <3>3. Cardinality(Busy(n)) = 0
        BY <3>2, FS_EmptySet
      <3> QED BY <3>1, <3>3 DEF Ordered, Counted
    <2> QED BY <2>1, <2>2, <2>3 DEF RelayInv
  <1>2. RelayInv /\ [StoresNext]_storesVars => RelayInv'
    <2> SUFFICES ASSUME RelayInv, [RelayNext]_relayVars PROVE RelayInv'
      BY EachStore
    <2>1. CASE UNCHANGED relayVars
      BY <2>1 DEF relayVars, RelayInv, RelayType, Numbered, Ordered, Counted, Addressed, Busy
    <2>2. ASSUME NEW msg \in onNetwork, LoseMessage(msg) PROVE RelayInv'
      <3>1. onNetwork' = onNetwork \ {msg} /\ UNCHANGED <<nextSeq, sending, seen, accepted, relayStats>>
        BY <2>2 DEF LoseMessage
      <3>2. RelayType' /\ Numbered'
        BY <3>1 DEF RelayInv, RelayType, Numbered
      <3>3. \A n \in RelayNodes : Ordered(n)' /\ Counted(n)'
        BY <3>1 DEF RelayInv, Ordered, Counted, Addressed, Busy
      <3> QED BY <3>2, <3>3 DEF RelayInv
    <2>3. ASSUME NEW n \in RelayNodes, NEW t \in RelayThreads, PublishMessage(n, t) PROVE RelayInv'
      BY <2>3, PublishMessageStep
    <2>4. ASSUME NEW n \in RelayNodes, NEW t \in RelayThreads, NEW to \in RelayNodes \cup {Everyone}, TakeSeq(n, t, to)
          PROVE  RelayInv'
      <3>1. to \in RelayTargets
        BY DEF RelayTargets
      <3> QED BY <2>4, <3>1, TakeSeqStep
    <2>5. ASSUME NEW msg \in onNetwork, NEW n \in RelayNodes, ReceiveMessage(n, msg) PROVE RelayInv'
      BY <2>5, ReceiveMessageStep
    <2> QED BY <2>1, <2>2, <2>3, <2>4, <2>5 DEF RelayNext
  <1>3. RelayInv => OnceInOrder
    <2> SUFFICES ASSUME RelayInv, NEW n \in RelayNodes
                 PROVE  /\ \A i, j \in DOMAIN accepted[n] : i < j /\ accepted[n][i].from = accepted[n][j].from =>
                             accepted[n][i].seq < accepted[n][j].seq
                        /\ \A i \in DOMAIN accepted[n] :
                             Addressed(n, accepted[n][i]) /\ accepted[n][i].seq < nextSeq[accepted[n][i].from]
                        /\ relayStats[n].received = Len(accepted[n])
                        /\ relayStats[n].sent + Cardinality({t \in RelayThreads : sending[n][t] # NoMessage}) = nextSeq[n] - 1
      BY DEF OnceInOrder
    <2>1. DOMAIN accepted[n] = 1..Len(accepted[n])
      BY DEF RelayInv, RelayType
    <2> QED BY <2>1 DEF RelayInv, Ordered, Counted, Busy
  <1> QED BY <1>1, <1>2, <1>3, PTL DEF StoresSpec

-----------------------------------------------------------------------------
(* Nodes and placement.                                                    *)

NodeShown(n) == IF lastSweep - lastHeartbeat[n] >= OfflineTTL THEN "offline"
                ELSE IF lastSweep - lastHeartbeat[n] >= HeartbeatTTL THEN "suspect" ELSE "online"

\* A placement is kept only until something changes.
NodesInv ==
    /\ nodeStatus \in [Machines -> {"unknown", "online", "suspect", "offline"}]
    /\ lastHeartbeat \in [Machines -> Nat] /\ fleetClock \in Nat /\ lastSweep \in Nat /\ lastSweep <= fleetClock
    /\ \A n \in Machines : nodeStatus[n] # "unknown" => nodeStatus[n] = NodeShown(n)
    /\ placed # NotPlaced => \E r \in Asked, list \in Orders(Members) :
         placed = {[request |-> r, list |-> list, choice |-> {list[i] : i \in BestPlace(r, list)}]}

LEMMA FleetFacts ==
  /\ HeartbeatTTL \in Nat /\ OfflineTTL \in Nat /\ 0 < HeartbeatTTL /\ HeartbeatTTL <= OfflineTTL
  /\ IsFiniteSet(Machines) /\ \A n \in Machines : Traits[n].gpus \in Nat /\ Traits[n].vram \in Nat
  /\ \A r \in Asked : r.policy \in {"gpu", "balanced", "locality", "cost", "manual"} /\ IsFiniteSet(r.caps)
  BY NodeFleetAssumption

LEMMA NodesStep ==
  ASSUME NodesInv, [NodesNext]_nodeVars
  PROVE  NodesInv'
  <1>0. /\ nodeStatus \in [Machines -> {"unknown", "online", "suspect", "offline"}]
        /\ lastHeartbeat \in [Machines -> Nat] /\ fleetClock \in Nat /\ lastSweep \in Nat /\ lastSweep <= fleetClock
        /\ \A n \in Machines : nodeStatus[n] # "unknown" => nodeStatus[n] = NodeShown(n)
    BY DEF NodesInv
  <1>1. CASE UNCHANGED nodeVars
    <2>1. UNCHANGED <<nodeStatus, lastHeartbeat, fleetClock, lastSweep, placed>>
      BY <1>1 DEF nodeVars
    <2>2. \A x \in Machines : nodeStatus'[x] # "unknown" => nodeStatus'[x] = NodeShown(x)'
      BY <1>0, <2>1 DEF NodeShown
    <2>3. CASE placed = NotPlaced
      BY <1>0, <2>1, <2>2, <2>3 DEF NodesInv, NotPlaced
    <2>4. CASE placed # NotPlaced
      <3>1. PICK r \in Asked, list \in Orders(Members) :
              placed = {[request |-> r, list |-> list, choice |-> {list[i] : i \in BestPlace(r, list)}]}
        BY <2>4 DEF NodesInv
      <3>2. Orders(Members)' = Orders(Members) /\ BestPlace(r, list)' = BestPlace(r, list)
        BY <2>1 DEF Members, Orders, BestPlace, Candidates, Score, Disqualified
      <3>3. (\E y \in Asked, l \in Orders(Members) :
               placed = {[request |-> y, list |-> l, choice |-> {l[i] : i \in BestPlace(y, l)}]})'
        BY <2>1, <3>1, <3>2
      <3> QED BY <1>0, <2>1, <2>2, <3>3 DEF NodesInv
    <2> QED BY <2>3, <2>4
  <1>2. CASE UpdateStatuses
    <2>1. /\ nodeStatus' = [n \in Machines |-> IF n \in Members THEN Swept(n) ELSE "unknown"]
          /\ lastSweep' = fleetClock /\ placed' = NotPlaced /\ UNCHANGED <<lastHeartbeat, fleetClock>>
      BY <1>2 DEF UpdateStatuses
    <2>2. ASSUME NEW n \in Machines, n \in Members PROVE Swept(n) = NodeShown(n)' /\ Swept(n) \in {"online", "suspect", "offline"}
      <3> DEFINE e == fleetClock - lastHeartbeat[n]
                 o == lastSweep - lastHeartbeat[n]
      <3>1. e \in Int /\ o \in Int /\ o <= e
        BY <1>0
      <3>2. nodeStatus[n] = IF o >= OfflineTTL THEN "offline" ELSE IF o >= HeartbeatTTL THEN "suspect" ELSE "online"
        BY <1>0, <2>2 DEF Members, NodeShown
      <3>3. Swept(n) = IF e >= OfflineTTL THEN "offline" ELSE IF e >= HeartbeatTTL THEN "suspect" ELSE nodeStatus[n]
        BY DEF Swept
      <3>4. NodeShown(n)' = IF e >= OfflineTTL THEN "offline" ELSE IF e >= HeartbeatTTL THEN "suspect" ELSE "online"
        BY <2>1 DEF NodeShown
      <3> HIDE DEF e, o
      <3> QED BY <3>1, <3>2, <3>3, <3>4, FleetFacts
    <2>3. nodeStatus' \in [Machines -> {"unknown", "online", "suspect", "offline"}]
      BY <2>1, <2>2
    <2>4. \A n \in Machines : nodeStatus'[n] # "unknown" => nodeStatus'[n] = NodeShown(n)'
      BY <2>1, <2>2
    <2> QED BY <1>0, <2>1, <2>3, <2>4 DEF NodesInv
  <1>3. CASE FleetTick
    <2>1. fleetClock' = fleetClock + 1 /\ placed' = NotPlaced /\ UNCHANGED <<nodeStatus, lastHeartbeat, lastSweep>>
      BY <1>3 DEF FleetTick
    <2> QED BY <1>0, <2>1 DEF NodesInv, NodeShown
  <1>4. ASSUME NEW n \in Machines, RegisterNode(n) \/ HeartbeatNode(n) PROVE NodesInv'
    <2>1. /\ nodeStatus' = [nodeStatus EXCEPT ![n] = "online"] /\ lastHeartbeat' = [lastHeartbeat EXCEPT ![n] = fleetClock]
          /\ placed' = NotPlaced /\ UNCHANGED <<fleetClock, lastSweep>>
      BY <1>4 DEF RegisterNode, HeartbeatNode
    <2>2. \A x \in Machines : nodeStatus'[x] # "unknown" => nodeStatus'[x] = NodeShown(x)'
      <3> SUFFICES ASSUME NEW x \in Machines, nodeStatus'[x] # "unknown" PROVE nodeStatus'[x] = NodeShown(x)'
        OBVIOUS
      <3>1. CASE x = n
        <4>1. lastHeartbeat'[x] = fleetClock /\ nodeStatus'[x] = "online"
          BY <1>0, <2>1, <3>1
        <4> QED BY <1>0, <2>1, <4>1, FleetFacts DEF NodeShown
      <3>2. CASE x # n
        BY <1>0, <2>1, <3>2 DEF NodeShown
      <3> QED BY <3>1, <3>2
    <2> QED BY <1>0, <2>1, <2>2 DEF NodesInv
  <1>5. ASSUME NEW n \in Machines, Unregister(n) PROVE NodesInv'
    <2>1. nodeStatus' = [nodeStatus EXCEPT ![n] = "unknown"] /\ placed' = NotPlaced /\ UNCHANGED <<lastHeartbeat, fleetClock, lastSweep>>
      BY <1>5 DEF Unregister
    <2>2. \A x \in Machines : nodeStatus'[x] # "unknown" => nodeStatus'[x] = NodeShown(x)'
      BY <1>0, <2>1 DEF NodeShown
    <2> QED BY <1>0, <2>1, <2>2 DEF NodesInv
  <1>6. ASSUME NEW r \in Asked, NEW list \in Orders(Members), Place(r, list) PROVE NodesInv'
    <2>1. /\ placed' = {[request |-> r, list |-> list, choice |-> {list[i] : i \in BestPlace(r, list)}]}
          /\ UNCHANGED <<nodeStatus, lastHeartbeat, fleetClock, lastSweep>>
      BY <1>6 DEF Place
    <2>2. Orders(Members)' = Orders(Members) /\ BestPlace(r, list)' = BestPlace(r, list)
      BY <2>1 DEF Members, Orders, BestPlace, Candidates, Score, Disqualified
    <2>3. (\E y \in Asked, l \in Orders(Members) :
             placed = {[request |-> y, list |-> l, choice |-> {l[i] : i \in BestPlace(y, l)}]})'
      BY <2>1, <2>2
    <2>4. \A x \in Machines : nodeStatus'[x] # "unknown" => nodeStatus'[x] = NodeShown(x)'
      BY <1>0, <2>1 DEF NodeShown
    <2> QED BY <1>0, <2>1, <2>3, <2>4 DEF NodesInv
  <1> QED BY <1>1, <1>2, <1>3, <1>4, <1>5, <1>6 DEF NodesNext

\* A list of all members has each of them.
LEMMA ListIs ==
  ASSUME NEW list \in Orders(Members)
  PROVE  /\ Len(list) \in Nat /\ DOMAIN list = 1..Len(list) /\ \A i \in 1..Len(list) : list[i] \in Members /\ list[i] \in Machines
         /\ \A m \in Members : \E i \in 1..Len(list) : list[i] = m
  <1> DEFINE k == Cardinality(Members)
             R == {list[i] : i \in 1..k}
  <1>0. IsFiniteSet(Members) /\ k \in Nat /\ Members \subseteq Machines
    BY FleetFacts, FS_Subset, FS_CardinalityType DEF Members
  <1>1. list \in [1..k -> Members] /\ \A i, j \in 1..k : list[i] = list[j] => i = j
    BY DEF Orders
  <1>2. DOMAIN list = 1..k /\ Len(list) = k
    <2>1. list \in Seq(Members)
      BY <1>0, <1>1
    <2> QED BY <1>0, <1>1, <2>1
  <1>3. R \subseteq Members
    BY <1>1
  <1>4. list \in Bijection(1..k, R)
    BY <1>1 DEF Bijection, Injection, IsInjective, Surjection
  <1>5. IsFiniteSet(1..k) /\ Cardinality(1..k) = k
    BY <1>0, FS_Interval
  <1>6. Cardinality(R) = k
    <2> HIDE DEF k, R
    <2>1. ExistsBijection(1..k, R)
      BY <1>4 DEF ExistsBijection
    <2> QED BY <1>5, <2>1, FS_Bijection
  <1>7. R = Members
    <2> HIDE DEF R
    <2> QED BY <1>0, <1>3, <1>6, FS_Subset
  <1>8. \A m \in Members : \E i \in 1..k : list[i] = m
    BY <1>7
  <1> QED BY <1>0, <1>1, <1>2, <1>8

LEMMA CompareProducts ==
  ASSUME NEW a \in Nat, NEW b \in Nat, NEW c \in Nat, c > 0
  PROVE  a * c > b * c <=> a > b
  <1>1. a * c \in Nat /\ b * c \in Nat
    BY Products
  <1>2. CASE a > b
    <2>1. b + 1 <= a /\ b + 1 \in Nat /\ (b + 1) * c = b * c + c
      BY <1>2, Products
    <2>2. (b + 1) * c <= a * c
      BY <2>1, Products
    <2> QED BY <1>1, <1>2, <2>1, <2>2
  <1>3. CASE ~(a > b)
    <2>1. a * c <= b * c
      BY <1>3, Products
    <2> QED BY <1>1, <1>3, <2>1
  <1> QED BY <1>2, <1>3

\* What a candidate scores, by policy.
LEMMA ScoreIs ==
  ASSUME NEW r \in Asked, NEW list \in Orders(Members), NEW i \in 1..Len(list)
  PROVE  /\ Disqualified(r, list[i]) => Score(r, list, i)[1] = 0
         /\ ~Disqualified(r, list[i]) => Score(r, list, i) = PolicyScore(r, list[i], i, Len(list))
  BY DEF Score

\* What is chosen is a candidate than which no candidate is better.
Unbeaten(r, list, i) ==
    /\ i \in 1..Len(list) /\ Score(r, list, i)[1] > 0 /\ ~Disqualified(r, list[i])
    /\ list[i] \in Machines /\ list[i] \in Members
    /\ Score(r, list, i) = PolicyScore(r, list[i], i, Len(list))
    /\ \A j \in 1..Len(list) : Score(r, list, j)[1] > 0 => (~Better(Score(r, list, j), Score(r, list, i))
                       /\ (j < i => Better(Score(r, list, i), Score(r, list, j))))

LEMMA ChosenIs ==
  ASSUME NodesInv, NEW r \in Asked, NEW list \in Orders(Members), NEW i \in BestPlace(r, list)
  PROVE  Unbeaten(r, list, i)
  <1>1. DOMAIN list = 1..Len(list) /\ \A j \in 1..Len(list) : list[j] \in Members /\ list[j] \in Machines
    BY ListIs
  <1>2. /\ i \in 1..Len(list) /\ Score(r, list, i)[1] > 0
        /\ \A j \in 1..Len(list) : Score(r, list, j)[1] > 0 => (~Better(Score(r, list, j), Score(r, list, i))
                       /\ (j < i => Better(Score(r, list, i), Score(r, list, j))))
    BY <1>1 DEF BestPlace, Candidates
  <1>3. ~Disqualified(r, list[i])
    BY <1>2, ScoreIs
  <1> QED BY <1>1, <1>2, <1>3, ScoreIs DEF Unbeaten

LEMMA CoveredIs ==
  ASSUME NEW r \in Asked, NEW S
  PROVE  Cardinality(r.caps \cap S) \in Nat /\ Cardinality(r.caps) \in Nat /\ (r.caps = {} => Cardinality(r.caps \cap S) = 0)
         /\ (r.caps # {} => Cardinality(r.caps) > 0)
  <1>1. IsFiniteSet(r.caps)
    BY FleetFacts
  <1>2. IsFiniteSet(r.caps \cap S)
    <2>1. r.caps \cap S \in SUBSET r.caps
      OBVIOUS
    <2> QED BY <1>1, <2>1, FS_Subset
  <1>3. Cardinality(r.caps \cap S) \in Nat /\ Cardinality(r.caps) \in Nat
    BY <1>1, <1>2, FS_CardinalityType
  <1>4. r.caps = {} => Cardinality(r.caps \cap S) = 0
    <2>1. r.caps = {} => r.caps \cap S = {}
      OBVIOUS
    <2> QED BY <2>1, FS_EmptySet
  <1>5. r.caps # {} => Cardinality(r.caps) # 0
    BY <1>1, FS_EmptySet
  <1> QED BY <1>3, <1>4, <1>5

LEMMA ChosenNode ==
  ASSUME NodesInv, NEW r \in Asked, NEW list \in Orders(Members), NEW i \in BestPlace(r, list)
  PROVE  /\ lastSweep - lastHeartbeat[list[i]] < HeartbeatTTL
         /\ r.hardware # "none" => SatisfiesHardware(list[i], r.need)
         /\ r.policy = "gpu" => Traits[list[i]].vram > 0
         /\ r.policy = "manual" => list[i] = r.preferred
         /\ \A m \in Members : ~Disqualified(r, m) => ~Preferred(r, m, list[i])
  <1> DEFINE n == list[i]
             N == Len(list)
             s == Score(r, list, i)
  <1>1. /\ i \in 1..N /\ s[1] > 0 /\ ~Disqualified(r, n) /\ n \in Machines /\ n \in Members
        /\ s = PolicyScore(r, n, i, N)
        /\ \A j \in 1..N : Score(r, list, j)[1] > 0 => ~Better(Score(r, list, j), s)
    <2>1. Unbeaten(r, list, i)
      BY ChosenIs
    <2> QED BY <2>1 DEF Unbeaten
  <1>2. Traits[n].gpus \in Nat /\ Traits[n].vram \in Nat
    BY <1>1, FleetFacts
  <1> HIDE DEF n, N, s
  <1>3. lastSweep - lastHeartbeat[n] < HeartbeatTTL
    <2>1. nodeStatus[n] = "online" /\ nodeStatus[n] = NodeShown(n)
      BY <1>1 DEF Disqualified, NodesInv
    <2>2. lastHeartbeat[n] \in Nat /\ lastSweep \in Nat
      BY <1>1 DEF NodesInv
    <2> QED BY <2>1, <2>2, FleetFacts DEF NodeShown
  <1>4. ASSUME r.policy = "gpu"
        PROVE  /\ Traits[n].gpus # 0 /\ Traits[n].vram > 0
               /\ s = <<IF Traits[n].vram > VramCeiling THEN VramCeiling ELSE Traits[n].vram, VramCeiling>>
    <2>1. s = IF Traits[n].gpus = 0 THEN <<0, 1>>
              ELSE <<IF Traits[n].vram > VramCeiling THEN VramCeiling ELSE Traits[n].vram, VramCeiling>>
      BY <1>1, <1>4 DEF PolicyScore
    <2>2. Traits[n].gpus # 0
      BY <1>1, <2>1
    <2> QED BY <1>1, <1>2, <2>1, <2>2 DEF VramCeiling
  <1>5. ASSUME r.policy = "manual" PROVE n = r.preferred
    <2>1. s = <<IF n = r.preferred THEN 1 ELSE 0, 1>>
      BY <1>1, <1>5 DEF PolicyScore
    <2> QED BY <1>1, <2>1
  <1>6. ASSUME NEW m \in Members, ~Disqualified(r, m), Preferred(r, m, n) PROVE FALSE
    <2>1. PICK j \in 1..N : list[j] = m
      BY ListIs DEF N
    <2>2. m \in Machines
      BY DEF Members
    <2>3. Traits[m].gpus \in Nat /\ Traits[m].vram \in Nat
      BY <2>2, FleetFacts
    <2> DEFINE t == Score(r, list, j)
    <2>4. t = PolicyScore(r, m, j, N)
      BY <1>6, <2>1, ScoreIs DEF N
    <2>5. t[1] > 0 => ~Better(t, s)
      BY <1>1
    <2> HIDE DEF t
    <2>6. CASE r.policy = "gpu"
      <3>1. Traits[m].gpus > 0 /\ Traits[m].vram > Traits[n].vram /\ Traits[n].vram < VramCeiling
        BY <1>6, <2>6 DEF Preferred
      <3>2. t = <<IF Traits[m].vram > VramCeiling THEN VramCeiling ELSE Traits[m].vram, VramCeiling>>
        BY <2>3, <2>4, <2>6, <3>1 DEF PolicyScore
      <3>3. s = <<Traits[n].vram, VramCeiling>>
        BY <1>2, <1>4, <2>6, <3>1 DEF VramCeiling
      <3>4. t[1] > Traits[n].vram /\ t[1] \in Nat /\ t[2] = 1000000 /\ s[1] = Traits[n].vram /\ s[2] = 1000000
        BY <1>2, <2>3, <3>1, <3>2, <3>3 DEF VramCeiling
      <3> QED BY <1>2, <2>5, <3>4 DEF Better
    <2>7. CASE r.policy = "cost"
      <3>1. Traits[m].gpus + Traits[m].vram < Traits[n].gpus + Traits[n].vram
        BY <1>6, <2>7 DEF Preferred
      <3>2. t = <<1, 1 + Traits[m].gpus + Traits[m].vram>> /\ s = <<1, 1 + Traits[n].gpus + Traits[n].vram>>
        BY <1>1, <2>4, <2>7 DEF PolicyScore
      <3>3. /\ t[1] = 1 /\ s[1] = 1 /\ t[2] = 1 + Traits[m].gpus + Traits[m].vram
            /\ s[2] = 1 + Traits[n].gpus + Traits[n].vram
        BY <3>2
      <3>4. t[1] * s[2] > s[1] * t[2]
        BY <1>2, <2>3, <3>1, <3>3
      <3> QED BY <2>5, <3>3, <3>4 DEF Better
    <2>8. CASE r.policy = "locality"
      <3> DEFINE a == Cardinality(r.caps \cap Traits[m].caps)
                 b == Cardinality(r.caps \cap Traits[n].caps)
                 c == Cardinality(r.caps)
      <3>1. a > b
        BY <1>6, <2>8 DEF Preferred
      <3>2. a \in Nat /\ b \in Nat /\ c \in Nat /\ (r.caps = {} => a = 0) /\ (r.caps # {} => c > 0)
        BY CoveredIs
      <3>3. r.caps # {}
        BY <3>1, <3>2
      <3>4. t = <<a, c>> /\ s = <<b, c>>
        BY <1>1, <2>4, <2>8, <3>3 DEF PolicyScore
      <3> HIDE DEF a, b, c
      <3>5. a * c > b * c
        <4>1. b + 1 <= a /\ (b + 1) * c = b * c + c /\ b * c \in Nat /\ c > 0
          BY <3>1, <3>2, <3>3
        <4>2. (b + 1) * c <= a * c /\ a * c \in Nat
          BY <3>2, <4>1, Products
        <4> QED BY <3>2, <4>1, <4>2
      <3> QED BY <2>5, <3>1, <3>2, <3>4, <3>5 DEF Better
    <2> QED BY <1>6, <2>6, <2>7, <2>8 DEF Preferred
  <1>7. r.hardware # "none" => SatisfiesHardware(n, r.need)
    BY <1>1 DEF Disqualified
  <1> QED BY <1>3, <1>4, <1>5, <1>6, <1>7 DEF n

LEMMA OneChoice ==
  ASSUME NodesInv, NEW r \in Asked, NEW list \in Orders(Members)
  PROVE  Cardinality({list[i] : i \in BestPlace(r, list)}) <= 1
  <1> DEFINE C == {list[i] : i \in BestPlace(r, list)}
  <1>1. \A i, j \in BestPlace(r, list) : i = j
    <2> SUFFICES ASSUME NEW i \in BestPlace(r, list), NEW j \in BestPlace(r, list), j < i PROVE FALSE
      <3>1. BestPlace(r, list) \subseteq Nat
        BY ChosenIs, ListIs DEF Unbeaten
      <3> QED BY <3>1
    <2>1. Unbeaten(r, list, i) /\ Unbeaten(r, list, j)
      BY ChosenIs
    <2> HIDE DEF Score, Better
    <2>2. j \in 1..Len(list) /\ Score(r, list, j)[1] > 0 /\ i \in 1..Len(list) /\ Score(r, list, i)[1] > 0
      BY <2>1 DEF Unbeaten
    <2>3. Better(Score(r, list, i), Score(r, list, j))
      BY <2>1, <2>2 DEF Unbeaten
    <2>4. ~Better(Score(r, list, i), Score(r, list, j))
      BY <2>1, <2>2 DEF Unbeaten
    <2> QED BY <2>3, <2>4
  <1>2. C = {} \/ \E x \in C : C = {x}
    BY <1>1
  <1>3. Cardinality({}) = 0 /\ \A x \in C : Cardinality({x}) = 1
    BY FS_EmptySet, FS_Singleton
  <1> HIDE DEF C
  <1>4. Cardinality(C) = 0 \/ Cardinality(C) = 1
    BY <1>2, <1>3
  <1>5. Cardinality(C) <= 1
    BY <1>4
  <1> QED BY <1>5 DEF C

\* With a policy under which every node that qualifies counts, one is found.
LEMMA FoundIfAny ==
  ASSUME NodesInv, NEW r \in Asked, NEW list \in Orders(Members), r.policy \in {"balanced", "cost"},
         NEW m \in Members, ~Disqualified(r, m)
  PROVE  {list[i] : i \in BestPlace(r, list)} # {}
  <1> DEFINE N == Len(list)
             C == {i \in 1..N : ~Disqualified(r, list[i])}
             f == [i \in C |-> IF r.policy = "balanced" THEN (IF N <= 1 THEN 0 ELSE i)
                                ELSE Traits[list[i]].gpus + Traits[list[i]].vram]
  <1>0. /\ N \in Nat /\ DOMAIN list = 1..N /\ \A i \in 1..N : list[i] \in Machines
        /\ \E i \in 1..N : list[i] = m
    BY ListIs
  <1>1. C # {} /\ C \in SUBSET Nat /\ IsFiniteSet(C)
    <2>1. IsFiniteSet(1..N) /\ C \subseteq 1..N
      BY <1>0, FS_Interval
    <2>2. C # {} /\ C \in SUBSET Nat
      BY <1>0
    <2> HIDE DEF C
    <2> QED BY <2>1, <2>2, FS_Subset
  <1>2. \A i \in C : Traits[list[i]].gpus \in Nat /\ Traits[list[i]].vram \in Nat /\ i \in 1..N
    BY <1>0, FleetFacts
  <1>3. f \in [C -> Int]
    <2> HIDE DEF C
    <2> QED BY <1>0, <1>1, <1>2
  <1>4. PICK i \in C : \A j \in C : f[i] < f[j] \/ (f[i] = f[j] /\ i <= j)
    <2> HIDE DEF C, f
    <2> QED BY <1>1, <1>3, FirstOfBest
  <1>5. ASSUME NEW j \in C
        PROVE  Score(r, list, j) = IF r.policy = "balanced" THEN (IF N <= 1 THEN <<1, 1>> ELSE <<N - (j - 1), N>>)
                                   ELSE <<1, 1 + Traits[list[j]].gpus + Traits[list[j]].vram>>
    <2>1. Score(r, list, j) = PolicyScore(r, list[j], j, N)
      BY ScoreIs
    <2> QED BY <2>1 DEF PolicyScore
  <1>6. ASSUME NEW j \in C PROVE Score(r, list, j)[1] > 0
    <2>1. CASE r.policy = "balanced"
      <3>1. CASE N <= 1
        BY <1>5, <2>1, <3>1
      <3>2. CASE ~(N <= 1)
        <4>1. Score(r, list, j)[1] = N - (j - 1)
          BY <1>5, <2>1, <3>2
        <4> QED BY <1>0, <1>2, <4>1
      <3> QED BY <3>1, <3>2
    <2>2. CASE r.policy # "balanced"
      BY <1>5, <2>2
    <2> QED BY <2>1, <2>2
  <1>7. ASSUME NEW j \in C, NEW k \in C PROVE Better(Score(r, list, j), Score(r, list, k)) <=> f[j] < f[k]
    <2>1. CASE r.policy = "balanced"
      <3>1. CASE N <= 1
        <4>1. Score(r, list, j) = <<1, 1>> /\ Score(r, list, k) = <<1, 1>> /\ f[j] = 0 /\ f[k] = 0
          BY <1>5, <2>1, <3>1
        <4> QED BY <4>1 DEF Better
      <3>2. CASE ~(N <= 1)
        <4> DEFINE a == N - (j - 1)
                   b == N - (k - 1)
        <4>1. Score(r, list, j) = <<a, N>> /\ Score(r, list, k) = <<b, N>> /\ f[j] = j /\ f[k] = k
          BY <1>5, <2>1, <3>2
        <4>2. a \in Nat /\ b \in Nat /\ N \in Nat /\ N > 1 /\ (j < k <=> a > b)
          BY <1>0, <1>2, <3>2
        <4>3. Better(Score(r, list, j), Score(r, list, k)) <=> a * N > b * N
          <5> HIDE DEF a, b
          <5> QED BY <4>1 DEF Better
        <4> HIDE DEF a, b, N
        <4>4. a * N > b * N <=> a > b
          BY <4>2, CompareProducts
        <4> QED BY <4>1, <4>2, <4>3, <4>4
      <3> QED BY <3>1, <3>2
    <2>2. CASE r.policy # "balanced"
      <3> DEFINE a == Traits[list[j]].gpus + Traits[list[j]].vram
                 b == Traits[list[k]].gpus + Traits[list[k]].vram
      <3>0. a \in Nat /\ b \in Nat /\ f[j] = a /\ f[k] = b
        BY <1>2, <2>2, SMTT(30)
      <3>1. Score(r, list, j) = <<1, 1 + a>> /\ Score(r, list, k) = <<1, 1 + b>>
        <4>1. /\ Score(r, list, j) = <<1, 1 + Traits[list[j]].gpus + Traits[list[j]].vram>>
              /\ Score(r, list, k) = <<1, 1 + Traits[list[k]].gpus + Traits[list[k]].vram>>
          BY <1>5, <2>2
        <4>2. /\ 1 + Traits[list[j]].gpus + Traits[list[j]].vram = 1 + a
              /\ 1 + Traits[list[k]].gpus + Traits[list[k]].vram = 1 + b
          <5>1. \A x, y \in Nat : 1 + x + y = 1 + (x + y)
            OBVIOUS
          <5>2. /\ Traits[list[j]].gpus \in Nat /\ Traits[list[j]].vram \in Nat
                /\ Traits[list[k]].gpus \in Nat /\ Traits[list[k]].vram \in Nat
            BY <1>2
          <5> QED BY ONLY <5>1, <5>2
        <4> QED BY <4>1, <4>2
      <3> HIDE DEF a, b, f
      <3>2. Better(Score(r, list, j), Score(r, list, k)) <=> 1 * (1 + b) > 1 * (1 + a)
        BY <3>1 DEF Better
      <3> QED BY <3>0, <3>2
    <2> QED BY <2>1, <2>2
  <1>8. Candidates(r, list) = C
    <2>1. \A j \in 1..N : Disqualified(r, list[j]) => Score(r, list, j)[1] = 0
      BY ScoreIs
    <2>2. Candidates(r, list) = {j \in 1..N : Score(r, list, j)[1] > 0}
      BY <1>0 DEF Candidates
    <2> QED BY <1>6, <2>1, <2>2
  <1>9. \A j \in C : (~Better(Score(r, list, j), Score(r, list, i))
                       /\ (j < i => Better(Score(r, list, i), Score(r, list, j))))
    <2> SUFFICES ASSUME NEW j \in C PROVE (~Better(Score(r, list, j), Score(r, list, i))
                       /\ (j < i => Better(Score(r, list, i), Score(r, list, j))))
      OBVIOUS
    <2>1. f[i] \in Int /\ f[j] \in Int /\ i \in Nat /\ j \in Nat
      BY <1>1, <1>3
    <2>2. f[i] < f[j] \/ (f[i] = f[j] /\ i <= j)
      BY <1>4
    <2> HIDE DEF f, C
    <2> QED BY <1>7, <2>1, <2>2
  <1>10. i \in BestPlace(r, list)
    <2>1. i \in C
      BY <1>4
    <2> HIDE DEF C
    <2>2. BestPlace(r, list) = {x \in C : \A j \in C : (~Better(Score(r, list, j), Score(r, list, x))
                       /\ (j < x => Better(Score(r, list, x), Score(r, list, j))))}
      BY <1>8 DEF BestPlace
    <2> QED BY <1>9, <2>1, <2>2
  <1> QED BY <1>10

\* Placement (registry.rs and placement.rs): for any nodes, requests and limits, a
\* task goes only to a node that was heard of within the limit before the last
\* sweep, has the hardware it asks for and that no candidate beats, and to some node
\* whenever one qualifies.
THEOREM PlacementIsSound == StoresSpec => []PlacedWell
  <1>1. StoresInit => NodesInv
    BY DEF StoresInit, NodesInit, NodesInv
  <1>2. NodesInv /\ [StoresNext]_storesVars => NodesInv'
    BY EachStore, NodesStep
  <1>3. NodesInv => PlacedWell
    <2> SUFFICES ASSUME NodesInv PROVE PlacedWell
      OBVIOUS
    <2>1. \A n \in Members : nodeStatus[n] = NodeShown(n)
      BY DEF NodesInv, Members
    <2>2. ASSUME NEW p \in placed
          PROVE  /\ \A n \in p.choice :
                      /\ lastSweep - lastHeartbeat[n] < HeartbeatTTL
                      /\ p.request.hardware # "none" => SatisfiesHardware(n, p.request.need)
                      /\ p.request.policy = "gpu" => Traits[n].vram > 0
                      /\ p.request.policy = "manual" => n = p.request.preferred
                      /\ \A m \in Members : ~Disqualified(p.request, m) => ~Preferred(p.request, m, n)
                 /\ Cardinality(p.choice) <= 1
                 /\ p.choice = {} /\ p.request.policy \in {"balanced", "cost"} =>
                      \A m \in Members : Disqualified(p.request, m)
      <3>1. PICK r \in Asked, list \in Orders(Members) :
              placed = {[request |-> r, list |-> list, choice |-> {list[i] : i \in BestPlace(r, list)}]}
        BY DEF NodesInv, NotPlaced
      <3>2. p.request = r /\ p.choice = {list[i] : i \in BestPlace(r, list)}
        BY <3>1
      <3>3. ASSUME NEW n \in p.choice
            PROVE  /\ lastSweep - lastHeartbeat[n] < HeartbeatTTL
                   /\ r.hardware # "none" => SatisfiesHardware(n, r.need)
                   /\ r.policy = "gpu" => Traits[n].vram > 0
                   /\ r.policy = "manual" => n = r.preferred
                   /\ \A m \in Members : ~Disqualified(r, m) => ~Preferred(r, m, n)
        <4>1. PICK i \in BestPlace(r, list) : n = list[i]
          BY <3>2
        <4> QED BY <4>1, ChosenNode
      <3>4. Cardinality(p.choice) <= 1
        BY <3>2, OneChoice
      <3>5. p.choice = {} /\ r.policy \in {"balanced", "cost"} => \A m \in Members : Disqualified(r, m)
        BY <3>2, FoundIfAny
      <3> QED BY <3>2, <3>3, <3>4, <3>5
    <2> QED BY <2>1, <2>2 DEF PlacedWell, NodeShown
  <1> QED BY <1>1, <1>2, <1>3, PTL DEF StoresSpec

-----------------------------------------------------------------------------
(* The memory of devices.                                                  *)

LEMMA SumNat ==
  ASSUME NEW S, IsFiniteSet(S), NEW h \in [S -> Nat]
  PROVE  SumOver(h, S) \in Nat
  <1>0. h \in [S -> Int]
    OBVIOUS
  <1>1. PICK g \in [SUBSET S -> Int] : SumTable(h, S, g) /\ SumOver(h, S) = g[S]
    BY <1>0, SumOverTable
  <1> DEFINE G == {A \in SUBSET S : g[A] \in Nat}
  <1>2. Sums(h, S, g)
    BY <1>0, <1>1 DEF Sums
  <1>3. TakesOut(h, S, g)
    BY ONLY <1>2, SumsTakeOut
  <1>4. {} \in G
    BY <1>3 DEF TakesOut
  <1>5. ASSUME NEW A \in SUBSET S, NEW x \in S \ A, A \in G PROVE A \cup {x} \in G
    <2>1. A \cup {x} \in SUBSET S /\ x \in A \cup {x} /\ (A \cup {x}) \ {x} = A
      OBVIOUS
    <2>2. g[A \cup {x}] = h[x] + g[(A \cup {x}) \ {x}]
      BY <1>3, <2>1 DEF TakesOut
    <2>3. h[x] \in Nat /\ g[A] \in Nat
      BY <1>5
    <2>4. g[A \cup {x}] = h[x] + g[A]
      BY <2>1, <2>2
    <2>5. \A y, z \in Nat : y + z \in Nat
      OBVIOUS
    <2>6. g[A \cup {x}] \in Nat
      BY ONLY <2>3, <2>4, <2>5
    <2> QED BY <2>1, <2>6
  <1>6. S \in G
    <2> HIDE DEF G
    <2> QED BY <1>4, <1>5, SizeInduction
  <1> QED BY <1>1, <1>6


Allocations == [DeviceTasks -> [device : Nat, memory : Nat]]
On(a, i) == {t \in DeviceTasks : a[t].device = i}
Held(a, i) == SumOver([t \in On(a, i) |-> a[t].memory], On(a, i))
Others(a, i, t) == SumOver([s \in On(a, i) \ {t} |-> a[s].memory], On(a, i) \ {t})

LEMMA OnFinite ==
  ASSUME NEW a, NEW i
  PROVE  IsFiniteSet(On(a, i)) /\ On(a, i) \subseteq DeviceTasks
  BY DevicesAssumption, FS_Subset DEF On

\* One task taken out.
LEMMA HeldWithout ==
  ASSUME NEW a \in Allocations, NEW i, NEW t \in DeviceTasks
  PROVE  /\ Held(a, i) \in Nat /\ Others(a, i, t) \in Nat
         /\ Held(a, i) = (IF a[t].device = i THEN a[t].memory ELSE 0) + Others(a, i, t)
  <1> DEFINE S == On(a, i)
             h == [s \in S |-> a[s].memory]
             R == S \ {t}
             k == [s \in R |-> a[s].memory]
  <1>1. IsFiniteSet(S) /\ S \subseteq DeviceTasks /\ IsFiniteSet(R) /\ R \subseteq S
    <2>1. IsFiniteSet(S) /\ S \subseteq DeviceTasks /\ R \in SUBSET S
      BY OnFinite
    <2> HIDE DEF S, R
    <2> QED BY <2>1, FS_Subset
  <1>2. \A s \in DeviceTasks : a[s].memory \in Nat
    BY DEF Allocations
  <1>3. h \in [S -> Nat] /\ h \in [S -> Int] /\ k \in [R -> Nat] /\ k \in [R -> Int]
    <2> HIDE DEF S, R
    <2> QED BY <1>1, <1>2
  <1>4. Held(a, i) = SumOver(h, S) /\ Others(a, i, t) = SumOver(k, R)
    BY DEF Held, Others
  <1>5. SumOver(h, S) \in Nat /\ SumOver(k, R) \in Nat
    <2> HIDE DEF S, R, h, k
    <2> QED BY <1>1, <1>3, SumNat
  <1>6. CASE a[t].device = i
    <2>1. t \in S /\ h[t] = a[t].memory /\ \A y \in S \ {t} : k[y] = h[y]
      BY <1>6 DEF On
    <2>2. R = S \ {t}
      OBVIOUS
    <2>3. SumOver(h, S) = h[t] + SumOver(k, S \ {t})
      <3>1. k \in [S \ {t} -> Int]
        BY <1>3
      <3> HIDE DEF S, h, k, R
      <3> QED BY <1>1, <1>3, <2>1, <3>1, SumSplit
    <2> QED BY <1>4, <1>5, <1>6, <2>1, <2>3
  <1>7. CASE a[t].device # i
    <2>1. R = S
      BY <1>7 DEF On
    <2>2. k = h
      BY <2>1
    <2> HIDE DEF S, h, k, R
    <2> QED BY <1>4, <1>5, <1>7, <2>1, <2>2
  <1> QED BY <1>4, <1>5, <1>6, <1>7

\* What changes when one task is given something else.
Changed(a, i, t, v, b) ==
    \E rest \in Nat : /\ Held(a, i) = (IF a[t].device = i THEN a[t].memory ELSE 0) + rest
                      /\ Held(b, i) = (IF v.device = i THEN v.memory ELSE 0) + rest

LEMMA HeldChange ==
  ASSUME NEW a \in Allocations, NEW i, NEW t \in DeviceTasks, NEW v \in [device : Nat, memory : Nat],
         NEW b, b = [a EXCEPT ![t] = v]
  PROVE  Changed(a, i, t, v, b)
  <1>1. b \in Allocations /\ b[t] = v /\ \A s \in DeviceTasks : s # t => b[s] = a[s]
    BY DEF Allocations
  <1>2. Others(b, i, t) = Others(a, i, t)
    <2>1. On(b, i) \ {t} = On(a, i) \ {t}
      BY <1>1 DEF On
    <2>2. \A s \in On(a, i) \ {t} : b[s].memory = a[s].memory
      BY <1>1 DEF On
    <2>3. [s \in On(b, i) \ {t} |-> b[s].memory] = [s \in On(a, i) \ {t} |-> a[s].memory]
      BY <2>1, <2>2
    <2> QED BY <2>1, <2>3 DEF Others
  <1>3. /\ Held(a, i) \in Nat /\ Others(a, i, t) \in Nat
        /\ Held(a, i) = (IF a[t].device = i THEN a[t].memory ELSE 0) + Others(a, i, t)
    BY HeldWithout
  <1>4. /\ Held(b, i) \in Nat
        /\ Held(b, i) = (IF b[t].device = i THEN b[t].memory ELSE 0) + Others(b, i, t)
    <2>1. b \in Allocations /\ t \in DeviceTasks
      BY <1>1
    <2> QED BY ONLY <2>1, HeldWithout
  <1> QED BY <1>1, <1>2, <1>3, <1>4 DEF Changed

LEMMA HeldOnIs ==
  ASSUME NEW a \in Allocations, NEW i
  PROVE  MapThenSumSet(LAMBDA t : a[t].memory, {t \in DeviceTasks : a[t].device = i}) = Held(a, i)
  <1> DEFINE D == On(a, i)
             h == [t \in D |-> a[t].memory]
             P(g) == g = [s \in SUBSET D |-> IF s = {} THEN 0 ELSE a[PickOf(s)].memory + g[s \ {PickOf(s)}]]
             c == CHOOSE g : P(g)
  <1>0. IsFiniteSet(D) /\ h \in [D -> Int] /\ D = {t \in DeviceTasks : a[t].device = i}
    <2>1. IsFiniteSet(D) /\ D \subseteq DeviceTasks
      BY OnFinite
    <2>2. \A t \in DeviceTasks : a[t].memory \in Int
      BY DEF Allocations
    <2>3. D = {t \in DeviceTasks : a[t].device = i}
      BY DEF On
    <2> HIDE DEF D
    <2> QED BY <2>1, <2>2, <2>3
  <1>1. MapThenSumSet(LAMBDA t : a[t].memory, D) = c[D]
    BY DEF MapThenSumSet, MapThenFoldSet, PickOf
  <1>2. ASSUME NEW g PROVE P(g) <=> SumTable(h, D, g)
    <2>1. \A s \in SUBSET D : s # {} => h[PickOf(s)] = a[PickOf(s)].memory
      BY PickIs
    <2> HIDE DEF h, D
    <2>2. [s \in SUBSET D |-> IF s = {} THEN 0 ELSE a[PickOf(s)].memory + g[s \ {PickOf(s)}]]
            = [s \in SUBSET D |-> IF s = {} THEN 0 ELSE h[PickOf(s)] + g[s \ {PickOf(s)}]]
      BY <2>1
    <2> QED BY <2>2 DEF SumTable
  <1>3. SumTable(h, D, c)
    <2> HIDE DEF h, D
    <2>1. \E g : SumTable(h, D, g)
      BY <1>0, SumTableExists
    <2>2. \E g : P(g)
      BY <1>2, <2>1
    <2>3. P(c)
      <3> HIDE DEF P
      <3> QED BY <2>2
    <2> HIDE DEF P, c
    <2> QED BY <1>2, <2>3
  <1>4. Held(a, i) = SumOver(h, D)
    BY DEF Held
  <1> HIDE DEF h, D, c
  <1>5. c[D] = SumOver(h, D)
    BY <1>0, <1>3, SumIs
  <1> QED BY <1>0, <1>1, <1>4, <1>5

Device == [kind : DeviceKinds, total : Nat, used : Nat, shown : Nat]

\* A device gives out no more than it has; a task that holds something holds it on a
\* device that is there.
Balanced(i) ==
    /\ devices[i].used = Held(allocations, i) + lost[i]
    /\ devices[i].used <= devices[i].total /\ devices[i].shown = devices[i].total - devices[i].used

DevicesInv ==
    /\ devices \in Seq(Device) /\ allocations \in Allocations /\ lost \in Seq(Nat) /\ Len(lost) = Len(devices)
    /\ \A t \in DeviceTasks : allocations[t] = NoAllocation \/ allocations[t].device \in 1..Len(devices)
    /\ \A i \in 1..Len(devices) : Balanced(i)

LEMMA AvailableIs ==
  ASSUME NEW d \in Device, d.used <= d.total
  PROVE  Available(d) = d.total - d.used /\ Available(d) \in Nat
  BY DEF Device, Available

LEMMA WithIs ==
  ASSUME NEW d \in Device, NEW u \in Nat, u <= d.total
  PROVE  /\ With(d, u) \in Device /\ With(d, u).used = u /\ With(d, u).total = d.total
         /\ With(d, u).shown = d.total - u
  <1> DEFINE e == [d EXCEPT !.used = u]
  <1>1. e \in Device /\ e.used = u /\ e.total = d.total
    BY DEF Device
  <1> HIDE DEF e
  <1>2. Available(e) = d.total - u /\ Available(e) \in Nat
    BY <1>1, AvailableIs
  <1>3. With(d, u) = [d EXCEPT !.used = u, !.shown = Available(e)]
    BY DEF With, e
  <1> QED BY <1>2, <1>3 DEF Device

LEMMA AddStep ==
  ASSUME DevicesInv, NEW k \in DeviceKinds, NEW n \in DeviceSizes, AddDevice(k, n)
  PROVE  DevicesInv'
  <1> DEFINE new == [kind |-> k, total |-> n, used |-> 0, shown |-> n]
             L == Len(devices)
  <1>0. /\ devices \in Seq(Device) /\ allocations \in Allocations /\ lost \in Seq(Nat) /\ Len(lost) = L /\ L \in Nat
        /\ \A t \in DeviceTasks : allocations[t] = NoAllocation \/ allocations[t].device \in 1..L
        /\ \A i \in 1..L : Balanced(i)
    BY DEF DevicesInv
  <1>1. devices' = Append(devices, new) /\ lost' = Append(lost, 0) /\ allocations' = allocations
    BY DEF AddDevice
  <1>2. n \in Nat /\ new \in Device
    BY DevicesAssumption DEF Device
  <1>a. new.used = 0 /\ new.total = n /\ new.shown = n
    OBVIOUS
  <1> HIDE DEF new
  <1>3. /\ devices' \in Seq(Device) /\ Len(devices') = L + 1 /\ devices'[L + 1] = new
        /\ \A i \in 1..L : devices'[i] = devices[i]
    BY <1>0, <1>1, <1>2
  <1>4. lost' \in Seq(Nat) /\ Len(lost') = L + 1 /\ lost'[L + 1] = 0 /\ \A i \in 1..L : lost'[i] = lost[i]
    BY <1>0, <1>1
  <1>5. Held(allocations, L + 1) = 0
    <2>1. \A t \in DeviceTasks : allocations[t].device # L + 1
      BY <1>0 DEF NoAllocation
    <2>2. On(allocations, L + 1) = {}
      BY <2>1 DEF On
    <2> DEFINE h == [t \in {} |-> allocations[t].memory]
    <2>3. h \in [{} -> Int]
      OBVIOUS
    <2>4. Held(allocations, L + 1) = SumOver(h, {})
      BY <2>2 DEF Held
    <2> HIDE DEF h
    <2> QED BY <2>3, <2>4, SumEmpty
  <1>6. ASSUME NEW i \in 1..(L + 1) PROVE Balanced(i)'
    <2>1. CASE i = L + 1
      <3>1. devices'[i].used = 0 /\ devices'[i].total = n /\ devices'[i].shown = n /\ lost'[i] = 0
        BY <1>a, <1>3, <1>4, <2>1
      <3>2. Held(allocations', i) = 0
        BY <1>1, <1>5, <2>1
      <3> QED BY <1>2, <3>1, <3>2 DEF Balanced
    <2>2. CASE i # L + 1
      <3>1. i \in 1..L
        BY <1>0, <2>2
      <3>2. devices'[i] = devices[i] /\ lost'[i] = lost[i] /\ allocations' = allocations
        BY <1>1, <1>3, <1>4, <3>1
      <3> QED BY <1>0, <3>1, <3>2 DEF Balanced
    <2> QED BY <2>1, <2>2
  <1>7. \A t \in DeviceTasks : allocations'[t] = NoAllocation \/ allocations'[t].device \in 1..Len(devices')
    <2>1. 1..L \subseteq 1..Len(devices')
      BY <1>0, <1>3
    <2> QED BY <1>0, <1>1, <2>1
  <1> QED BY <1>0, <1>1, <1>3, <1>4, <1>6, <1>7 DEF DevicesInv, NoAllocation

\* The device that is taken is there and has room.
LEMMA FittestIs ==
  ASSUME DevicesInv, NEW fit \in SUBSET (1..Len(devices)), fit # {},
         NEW most, most = {i \in fit : \A j \in fit : Available(devices[j]) <= Available(devices[i])}
  PROVE  Max(most) \in fit
  <1> DEFINE L == Len(devices)
             f == [i \in fit |-> -Available(devices[i])]
  <1>0. devices \in Seq(Device) /\ L \in Nat
    BY DEF DevicesInv
  <1>1. fit \in SUBSET Nat /\ IsFiniteSet(fit)
    <2>1. IsFiniteSet(1..L) /\ fit \in SUBSET (1..L)
      BY <1>0, UpTo
    <2>2. IsFiniteSet(fit)
      BY ONLY <2>1, FS_Subset
    <2>3. \A i \in 1..L : i \in Nat
      BY <1>0
    <2> QED BY <2>1, <2>2, <2>3
  <1>2. \A i \in fit : Available(devices[i]) \in Nat
    <2>1. \A i \in 1..L : devices[i] \in Device /\ devices[i].used <= devices[i].total
      BY <1>0 DEF DevicesInv, Balanced
    <2> QED BY <2>1, AvailableIs
  <1>3. f \in [fit -> Int]
    BY <1>2
  <1>4. PICK i \in fit : \A j \in fit : f[i] < f[j] \/ (f[i] = f[j] /\ i <= j)
    <2> HIDE DEF f
    <2> QED BY <1>1, <1>3, FirstOfBest
  <1>5. \A j \in fit : Available(devices[j]) <= Available(devices[i])
    BY <1>2, <1>4
  <1>6. i \in most /\ most \subseteq fit
    BY <1>5
  <1>7. most \in SUBSET Int /\ IsFiniteSet(most) /\ most # {}
    <2>1. most \in SUBSET fit
      BY <1>6
    <2>2. IsFiniteSet(most)
      BY ONLY <1>1, <2>1, FS_Subset
    <2>3. \A x \in most : x \in Int
      BY <1>1, <2>1
    <2>4. most # {}
      BY <1>6
    <2> QED BY ONLY <2>2, <2>3, <2>4
  <1>8. Max(most) \in most
    BY <1>7, MaxMin
  <1> QED BY <1>6, <1>8

LEMMA AllocateStep ==
  ASSUME DevicesInv, NEW t \in DeviceTasks, NEW n \in DeviceNeeds, NEW k, Allocate(t, n, k)
  PROVE  DevicesInv'
  <1> DEFINE L == Len(devices)
             fit == {i \in DOMAIN devices : Fits(i, n, k)}
             most == {i \in fit : \A j \in fit : Available(devices[j]) <= Available(devices[i])}
             b == Max(most)
             d == devices[b]
             old == allocations[t]
             new == [device |-> b, memory |-> n]
  <1>0. /\ devices \in Seq(Device) /\ allocations \in Allocations /\ lost \in Seq(Nat) /\ Len(lost) = L /\ L \in Nat
        /\ \A s \in DeviceTasks : allocations[s] = NoAllocation \/ allocations[s].device \in 1..L
        /\ \A i \in 1..L : Balanced(i)
    BY DEF DevicesInv
  <1>1. /\ fit # {} /\ devices' = [devices EXCEPT ![b] = With(d, d.used + n)]
        /\ allocations' = [allocations EXCEPT ![t] = new]
        /\ lost' = IF old = NoAllocation THEN lost ELSE [lost EXCEPT ![old.device] = lost[old.device] + old.memory]
    BY <1>0 DEF Allocate
  <1>2. b \in 1..L /\ Fits(b, n, k)
    <2>1. fit \in SUBSET (1..L)
      BY <1>0
    <2>2. b \in fit
      <3> HIDE DEF fit
      <3> QED BY <1>1, <2>1, FittestIs
    <2> QED BY <2>1, <2>2
  <1> HIDE DEF b
  <1>3. n \in Nat /\ d \in Device /\ d.used <= d.total /\ d.used \in Nat /\ d.total \in Nat /\ d.used + n <= d.total
    <2>1. n \in Nat /\ d \in Device
      BY <1>0, <1>2, DevicesAssumption
    <2>2. d.used <= d.total
      BY <1>0, <1>2 DEF Balanced
    <2>3. d.used \in Nat /\ d.total \in Nat
      BY <2>1 DEF Device
    <2>4. Available(d) >= n /\ Available(d) = d.total - d.used
      <3> HIDE DEF d
      <3>1. Available(d) = d.total - d.used
        BY <2>1, <2>2, AvailableIs
      <3>2. Available(d) >= n
        BY <1>2 DEF Fits, d
      <3> QED BY <3>1, <3>2
    <2> HIDE DEF d
    <2> QED BY <2>1, <2>2, <2>3, <2>4
  <1> DEFINE w == With(d, d.used + n)
  <1>4. w \in Device /\ w.used = d.used + n /\ w.total = d.total /\ w.shown = d.total - (d.used + n)
    <2> HIDE DEF d
    <2>1. d.used + n \in Nat
      BY <1>3
    <2> QED BY <1>3, <2>1, WithIs
  <1>a. devices' = [devices EXCEPT ![b] = w]
    BY <1>1
  <1> HIDE DEF w
  <1>5. /\ devices' \in Seq(Device) /\ Len(devices') = L
        /\ \A i \in 1..L : devices'[i] = IF i = b THEN w ELSE devices[i]
    <2>1. devices \in Seq(Device) /\ b \in 1..Len(devices) /\ w \in Device
      BY <1>0, <1>2, <1>4
    <2>2. /\ [devices EXCEPT ![b] = w] \in Seq(Device) /\ Len([devices EXCEPT ![b] = w]) = Len(devices)
          /\ \A j \in 1..Len(devices) : [devices EXCEPT ![b] = w][j] = IF j = b THEN w ELSE devices[j]
      BY ONLY <2>1, ExceptSeq
    <2> QED BY <1>a, <2>2
  <1>6. new \in [device : Nat, memory : Nat] /\ new.device = b /\ new.memory = n
    BY <1>0, <1>2, <1>3
  <1>7. old \in [device : Nat, memory : Nat] /\ (old = NoAllocation \/ old.device \in 1..L)
    BY <1>0 DEF Allocations
  <1>8. /\ lost' \in Seq(Nat) /\ Len(lost') = L
        /\ \A i \in 1..L : lost'[i] = lost[i] + (IF old.device = i THEN old.memory ELSE 0)
    <2>0. \A i \in 1..L : lost[i] \in Nat
      BY <1>0
    <2>1. CASE old = NoAllocation
      <3>1. old.device = 0
        BY <2>1 DEF NoAllocation
      <3>2. lost' = lost
        BY <1>1, <2>1
      <3>3. \A i \in 1..L : old.device # i /\ lost[i] + 0 = lost[i]
        BY <1>0, <2>0, <3>1
      <3> QED BY <1>0, <3>2, <3>3
    <2>2. CASE old # NoAllocation
      <3> DEFINE o == old.device
                 e == lost[o] + old.memory
      <3>1. o \in 1..Len(lost) /\ e \in Nat /\ lost \in Seq(Nat)
        BY <1>0, <1>7, <2>0, <2>2
      <3>2. lost' = [lost EXCEPT ![o] = e]
        BY <1>1, <2>2
      <3> HIDE DEF e
      <3>3. /\ [lost EXCEPT ![o] = e] \in Seq(Nat) /\ Len([lost EXCEPT ![o] = e]) = Len(lost)
            /\ \A j \in 1..Len(lost) : [lost EXCEPT ![o] = e][j] = IF j = o THEN e ELSE lost[j]
        <4> HIDE DEF o
        <4> QED BY ONLY <3>1, ExceptSeq
      <3>4. \A i \in 1..L : lost[i] + 0 = lost[i]
        BY <2>0
      <3> QED BY <1>0, <3>2, <3>3, <3>4 DEF e
    <2> QED BY <2>1, <2>2
  <1>b. allocations' = [allocations EXCEPT ![t] = new]
    BY <1>1
  <1> HIDE DEF new
  <1>9. allocations' \in Allocations /\ allocations'[t] = new /\ \A s \in DeviceTasks : s # t => allocations'[s] = allocations[s]
    BY <1>0, <1>6, <1>b DEF Allocations
  <1>10. ASSUME NEW i \in 1..L PROVE Balanced(i)'
    <2>1. PICK rest \in Nat : /\ Held(allocations, i) = (IF old.device = i THEN old.memory ELSE 0) + rest
                              /\ Held(allocations', i) = (IF new.device = i THEN new.memory ELSE 0) + rest
      <3>1. Changed(allocations, i, t, new, allocations')
        BY <1>0, <1>6, <1>b, HeldChange
      <3> QED BY <3>1 DEF Changed
    <2>2. /\ devices[i].used = Held(allocations, i) + lost[i] /\ devices[i].used <= devices[i].total
          /\ devices[i].shown = devices[i].total - devices[i].used
      BY <1>0 DEF Balanced
    <2>3. lost[i] \in Nat /\ lost'[i] = lost[i] + (IF old.device = i THEN old.memory ELSE 0) /\ old.memory \in Nat
      BY <1>0, <1>7, <1>8
    <2> DEFINE x == IF old.device = i THEN old.memory ELSE 0
               y == IF b = i THEN n ELSE 0
    <2>4. x \in Nat /\ y \in Nat
      BY <1>3, <2>3
    <2>5. Held(allocations, i) = x + rest /\ Held(allocations', i) = y + rest /\ lost'[i] = lost[i] + x
      BY <1>6, <2>1, <2>3
    <2> HIDE DEF x
    <2>6. devices'[i].used = devices[i].used + y /\ devices'[i].total = devices[i].total
      <3>1. CASE i = b
        BY <1>4, <1>5, <3>1
      <3>2. CASE i # b
        <4>1. devices[i].used \in Nat
          BY <2>2, <2>3, <2>4, <2>5
        <4> QED BY <1>5, <3>2, <4>1
      <3> QED BY <3>1, <3>2
    <2>7. devices'[i].used <= devices'[i].total /\ devices'[i].shown = devices'[i].total - devices'[i].used
      <3>1. CASE i = b
        BY <1>3, <1>4, <1>5, <3>1
      <3>2. CASE i # b
        BY <1>5, <2>2, <3>2
      <3> QED BY <3>1, <3>2
    <2> HIDE DEF y
    <2>8. devices'[i].used = Held(allocations', i) + lost'[i]
      BY <2>2, <2>3, <2>4, <2>5, <2>6
    <2> QED BY <2>7, <2>8 DEF Balanced
  <1>11. \A s \in DeviceTasks : allocations'[s] = NoAllocation \/ allocations'[s].device \in 1..L
    BY <1>0, <1>2, <1>6, <1>9
  <1> QED BY <1>5, <1>8, <1>9, <1>10, <1>11 DEF DevicesInv, NoAllocation

LEMMA ReleaseStep ==
  ASSUME DevicesInv, NEW t \in DeviceTasks, Release(t)
  PROVE  DevicesInv'
  <1> DEFINE L == Len(devices)
             a == allocations[t]
             b == a.device
             d == devices[b]
             u == IF d.used >= a.memory THEN d.used - a.memory ELSE 0
             w == With(d, u)
  <1>0. /\ devices \in Seq(Device) /\ allocations \in Allocations /\ lost \in Seq(Nat) /\ Len(lost) = L /\ L \in Nat
        /\ \A s \in DeviceTasks : allocations[s] = NoAllocation \/ allocations[s].device \in 1..L
        /\ \A i \in 1..L : Balanced(i)
    BY DEF DevicesInv
  <1>1. /\ a # NoAllocation /\ devices' = [devices EXCEPT ![b] = w]
        /\ allocations' = [allocations EXCEPT ![t] = NoAllocation] /\ lost' = lost
    BY <1>0 DEF Release
  <1>2. b \in 1..L /\ a.memory \in Nat /\ b \in Nat
    <2>1. a \in [device : Nat, memory : Nat]
      BY <1>0 DEF Allocations
    <2> QED BY <1>0, <1>1, <2>1
  <1>3. d \in Device /\ d.used \in Nat /\ d.total \in Nat /\ d.used <= d.total
    <2>1. d \in Device /\ d.used <= d.total
      BY <1>0, <1>2 DEF Balanced
    <2> QED BY <2>1 DEF Device
  <1>v. NoAllocation \in [device : Nat, memory : Nat] /\ NoAllocation.device = 0
    BY DEF NoAllocation
  <1>4. ASSUME NEW i \in 1..L
        PROVE  \E rest \in Nat : /\ Held(allocations, i) = (IF b = i THEN a.memory ELSE 0) + rest
                                 /\ Held(allocations', i) = rest
    <2>1. PICK rest \in Nat : /\ Held(allocations, i) = (IF b = i THEN a.memory ELSE 0) + rest
                              /\ Held(allocations', i) = (IF NoAllocation.device = i THEN NoAllocation.memory ELSE 0) + rest
      <3>1. Changed(allocations, i, t, NoAllocation, allocations')
        BY <1>0, <1>1, <1>v, HeldChange
      <3> QED BY <3>1 DEF Changed
    <2>2. NoAllocation.device # i
      BY <1>v
    <2>3. Held(allocations', i) = rest
      BY <2>1, <2>2
    <2> QED BY <2>1, <2>3
  <1>5. u \in Nat /\ u = d.used - a.memory /\ u <= d.total
    <2>1. PICK rest \in Nat : Held(allocations, b) = (IF b = b THEN a.memory ELSE 0) + rest
      BY <1>2, <1>4
    <2>2. d.used = Held(allocations, b) + lost[b] /\ lost[b] \in Nat
      BY <1>0, <1>2 DEF Balanced
    <2>3. Held(allocations, b) = a.memory + rest
      BY <2>1
    <2> HIDE DEF d, a, b
    <2>4. d.used >= a.memory
      BY <1>2, <2>2, <2>3
    <2> QED BY <1>2, <1>3, <2>4
  <1>6. w \in Device /\ w.used = u /\ w.total = d.total /\ w.shown = d.total - u
    <2> HIDE DEF d, u
    <2> QED BY <1>3, <1>5, WithIs
  <1> HIDE DEF w, u
  <1>7. /\ devices' \in Seq(Device) /\ Len(devices') = L
        /\ \A i \in 1..L : devices'[i] = IF i = b THEN w ELSE devices[i]
    <2>1. devices \in Seq(Device) /\ b \in 1..Len(devices) /\ w \in Device
      BY <1>0, <1>2, <1>6
    <2>2. /\ [devices EXCEPT ![b] = w] \in Seq(Device) /\ Len([devices EXCEPT ![b] = w]) = Len(devices)
          /\ \A j \in 1..Len(devices) : [devices EXCEPT ![b] = w][j] = IF j = b THEN w ELSE devices[j]
      <3> HIDE DEF b
      <3> QED BY ONLY <2>1, ExceptSeq
    <2> QED BY <1>1, <2>2
  <1>8. allocations' \in Allocations /\ allocations'[t] = NoAllocation /\ \A s \in DeviceTasks : s # t => allocations'[s] = allocations[s]
    BY <1>0, <1>1, <1>v DEF Allocations
  <1>9. ASSUME NEW i \in 1..L PROVE Balanced(i)'
    <2>1. PICK rest \in Nat : Held(allocations, i) = (IF b = i THEN a.memory ELSE 0) + rest /\ Held(allocations', i) = rest
      BY <1>4
    <2>2. /\ devices[i].used = Held(allocations, i) + lost[i] /\ devices[i].used <= devices[i].total
          /\ devices[i].shown = devices[i].total - devices[i].used /\ lost[i] \in Nat
      BY <1>0 DEF Balanced
    <2>3. CASE i = b
      <3>1. devices'[i] = w /\ lost'[i] = lost[i]
        BY <1>1, <1>7, <2>3
      <3>2. Held(allocations, i) = a.memory + rest /\ d.used = Held(allocations, i) + lost[i]
        BY <2>1, <2>2, <2>3
      <3>3. u = rest + lost[i]
        <4> HIDE DEF a, b, d
        <4> QED BY <1>2, <1>5, <2>2, <3>2
      <3> QED BY <1>5, <1>6, <2>1, <3>1, <3>3 DEF Balanced
    <2>4. CASE i # b
      <3>1. devices'[i] = devices[i] /\ lost'[i] = lost[i]
        BY <1>1, <1>7, <2>4
      <3>2. Held(allocations', i) = Held(allocations, i)
        BY <2>1, <2>4
      <3> QED BY <2>2, <3>1, <3>2 DEF Balanced
    <2> QED BY <2>3, <2>4
  <1>10. \A s \in DeviceTasks : allocations'[s] = NoAllocation \/ allocations'[s].device \in 1..L
    BY <1>0, <1>8
  <1> QED BY <1>0, <1>1, <1>7, <1>8, <1>9, <1>10 DEF DevicesInv, NoAllocation

\* The memory of accelerators (gpu.rs): for any devices, tasks and needs, what is
\* used is what tasks hold and what was forgotten, and never more than there is.
THEOREM MemoryIsAccounted == StoresSpec => []MemoryAccounted
  <1>1. StoresInit => DevicesInv
    <2> SUFFICES ASSUME DevicesInit PROVE DevicesInv
      BY DEF StoresInit
    <2>1. NoAllocation \in [device : Nat, memory : Nat]
      BY DEF NoAllocation
    <2>2. devices = <<>> /\ lost = <<>> /\ allocations = [t \in DeviceTasks |-> NoAllocation]
      BY DEF DevicesInit
    <2>3. allocations \in Allocations
      BY <2>1, <2>2 DEF Allocations
    <2> QED BY <2>2, <2>3 DEF DevicesInv
  <1>2. DevicesInv /\ [StoresNext]_storesVars => DevicesInv'
    <2> SUFFICES ASSUME DevicesInv, [DevicesNext]_devVars PROVE DevicesInv'
      BY EachStore
    <2>1. CASE UNCHANGED devVars
      BY <2>1 DEF devVars, DevicesInv, Balanced
    <2>2. CASE DevicesNext
      BY <2>2, AddStep, AllocateStep, ReleaseStep DEF DevicesNext
    <2> QED BY <2>1, <2>2
  <1>3. DevicesInv => MemoryAccounted
    <2> SUFFICES ASSUME DevicesInv, NEW i \in DOMAIN devices
                 PROVE  /\ devices[i].used = HeldOn(i) + lost[i]
                        /\ devices[i].used <= devices[i].total /\ devices[i].shown = devices[i].total - devices[i].used
      BY DEF MemoryAccounted
    <2>1. i \in 1..Len(devices) /\ allocations \in Allocations
      BY DEF DevicesInv
    <2>2. HeldOn(i) = Held(allocations, i)
      BY <2>1, HeldOnIs DEF HeldOn
    <2> QED BY <2>1, <2>2 DEF DevicesInv, Balanced
  <1> QED BY <1>1, <1>2, <1>3, PTL DEF StoresSpec

-----------------------------------------------------------------------------
(* The links between devices.                                              *)

LinkSeqs == Seq([a : Nat, b : Nat, fast : BOOLEAN])
Ends(links, i) == {links[i].a, links[i].b}
FastLinks(links) == {i \in 1..Len(links) : links[i].fast}
PairsOf(G) == {{x, y} : x \in G, y \in G} \ {{x} : x \in G}

\* n things have n(n - 1)/2 pairs.
LEMMA PairsCount ==
  ASSUME NEW T, IsFiniteSet(T)
  PROVE  IsFiniteSet(PairsOf(T)) /\ 2 * Cardinality(PairsOf(T)) = Cardinality(T) * (Cardinality(T) - 1)
  <1> DEFINE G == {A \in SUBSET T : /\ IsFiniteSet(PairsOf(A))
                                    /\ 2 * Cardinality(PairsOf(A)) = Cardinality(A) * (Cardinality(A) - 1)}
  <1>1. {} \in G
    <2>1. PairsOf({}) = {}
      BY DEF PairsOf
    <2>2. IsFiniteSet({}) /\ Cardinality({}) = 0
      BY FS_EmptySet
    <2> QED BY <2>1, <2>2
  <1>2. ASSUME NEW A \in SUBSET T, NEW x \in T \ A, A \in G PROVE A \cup {x} \in G
    <2> DEFINE B == A \cup {x}
               N == {{x, y} : y \in A}
               c == Cardinality(A)
               p == Cardinality(PairsOf(A))
    <2>0. IsFiniteSet(A) /\ c \in Nat /\ Cardinality(B) = c + 1
      <3>1. IsFiniteSet(A)
        BY FS_Subset
      <3> QED BY <3>1, FS_CardinalityType, FS_AddElement
    <2>1. PairsOf(B) = PairsOf(A) \cup N
      <3>1. ASSUME NEW s \in PairsOf(B) PROVE s \in PairsOf(A) \cup N
        <4>1. PICK y \in B, z \in B : s = {y, z}
          BY DEF PairsOf
        <4>2. y # z
          BY <4>1 DEF PairsOf
        <4>3. CASE y = x
          <5>1. z \in A /\ s = {x, z}
            BY <4>1, <4>2, <4>3
          <5> QED BY <5>1
        <4>4. CASE z = x
          <5>1. y \in A /\ s = {x, y}
            BY <4>1, <4>2, <4>4
          <5> QED BY <5>1
        <4>5. CASE y # x /\ z # x
          <5>1. y \in A /\ z \in A
            BY <4>5
          <5>2. \A v \in A : s # {v}
            BY <4>1, <4>2
          <5> QED BY <4>1, <5>1, <5>2 DEF PairsOf
        <4> QED BY <4>3, <4>4, <4>5
      <3>2. ASSUME NEW s \in PairsOf(A) PROVE s \in PairsOf(B)
        <4>1. PICK y \in A, z \in A : s = {y, z}
          BY DEF PairsOf
        <4>2. y # z
          BY <4>1 DEF PairsOf
        <4>3. \A v \in B : s # {v}
          BY <4>1, <4>2
        <4> QED BY <4>1, <4>3 DEF PairsOf
      <3>3. ASSUME NEW s \in N PROVE s \in PairsOf(B)
        <4>1. PICK y \in A : s = {x, y}
          OBVIOUS
        <4>2. \A v \in B : s # {v}
          BY <4>1
        <4> QED BY <4>1, <4>2 DEF PairsOf
      <3> HIDE DEF B, N
      <3> QED BY <3>1, <3>2, <3>3
    <2>2. PairsOf(A) \cap N = {}
      <3>1. \A s \in PairsOf(A) : x \notin s
        BY DEF PairsOf
      <3>2. \A s \in N : x \in s
        OBVIOUS
      <3> HIDE DEF N
      <3> QED BY <3>1, <3>2
    <2>3. IsFiniteSet(N) /\ Cardinality(N) = c
      <3> DEFINE f == [y \in A |-> {x, y}]
      <3>1. f \in Surjection(A, N)
        BY DEF Surjection
      <3>2. f \in Injection(A, N)
        <4>1. \A y, z \in A : {x, y} = {x, z} => y = z
          OBVIOUS
        <4>2. f \in [A -> N]
          OBVIOUS
        <4> QED BY <4>1, <4>2 DEF Injection, IsInjective
      <3>3. f \in Bijection(A, N)
        <4> HIDE DEF f, N
        <4> QED BY <3>1, <3>2 DEF Bijection
      <3> HIDE DEF f, N
      <3>4. ExistsBijection(A, N)
        BY <3>3 DEF ExistsBijection
      <3> QED BY <2>0, <3>4, FS_Bijection
    <2>4. IsFiniteSet(PairsOf(A)) /\ 2 * p = c * (c - 1) /\ p \in Nat
      BY <1>2, FS_CardinalityType
    <2>5. IsFiniteSet(PairsOf(A) \cup N) /\ Cardinality(PairsOf(A) \cup N) = p + c
      <3> HIDE DEF N
      <3>1. /\ IsFiniteSet(PairsOf(A) \cup N)
            /\ Cardinality(PairsOf(A) \cup N) = Cardinality(PairsOf(A)) + Cardinality(N) - Cardinality(PairsOf(A) \cap N)
        BY <2>3, <2>4, FS_Union
      <3>2. Cardinality(PairsOf(A) \cap N) = 0
        BY <2>2, FS_EmptySet
      <3> HIDE DEF c, p
      <3> QED BY <2>0, <2>3, <2>4, <3>1, <3>2 DEF p
    <2> HIDE DEF c, p
    <2>6. 2 * (p + c) = (c + 1) * ((c + 1) - 1)
      <3>1. (c + 1) * ((c + 1) - 1) = c * (c - 1) + 2 * c
        BY <2>0
      <3>2. c * (c - 1) \in Int
        BY <2>0
      <3> QED BY <2>0, <2>4, <3>1, <3>2
    <2>7. B \in SUBSET T /\ IsFiniteSet(PairsOf(B)) /\ 2 * Cardinality(PairsOf(B)) = Cardinality(B) * (Cardinality(B) - 1)
      BY <2>0, <2>1, <2>5, <2>6
    <2> QED BY <2>7
  <1>3. T \in G
    <2> HIDE DEF G
    <2> QED BY <1>1, <1>2, SizeInduction
  <1> QED BY <1>3

LEMMA LinkFacts ==
  ASSUME NEW links \in LinkSeqs
  PROVE  /\ Len(links) \in Nat /\ DOMAIN links = 1..Len(links)
         /\ IsFiniteSet(FastLinks(links)) /\ HighBandwidth(links) = Cardinality(FastLinks(links))
         /\ HighBandwidth(links) \in Nat
  <1>1. Len(links) \in Nat /\ DOMAIN links = 1..Len(links)
    BY DEF LinkSeqs
  <1>2. HighBandwidth(links) = Cardinality(FastLinks(links))
    BY <1>1 DEF HighBandwidth, FastLinks
  <1>3. IsFiniteSet(FastLinks(links))
    <2>1. IsFiniteSet(1..Len(links))
      BY <1>1, UpTo
    <2>2. FastLinks(links) \in SUBSET (1..Len(links))
      BY DEF FastLinks
    <2> QED BY ONLY <2>1, <2>2, FS_Subset
  <1> QED BY <1>1, <1>2, <1>3, FS_CardinalityType

\* A fast link from S to T.
LEMMA FastPairIs ==
  ASSUME NEW links \in LinkSeqs, NEW S, NEW T
  PROVE  FastPair(links, S, T) <=> \E i \in FastLinks(links) : Ends(links, i) \cap S # {} /\ Ends(links, i) \cap T # {}
  <1>1. DOMAIN links = 1..Len(links)
    BY LinkFacts
  <1> QED BY <1>1 DEF FastPair, FastLinks, Ends

\* What is joined grows one device and one link at a time from any of its devices.
LEMMA JoinedNeeds ==
  ASSUME NEW links \in LinkSeqs, NEW S, IsFiniteSet(S), Joined(links, S)
  PROVE  Cardinality(S) <= 1 \/ HighBandwidth(links) >= Cardinality(S) - 1
  <1> DEFINE n == Cardinality(S)
             F == FastLinks(links)
             Tree(k, A, E) == /\ A \in SUBSET S /\ E \in SUBSET F /\ Cardinality(A) = k + 1 /\ Cardinality(E) = k
                              /\ \A e \in E : Ends(links, e) \subseteq A
             W == {k \in Nat : k + 1 <= n => \E A, E : Tree(k, A, E)}
  <1>0. n \in Nat /\ IsFiniteSet(F)
    BY LinkFacts, FS_CardinalityType
  <1>1. 0 \in W
    <2> SUFFICES ASSUME 1 <= n PROVE \E A, E : Tree(0, A, E)
      OBVIOUS
    <2>1. S # {}
      BY FS_EmptySet
    <2>2. PICK x \in S : TRUE
      BY <2>1
    <2>3. Cardinality({x}) = 1 /\ Cardinality({}) = 0
      BY FS_Singleton, FS_EmptySet
    <2>4. Tree(0, {x}, {})
      BY <2>3
    <2> HIDE DEF Tree
    <2> QED BY <2>4
  <1>2. ASSUME NEW k \in W PROVE k + 1 \in W
    <2> SUFFICES ASSUME (k + 1) + 1 <= n PROVE \E A, E : Tree(k + 1, A, E)
      OBVIOUS
    <2>0. k \in Nat /\ k + 1 <= n
      BY <1>0
    <2>1. PICK A, E : Tree(k, A, E)
      <3> HIDE DEF Tree
      <3> QED BY <1>2, <2>0
    <2>2. /\ A \in SUBSET S /\ E \in SUBSET F /\ Cardinality(A) = k + 1 /\ Cardinality(E) = k
          /\ \A e \in E : Ends(links, e) \subseteq A
      BY <2>1
    <2>3. IsFiniteSet(A) /\ IsFiniteSet(E)
      <3> HIDE DEF F
      <3> QED BY <1>0, <2>2, FS_Subset
    <2>4. A # {} /\ A # S
      <3>1. A # {}
        BY <2>0, <2>2, FS_EmptySet
      <3>2. k + 1 # n
        BY <1>0, <2>0
      <3> QED BY <2>2, <3>1, <3>2
    <2>5. FastPair(links, A, S \ A)
      BY <2>2, <2>4 DEF Joined
    <2>6. PICK i \in F : Ends(links, i) \cap A # {} /\ Ends(links, i) \cap (S \ A) # {}
      <3> HIDE DEF Tree
      <3> QED BY <2>5, FastPairIs
    <2>7. PICK y \in Ends(links, i) \cap (S \ A) : TRUE
      BY <2>6
    <2>8. Ends(links, i) \subseteq A \cup {y}
      BY <2>6, <2>7 DEF Ends
    <2>9. i \notin E /\ y \notin A /\ y \in S
      BY <2>2, <2>7
    <2> DEFINE B == A \cup {y}
               D == E \cup {i}
    <2>10. Cardinality(B) = (k + 1) + 1 /\ Cardinality(D) = k + 1
      BY <2>2, <2>3, <2>9, FS_AddElement
    <2>11. B \in SUBSET S /\ D \in SUBSET F /\ \A e \in D : Ends(links, e) \subseteq B
      <3> HIDE DEF F
      <3> QED BY <2>2, <2>6, <2>8, <2>9
    <2>12. Tree(k + 1, B, D)
      <3> HIDE DEF F, B, D
      <3> QED BY <2>10, <2>11
    <2> HIDE DEF Tree
    <2> QED BY <2>12
  <1>3. Nat \subseteq W
    <2> HIDE DEF W
    <2> QED BY <1>1, <1>2, SetInduction
  <1>4. CASE n <= 1
    BY <1>4
  <1>5. CASE ~(n <= 1)
    <2>1. n - 1 \in Nat /\ (n - 1) + 1 <= n
      BY <1>0, <1>5
    <2>2. PICK A, E : Tree(n - 1, A, E)
      <3> HIDE DEF Tree, n
      <3> QED BY <1>3, <2>1
    <2>3. E \in SUBSET F /\ Cardinality(E) = n - 1
      BY <2>2
    <2>4. Cardinality(E) <= Cardinality(F)
      <3> HIDE DEF F, n
      <3> QED BY <1>0, <2>3, FS_Subset
    <2>5. HighBandwidth(links) = Cardinality(F) /\ HighBandwidth(links) \in Nat
      BY LinkFacts
    <2> HIDE DEF F, n
    <2>6. HighBandwidth(links) >= n - 1
      BY <1>0, <2>3, <2>4, <2>5
    <2> QED BY <2>6 DEF n
  <1> QED BY <1>4, <1>5

LEMMA Gauss ==
  ASSUME NEW n \in Nat, NEW p \in Nat, 2 * p = n * (n - 1)
  PROVE  (n * (n - 1)) \div 2 = p
  <1> DEFINE m == n * (n - 1)
  <1>1. m = 2 * p
    OBVIOUS
  <1> HIDE DEF m
  <1>2. m \div 2 = p
    BY <1>1
  <1> QED BY <1>2 DEF m

\* Fast links to all others are at least as many as there are pairs.
LEMMA AllLinked ==
  ASSUME NEW links \in LinkSeqs, NEW G, IsFiniteSet(G), \A i, j \in G : i # j => FastPair(links, {i}, {j})
  PROVE  Cardinality(PairsOf(G)) <= HighBandwidth(links)
  <1> DEFINE P == PairsOf(G)
             F == FastLinks(links)
             f == [s \in P |-> CHOOSE i \in F : Ends(links, i) = s]
  <1>1. ASSUME NEW s \in P PROVE \E i \in F : Ends(links, i) = s
    <2>1. PICK x \in G, y \in G : s = {x, y}
      BY DEF PairsOf
    <2>2. x # y
      BY <2>1 DEF PairsOf
    <2>3. FastPair(links, {x}, {y})
      BY <2>2
    <2>4. PICK i \in F : Ends(links, i) \cap {x} # {} /\ Ends(links, i) \cap {y} # {}
      BY <2>3, FastPairIs
    <2>5. Ends(links, i) = {x, y}
      BY <2>2, <2>4 DEF Ends
    <2> QED BY <2>1, <2>5
  <1>2. \A s \in P : f[s] \in F /\ Ends(links, f[s]) = s
    <2> HIDE DEF P, F
    <2> QED BY <1>1
  <1>3. f \in [P -> F]
    <2> HIDE DEF P, F
    <2> QED BY <1>2
  <1> HIDE DEF f
  <1>4. f \in Injection(P, F)
    <2> HIDE DEF P, F
    <2>1. \A s, t \in P : f[s] = f[t] => s = t
      BY <1>2
    <2> QED BY <1>3, <2>1 DEF Injection, IsInjective
  <1>5. IsFiniteSet(F) /\ HighBandwidth(links) = Cardinality(F)
    BY LinkFacts
  <1> HIDE DEF P, F
  <1>6. Cardinality(P) <= Cardinality(F)
    BY <1>4, <1>5, FS_Injection
  <1> QED BY <1>5, <1>6 DEF P

\* Pairs that are listed once are no more than there are.
LEMMA ListedOnce ==
  ASSUME NEW links \in LinkSeqs, NEW G, IsFiniteSet(G), EachPairOnce(links), \A i \in DOMAIN links : Ends(links, i) \subseteq G
  PROVE  HighBandwidth(links) <= Cardinality(PairsOf(G))
  <1> DEFINE P == PairsOf(G)
             F == FastLinks(links)
             f == [i \in F |-> Ends(links, i)]
  <1>0. \A i \in F : i \in DOMAIN links
    BY LinkFacts DEF FastLinks
  <1>1. ASSUME NEW i \in F PROVE Ends(links, i) \in P
    <2>1. links[i].a # links[i].b /\ links[i].a \in G /\ links[i].b \in G
      <3>1. i \in DOMAIN links
        BY <1>0
      <3>2. links[i].a # links[i].b
        BY <3>1 DEF EachPairOnce
      <3>3. Ends(links, i) \subseteq G
        BY <3>1
      <3> QED BY <3>2, <3>3 DEF Ends
    <2>2. \A v \in G : Ends(links, i) # {v}
      BY <2>1 DEF Ends
    <2> QED BY <2>1, <2>2 DEF PairsOf, Ends
  <1>2. f \in [F -> P]
    <2> HIDE DEF F, P
    <2> QED BY <1>1
  <1>3. f \in Injection(F, P)
    <2>1. \A i, j \in F : Ends(links, i) = Ends(links, j) => i = j
      BY <1>0 DEF EachPairOnce, Ends
    <2> HIDE DEF F, P
    <2>2. \A i, j \in F : f[i] = f[j] => i = j
      BY <2>1
    <2> HIDE DEF f
    <2> QED BY <1>2, <2>2 DEF Injection, IsInjective
  <1>4. HighBandwidth(links) = Cardinality(F) /\ IsFiniteSet(P)
    BY LinkFacts, PairsCount
  <1> HIDE DEF f, F, P
  <1>5. Cardinality(F) <= Cardinality(P)
    BY <1>3, <1>4, FS_Injection
  <1> QED BY <1>4, <1>5 DEF P

LinkedInv ==
    linked # {} => \E inventory \in Inventories, links \in Topologies :
      linked = {[inventory |-> inventory, links |-> links, score |-> TopologyScore(links, inventory),
                 supports |-> [n \in 0 .. Len(inventory) |-> SupportsTensorParallel(links, n)]]}

LEMMA LinksAre ==
  ASSUME NEW inventory \in Seq(STRING), NEW links \in LinkSeqs, NEW G, G = {i \in DOMAIN inventory : inventory[i] # "cpu"}
  PROVE  LET score == TopologyScore(links, inventory) IN
           /\ \A S \in SUBSET DOMAIN inventory : Joined(links, S) =>
                Cardinality(S) \in 0..Len(inventory) /\ SupportsTensorParallel(links, Cardinality(S))
           /\ (\A i, j \in G : i # j => FastPair(links, {i}, {j})) => score[1] >= score[2]
           /\ EachPairOnce(links) /\ (\A i \in DOMAIN links : Ends(links, i) \subseteq G) => score[1] <= score[2]
  <1> DEFINE N == Len(inventory)
             n == Cardinality(G)
             p == Cardinality(PairsOf(G))
             h == HighBandwidth(links)
             score == TopologyScore(links, inventory)
  <1>1. N \in Nat /\ DOMAIN inventory = 1..N /\ IsFiniteSet(1..N) /\ Cardinality(1..N) = N
    <2>1. N \in Nat /\ DOMAIN inventory = 1..N
      OBVIOUS
    <2> QED BY <2>1, UpTo
  <1>2. ASSUME NEW S \in SUBSET DOMAIN inventory, Joined(links, S)
        PROVE  Cardinality(S) \in 0..N /\ SupportsTensorParallel(links, Cardinality(S))
    <2>1. S \in SUBSET (1..N)
      BY <1>1
    <2>2. IsFiniteSet(S) /\ Cardinality(S) <= N /\ Cardinality(S) \in Nat
      <3> HIDE DEF N
      <3> QED BY <1>1, <2>1, FS_Subset, FS_CardinalityType
    <2>3. Cardinality(S) <= 1 \/ HighBandwidth(links) >= Cardinality(S) - 1
      BY <1>2, <2>2, JoinedNeeds
    <2> QED BY <1>1, <2>2, <2>3 DEF SupportsTensorParallel
  <1>3. IsFiniteSet(G)
    <2>1. G \in SUBSET (1..N)
      BY <1>1
    <2> HIDE DEF N
    <2> QED BY <1>1, <2>1, FS_Subset
  <1>4. n \in Nat /\ p \in Nat /\ 2 * p = n * (n - 1) /\ h \in Nat
    BY <1>3, PairsCount, LinkFacts, FS_CardinalityType
  <1>5. score = IF n <= 1 THEN <<1, 1>> ELSE IF links = <<>> THEN <<0, 1>> ELSE <<h, p>>
    <2>1. GpuCount(inventory) = n
      BY DEF GpuCount
    <2>2. (n * (n - 1)) \div 2 = p
      <3> HIDE DEF n, p
      <3> QED BY <1>4, Gauss
    <2> QED BY <2>1, <2>2 DEF TopologyScore
  <1>6. ASSUME \A i, j \in G : i # j => FastPair(links, {i}, {j}) PROVE score[1] >= score[2]
    <2>1. p <= h
      BY <1>3, <1>6, AllLinked
    <2>2. ASSUME ~(n <= 1) PROVE links # <<>>
      <3>1. p > 0
        <4> HIDE DEF n, p
        <4>1. n * (n - 1) >= 2
          <5> DEFINE k == n - 2
          <5>1. k \in Nat /\ n = k + 2
            BY <1>4, <2>2
          <5> HIDE DEF k
          <5>2. n * (n - 1) = k * k + 3 * k + 2 /\ k * k \in Nat
            BY <5>1
          <5> QED BY <5>1, <5>2
        <4> QED BY <1>4, <4>1
      <3>2. h > 0
        <4> HIDE DEF p, h
        <4> QED BY <1>4, <2>1, <3>1
      <3>3. links = <<>> => h = 0
        <4>1. links = <<>> => FastLinks(links) = {}
          BY DEF FastLinks
        <4>2. h = Cardinality(FastLinks(links))
          BY LinkFacts
        <4> QED BY <4>1, <4>2, FS_EmptySet
      <3> QED BY <3>2, <3>3
    <2>3. CASE n <= 1
      BY <1>5, <2>3
    <2>4. CASE ~(n <= 1)
      <3>1. score[1] = h /\ score[2] = p
        BY <1>5, <2>2, <2>4
      <3> HIDE DEF score, h, p
      <3> QED BY <1>4, <2>1, <3>1
    <2> QED BY <2>3, <2>4
  <1>7. ASSUME EachPairOnce(links), \A i \in DOMAIN links : Ends(links, i) \subseteq G PROVE score[1] <= score[2]
    <2>1. h <= p
      BY <1>3, <1>7, ListedOnce
    <2>2. CASE n <= 1
      BY <1>5, <2>2
    <2>3. CASE ~(n <= 1) /\ links = <<>>
      BY <1>5, <2>3
    <2>4. CASE ~(n <= 1) /\ links # <<>>
      <3>1. score[1] = h /\ score[2] = p
        BY <1>5, <2>4
      <3> HIDE DEF score, h, p
      <3> QED BY <2>1, <3>1
    <2> QED BY <2>2, <2>3, <2>4
  <1> QED BY <1>2, <1>6, <1>7

\* The links of a node (topology.rs): for any inventories and links, devices that
\* fast links join are never said not to work together, and the score is full
\* exactly as far as pairs are linked.
THEOREM LinksAreCounted == StoresSpec => []LinksCounted
  <1>1. StoresInit => LinkedInv
    BY DEF StoresInit, TopologyInit, LinkedInv
  <1>2. LinkedInv /\ [StoresNext]_storesVars => LinkedInv'
    <2> SUFFICES ASSUME LinkedInv, [TopologyNext]_linked PROVE LinkedInv'
      BY EachStore
    <2>1. CASE UNCHANGED linked
      BY <2>1 DEF LinkedInv
    <2>2. CASE TopologyNext
      BY <2>2 DEF TopologyNext, AskTopology, LinkedInv
    <2> QED BY <2>1, <2>2
  <1>3. LinkedInv => LinksCounted
    <2> SUFFICES ASSUME LinkedInv, NEW l \in linked
                 PROVE  LET gpus == {i \in DOMAIN l.inventory : l.inventory[i] # "cpu"} IN
                          /\ \A S \in SUBSET DOMAIN l.inventory : Joined(l.links, S) => l.supports[Cardinality(S)]
                          /\ (\A i, j \in gpus : i # j => FastPair(l.links, {i}, {j})) => l.score[1] >= l.score[2]
                          /\ EachPairOnce(l.links) /\ (\A i \in DOMAIN l.links : {l.links[i].a, l.links[i].b} \subseteq gpus)
                               => l.score[1] <= l.score[2]
      BY DEF LinksCounted
    <2>1. PICK inventory \in Inventories, links \in Topologies :
            linked = {[inventory |-> inventory, links |-> links, score |-> TopologyScore(links, inventory),
                       supports |-> [n \in 0 .. Len(inventory) |-> SupportsTensorParallel(links, n)]]}
      BY DEF LinkedInv
    <2>2. /\ l.inventory = inventory /\ l.links = links /\ l.score = TopologyScore(links, inventory)
          /\ l.supports = [n \in 0 .. Len(inventory) |-> SupportsTensorParallel(links, n)]
      BY <2>1
    <2>3. inventory \in Seq(STRING) /\ links \in LinkSeqs
      BY TopologyAssumption DEF LinkSeqs
    <2> DEFINE G == {i \in DOMAIN inventory : inventory[i] # "cpu"}
    <2>4. /\ \A S \in SUBSET DOMAIN inventory : Joined(links, S) =>
               Cardinality(S) \in 0..Len(inventory) /\ SupportsTensorParallel(links, Cardinality(S))
          /\ (\A i, j \in G : i # j => FastPair(links, {i}, {j})) => l.score[1] >= l.score[2]
          /\ EachPairOnce(links) /\ (\A i \in DOMAIN links : Ends(links, i) \subseteq G) => l.score[1] <= l.score[2]
      BY <2>2, <2>3, LinksAre
    <2>5. \A S \in SUBSET DOMAIN inventory : Joined(links, S) => l.supports[Cardinality(S)]
      BY <2>2, <2>4
    <2> QED BY <2>2, <2>4, <2>5 DEF Ends
  <1> QED BY <1>1, <1>2, <1>3, PTL DEF StoresSpec

\* Fleet membership (fleet/registry.rs, placement.rs, federation.rs, relay.rs,
\* gpu.rs, topology.rs): nodes are placed on by what their heartbeats said, a
\* cluster follows whom its term declared, messages come once and in order, and
\* devices and links are accounted for, for every value of the constants.
THEOREM MembershipIsSound == StoresSpec => []MembershipSound
  <1>1. PlacedWell /\ FollowsItsTerm /\ OnceInOrder /\ MemoryAccounted /\ LinksCounted => MembershipSound
    BY DEF MembershipSound
  <1> QED BY <1>1, PlacementIsSound, ClustersFollowTheirTerm, RelayIsOnceInOrder, MemoryIsAccounted, LinksAreCounted, PTL
=============================================================================
