------------------------------ MODULE MCStores ------------------------------
(* Parts of the Rust tree that share nothing with one another, each by        *)
(* itself: every behaviour is about one of them.                              *)
EXTENDS Messaging, Memory, Budgets, DurableState, Learning, AsyncQueue, NodeFleet, Federation, Relay

\* Wildcards at either end and alone; the last pattern is deeper than the matcher
\* goes.
SomePatterns == {<<"a">>, <<"*", "b">>, <<"a", "#">>, <<"#", "b">>, <<"a", "#", "#", "b">>}
SomeTopics == {<<"a">>, <<"a", "b">>, <<"a", "a", "b">>}
TwoShards == [p \in Patterns |-> IF p[1] = "a" THEN 1 ELSE 2]

Crew(as, ts) == [agents |-> as, tasks |-> ts]

\* The first two are one crew in two orders, the third has the key of the first.
SomeCrews == {Crew(<<1, 2>>, <<3>>), Crew(<<2, 1>>, <<3>>), Crew(<<1>>, <<2, 3>>), Crew(<<4>>, <<>>)}

SomePrices == {[tokens |-> 1, tenths |-> 4], [tokens |-> 3, tenths |-> 11]}
Limit(t, c, n) == [tokens |-> t, cost |-> c, crews |-> n]
SomeBudgets == {Limit(1, 2, 0), Limit(2, 0, 1)}
SomeUsage == {Limit(0, 0, 0), Limit(1, 0, 1), Limit(2, 2, 0)}
LongShortLong == <<2, 1, 2>>
NoLimitToo == {-1, 0, 2}
LossAndGain == {-1, 1}

\* A small node, one with a large accelerator, one with two.
Node(gpus, vram, caps, cores, devs) ==
    [gpus |-> gpus, vram |-> vram, caps |-> caps, cores |-> cores, devices |-> devs]
ThreeNodes ==
    <<Node(0, 0, {"a"}, 4, {}),
      Node(1, 8, {"a", "b"}, 8, {<<1, "cuda", 8>>}),
      Node(2, 6, {}, 16, {<<1, "cuda", 4>>, <<2, "rocm", 2>>})>>

\* One request for each policy; hardware asked for by family, by type, and not.
NoNeed == [cores |-> 0, family |-> "none", types |-> {}, devices |-> 0, memory |-> 0]
AnyNode == [policy |-> "balanced", hardware |-> "none", need |-> NoNeed, gpu |-> FALSE, vram |-> 0,
            caps |-> {}, preferred |-> 0]
SomeRequests ==
    {AnyNode,
     [AnyNode EXCEPT !.policy = "gpu", !.gpu = TRUE, !.vram = 7],
     [AnyNode EXCEPT !.policy = "locality", !.caps = {"a", "b"}],
     [AnyNode EXCEPT !.policy = "manual", !.preferred = 3],
     [AnyNode EXCEPT !.policy = "cost", !.hardware = "needed",
                     !.need = [NoNeed EXCEPT !.cores = 8, !.family = "gpu", !.devices = 2, !.memory = 4]],
     [AnyNode EXCEPT !.policy = "cost", !.hardware = "needed",
                     !.need = [NoNeed EXCEPT !.types = {"cuda"}, !.devices = 1]]}

\* Links between three devices, the other way round and to itself among them.
Link(x, y, f) == [a |-> x, b |-> y, fast |-> f]
SomeLinks == {Link(p[1], p[2], f) : p \in {<<1, 2>>, <<2, 1>>, <<2, 3>>, <<1, 3>>, <<1, 1>>}, f \in BOOLEAN}
SomeTopologies == UNION {[1..n -> SomeLinks] : n \in 0..3}
SomeInventories == {<<>>, <<"cuda">>, <<"cuda", "cpu">>, <<"cuda", "cuda">>, <<"cuda", "cpu", "cuda">>, <<"cuda", "cuda", "cuda">>}
-----------------------------------------------------------------------------
VARIABLE side   \* the part this behaviour is about

storesVars == <<side, psVars, planVars, talkVars, budgetVars, durVars, learnVars, ipcVars, aqVars,
                nodeVars, fedVars, relayVars, devVars, linked>>

Sides == {"messages", "plans", "talk", "budget", "tenants", "snapshots", "replay", "scores",
          "values", "arms", "frames", "asks", "nodes", "clusters", "relay", "devices", "links"}

\* A part that does not move has one initial value.
StoresInit ==
    /\ side \in Sides
    /\ PubSubInit /\ PlanInit /\ TalkInit /\ BudgetsInit /\ DurableInit /\ LearnInit /\ IpcInit
    /\ AsyncQueueInit /\ NodesInit /\ FedInit /\ RelayInit /\ DevicesInit /\ TopologyInit
    /\ side = "talk" \/ (strategy = "full" /\ window = 0)
    /\ side = "budget" \/ (maxTokens = 2 /\ maxCost = 2)
    /\ side = "snapshots" \/ inPlace

\* Only part s moves.
Only(s) ==
    /\ side = s /\ UNCHANGED side
    /\ IF s = "messages" THEN TRUE ELSE UNCHANGED psVars
    /\ IF s = "plans" THEN TRUE ELSE UNCHANGED planVars
    /\ IF s = "talk" THEN TRUE ELSE UNCHANGED talkVars
    /\ IF s \in {"budget", "tenants"} THEN TRUE ELSE UNCHANGED budgetVars
    /\ IF s = "snapshots" THEN TRUE ELSE UNCHANGED durVars
    /\ IF s \in {"replay", "scores", "values", "arms"} THEN TRUE ELSE UNCHANGED learnVars
    /\ IF s = "frames" THEN TRUE ELSE UNCHANGED ipcVars
    /\ IF s = "asks" THEN TRUE ELSE UNCHANGED aqVars
    /\ IF s = "nodes" THEN TRUE ELSE UNCHANGED nodeVars
    /\ IF s = "clusters" THEN TRUE ELSE UNCHANGED fedVars
    /\ IF s = "relay" THEN TRUE ELSE UNCHANGED relayVars
    /\ IF s = "devices" THEN TRUE ELSE UNCHANGED devVars
    /\ IF s = "links" THEN TRUE ELSE UNCHANGED linked

StoresNext ==
    \/ Only("messages") /\ PubSubNext
    \/ Only("plans") /\ PlanNext
    \/ Only("talk") /\ TalkNext
    \/ Only("budget") /\ TrackerNext
    \/ Only("tenants") /\ TenantNext
    \/ Only("snapshots") /\ DurableNext
    \/ Only("replay") /\ ReplayNext
    \/ Only("scores") /\ ScoreNext
    \/ Only("values") /\ QNext
    \/ Only("arms") /\ BanditNext
    \/ Only("frames") /\ IpcNext
    \/ Only("asks") /\ AsyncQueueNext
    \/ Only("nodes") /\ NodesNext
    \/ Only("clusters") /\ FedNext
    \/ Only("relay") /\ RelayNext
    \/ Only("devices") /\ DevicesNext
    \/ Only("links") /\ TopologyNext

StoresSpec == StoresInit /\ [][StoresNext]_storesVars
-----------------------------------------------------------------------------
\* The stores of a process keep what they promise: plans by shape and age, a
\* conversation's window, learned scores, whole frames on a socket, and spending
\* that passes its limit by no more than the calls under way.
StoresSound == PlansSound /\ BufferExact /\ LearningSound /\ FramesWhole /\ OvershootBounded

\* The fleet's view of itself: nodes are placed on by what their heartbeats said,
\* a cluster follows whom its term declared, messages come once and in order, and
\* the memory of devices and the links between them are accounted for.
MembershipSound == PlacedWell /\ FollowsItsTerm /\ OnceInOrder /\ MemoryAccounted /\ LinksCounted
=============================================================================
