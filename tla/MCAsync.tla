------------------------------ MODULE MCAsync ------------------------------
(* The asynchronous orchestrator over several crews, one crew's runner with  *)
(* its executions, the approval gate and the event bus, each by itself.      *)
EXTENDS AsyncRunner, AsyncOrchestrator, AsyncGate, AsyncBus

CONSTANTS t1, t2, t3, Stranger, k1, k2

\* Two of the three tasks have no context and share a key.
SharedKeys == [t \in Tasks |-> IF t = t3 THEN k2 ELSE k1]
ThreeInLine == <<t1, t2, t3>>

Chain(d1, d2, d3) == (t1 :> d1) @@ (t2 :> d2) @@ (t3 :> d3)

\* Free tasks, a chain, a fork, a join, a cycle, and one that waits for a task
\* of no crew.
DagShapes ==
    {Chain({}, {}, {}), Chain({}, {t1}, {t2}), Chain({}, {t1}, {t1}), Chain({}, {}, {t1, t2}),
     Chain({t2}, {t1}, {}), Chain({}, {Stranger}, {t1})}

AnyOf(S) == CHOOSE x \in S : TRUE

VARIABLE side   \* the part this behaviour is about

asyncVars == <<side, orchVars, runnerVars, execVars, gateVars, busVars>>

Sides == {"crews", "runner", "gate", "bus"}

AsyncInit ==
    /\ side \in Sides
    /\ OrchInit /\ RunnerInit /\ ExecInit
    \* What a mode does not look at, and a part that does not move, has one value.
    /\ side = "runner" \/ (mode = "sequential" /\ llm)
    /\ mode = "parallel" \/ limit = 2
    /\ mode = "dag" \/ deps = Chain({}, {}, {})
    /\ GateInit /\ waitFor[AnyOf(Waiters)] = AnyOf(Gated) /\ (side = "gate" \/ waitFor = [w \in Waiters |-> AnyOf(Gated)])
    /\ BusInit

\* Only part s moves.
Only(s) ==
    /\ side = s /\ UNCHANGED side
    /\ IF s = "crews" THEN TRUE ELSE UNCHANGED orchVars
    /\ IF s = "runner" THEN TRUE ELSE UNCHANGED <<runnerVars, execVars>>
    /\ IF s = "gate" THEN TRUE ELSE UNCHANGED gateVars
    /\ IF s = "bus" THEN TRUE ELSE UNCHANGED busVars

AsyncNext ==
    \/ Only("crews") /\ OrchNext
    \/ Only("runner") /\ RunnerNext
    \/ Only("gate") /\ GateNext
    \/ Only("bus") /\ BusNext

\* The runtime goes on with whatever can go on; nobody has to cancel, to decide or
\* to emit, and a runner's timeout need not fire.
AsyncSpec ==
    /\ AsyncInit /\ [][AsyncNext]_asyncVars
    /\ \A c \in Crews : WF_asyncVars(Only("crews") /\ CrewStep(c))
    /\ WF_asyncVars(Only("runner") /\ RunnerStep)
    /\ \A t \in Tasks : WF_asyncVars(Only("runner") /\ TaskStep(t))
    /\ \A a \in Actors : WF_asyncVars(Only("bus") /\ ActorStep(a))
-----------------------------------------------------------------------------
\* A run reports what became of its tasks, and leaves no task at work behind it.
RunSound == ExecTypeOK /\ OutcomeHonest /\ WorkContained

\* A cancelled crew is told so, is never reported complete after that, and when
\* it leaves nothing of it stays in a map.
CrewsSound == OrchTypeOK /\ CancelHeard /\ LeavesNothing

\* Nobody waiting for a reviewer, or reading events, is told what did not happen.
ToldTrue == GateHonest /\ ClosedIsComplete

\* Every crew that is submitted leaves, its permit with it; every run that has a
\* permit to give ends, however the gateway fails, whatever panics and whether
\* or not the timeout fires; and every event stream of a running crew ends when
\* its crew does, a crew whose runner fails excepted.
AsyncEnds ==
    /\ <>(CASE side = "crews" -> \A c \in Crews : at[c] = "left"
            [] side = "runner" -> phase \in Ends \/ limit = 0
            [] OTHER -> TRUE)
    /\ StreamsEnd
=============================================================================
