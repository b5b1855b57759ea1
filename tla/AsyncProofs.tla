----------------------------- MODULE AsyncProofs -----------------------------
(***************************************************************************)
(* Theorems about the asynchronous runtime of rust-old: the orchestrator,  *)
(* the approval gate, the event bus, and one crew's runner with its        *)
(* executions, for every set of crews, tasks, waiters and streams and      *)
(* every value of the limits.                                              *)
(*                                                                         *)
(* The parts share nothing, so each has an inductive invariant of its own. *)
(***************************************************************************)
EXTENDS MCAsync, FiniteSetTheorems, TLAPS

partVars == <<runnerVars, execVars>>

\* A step of the whole is a step of a part or leaves it as it is.
LEMMA EachPart ==
  ASSUME [AsyncNext]_asyncVars
  PROVE  /\ [OrchNext]_orchVars
         /\ [RunnerNext]_partVars
         /\ [GateNext]_gateVars
         /\ [BusNext]_busVars
  BY DEF AsyncNext, asyncVars, Only, partVars
-----------------------------------------------------------------------------
(* The orchestrator.                                                       *)

OrchTyped ==
    /\ OrchTypeOK
    /\ token \in [Crews -> BOOLEAN] /\ flag \in [Crews -> BOOLEAN]
    /\ channel \in [Crews -> BOOLEAN]
    /\ canceller \in [Crews -> {"idle", "signalled", "done", "refused"}]

\* A cancel that was heard has raised the flag, and its crew had started.
HeardIsRaised ==
    \A c \in heard : flag[c] /\ at[c] \in {"running", "returned", "stored", "left"}

\* What is to be stored, or was, is a state; and it is not pending.
ReturnedState ==
    \A c \in Crews :
      /\ at[c] \in {"returned", "stored"} => answer[c] \in Answers \ {"error"}
      /\ at[c] = "stored" => status[c] # "pending"

OrchInv == OrchTyped /\ HeardIsRaised /\ ReturnedState /\ CancelHeard /\ LeavesNothing

LEMMA OrchStart == OrchInit => OrchInv
  BY DEF OrchInit, OrchInv, OrchTyped, OrchTypeOK, HeardIsRaised, ReturnedState,
         CancelHeard, LeavesNothing, Holding, Terminal, Answers

LEMMA OrchTypeStep == OrchTyped /\ ReturnedState /\ [OrchNext]_orchVars => OrchTyped'
  <1> SUFFICES ASSUME OrchTyped, ReturnedState, [OrchNext]_orchVars PROVE OrchTyped'
    OBVIOUS
  <1> USE DEF OrchTyped, OrchTypeOK, Holding, Terminal, Answers
  <1>1. ASSUME NEW c \in Crews, Acquire(c) PROVE OrchTyped'
    BY <1>1 DEF Acquire
  <1>2. ASSUME NEW c \in Crews, Register(c) PROVE OrchTyped'
    BY <1>2 DEF Register
  <1>3. ASSUME NEW c \in Crews, StartRunner(c) PROVE OrchTyped'
    BY <1>3 DEF StartRunner
  <1>4. ASSUME NEW c \in Crews, NEW a \in Answers, RunnerReturns(c, a) PROVE OrchTyped'
    BY <1>4 DEF RunnerReturns
  <1>5. ASSUME NEW c \in Crews, Store(c) PROVE OrchTyped'
    BY <1>5 DEF Store, ReturnedState, FinalStatus
  <1>6. ASSUME NEW c \in Crews, CleanUp(c) PROVE OrchTyped'
    BY <1>6 DEF CleanUp
  <1>7. ASSUME NEW c \in Crews, CancelSignal(c) PROVE OrchTyped'
    BY <1>7 DEF CancelSignal
  <1>8. ASSUME NEW c \in Crews, CancelMark(c) PROVE OrchTyped'
    BY <1>8 DEF CancelMark
  <1>9. CASE UNCHANGED orchVars
    BY <1>9 DEF orchVars
  <1> QED
    BY <1>1, <1>2, <1>3, <1>4, <1>5, <1>6, <1>7, <1>8, <1>9 DEF OrchNext, CrewStep

\* Every step keeps what the orchestrator promises: the flag of a running crew is
\* raised once and for all, and what a poller sees is overwritten only by its end.
LEMMA OrchStep == OrchInv /\ [OrchNext]_orchVars => OrchInv'
  <1> SUFFICES ASSUME OrchInv, [OrchNext]_orchVars PROVE OrchInv'
    OBVIOUS
  <1>0. OrchTyped'
    BY OrchTypeStep DEF OrchInv
  <1> DEFINE Rest == HeardIsRaised /\ ReturnedState /\ CancelHeard /\ LeavesNothing
  <1> USE DEF OrchInv, OrchTyped, OrchTypeOK, HeardIsRaised, ReturnedState, CancelHeard,
              LeavesNothing
  <1>1. ASSUME NEW c \in Crews, Acquire(c) PROVE Rest'
    BY <1>1 DEF Acquire
  <1>2. ASSUME NEW c \in Crews, Register(c) PROVE Rest'
    <2>1. \A d \in Crews : status'[d] = status[d] \/ (d = c /\ status'[d] = "pending")
                           \/ (status[d] \in Terminal /\ status'[d] = "absent")
      BY <1>2 DEF Register, Evicted, Evictable
    <2> QED BY <1>2, <2>1 DEF Register, Terminal
  <1>3. ASSUME NEW c \in Crews, StartRunner(c) PROVE Rest'
    BY <1>3 DEF StartRunner
  <1>4. ASSUME NEW c \in Crews, NEW a \in Answers, RunnerReturns(c, a) PROVE Rest'
    BY <1>4 DEF RunnerReturns, RunnerAnswers, Answers, Terminal
  <1>5. ASSUME NEW c \in Crews, Store(c) PROVE Rest'
    BY <1>5 DEF Store, FinalStatus, Answers, Terminal
  <1>6. ASSUME NEW c \in Crews, CleanUp(c) PROVE Rest'
    BY <1>6 DEF CleanUp
  <1>7. ASSUME NEW c \in Crews, CancelSignal(c) PROVE Rest'
    BY <1>7 DEF CancelSignal
  <1>8. ASSUME NEW c \in Crews, CancelMark(c) PROVE Rest'
    BY <1>8 DEF CancelMark
  <1>9. CASE UNCHANGED orchVars
    BY <1>9 DEF orchVars
  <1>10. Rest'
    BY <1>1, <1>2, <1>3, <1>4, <1>5, <1>6, <1>7, <1>8, <1>9 DEF OrchNext, CrewStep
  <1> QED BY <1>0, <1>10

\* A cancelled crew is told so, is never reported complete after that, and when it
\* leaves nothing of it stays in a map (run_crew and cancel_crew of orchestrator.rs).
THEOREM CrewsAreSound == AsyncSpec => []CrewsSound
  <1>1. AsyncInit => OrchInv
    BY OrchStart DEF AsyncInit
  <1>2. OrchInv /\ [AsyncNext]_asyncVars => OrchInv'
    BY OrchStep, EachPart
  <1>3. OrchInv => CrewsSound
    BY DEF OrchInv, OrchTyped, CrewsSound
  <1> QED BY <1>1, <1>2, <1>3, PTL DEF AsyncSpec
-----------------------------------------------------------------------------
(* The approval gate.                                                      *)

GateTyped ==
    /\ gatePending \in [Gated -> Waiters \cup {NoWaiter}]
    /\ waitAt \in [Waiters -> {"idle", "admitted", "waiting", "expired", "closed", "done"}]
    /\ waitFor \in [Waiters -> Gated]
    /\ inbox \in [Waiters -> Decisions \cup {"empty", "dropped"}]
    /\ verdictOf \in [Waiters -> Decisions \cup {"none", "refused"}]
    /\ delivered \in [Waiters -> Decisions \cup {"none", "late"}]
    /\ disowned \subseteq Waiters

\* An entry belongs to a waiter of that task whom nobody has answered.
EntryIsOpen ==
    \A t \in Gated : gatePending[t] # NoWaiter =>
      LET w == gatePending[t] IN
        /\ waitFor[w] = t /\ waitAt[w] \in {"waiting", "expired", "closed"}
        /\ inbox[w] = "empty" /\ delivered[w] = "none"

\* What a waiter has been given, by where it stands.
Progress ==
    \A w \in Waiters :
      /\ waitAt[w] \in {"idle", "admitted"} =>
           inbox[w] = "empty" /\ delivered[w] = "none"
      /\ waitAt[w] # "done" => verdictOf[w] = "none"
      /\ waitAt[w] = "waiting" => delivered[w] # "late"
      /\ waitAt[w] = "waiting" /\ inbox[w] \in Decisions => delivered[w] = inbox[w]
      /\ delivered[w] \in Decisions =>
           \/ waitAt[w] = "waiting" /\ inbox[w] = delivered[w]
           \/ waitAt[w] = "done" /\ verdictOf[w] = delivered[w]

\* Nobody gets in while the limit is 0.
ClosedAtZero ==
    MaxPendingApprovals = 0 => \A w \in Waiters : waitAt[w] \in {"idle", "done"}

\* GateHonest but for the count.
Honest ==
    \A w \in Waiters :
      /\ verdictOf[w] = "approved" => delivered[w] = "approved"
      /\ inbox[w] = "dropped" /\ waitAt[w] = "waiting" => w \in disowned
      /\ waitAt[w] = "waiting" /\ gatePending[waitFor[w]] # w => inbox[w] # "empty"

GateInv == GateTyped /\ EntryIsOpen /\ Progress /\ ClosedAtZero /\ Honest

LEMMA GateStart == GateInit => GateInv
  BY AsyncGateAssumption
  DEF GateInit, GateInv, GateTyped, EntryIsOpen, Progress, ClosedAtZero, Honest, Decisions

LEMMA GateTypeStep == GateTyped /\ [GateNext]_gateVars => GateTyped'
  <1> SUFFICES ASSUME GateTyped, [GateNext]_gateVars PROVE GateTyped'
    OBVIOUS
  <1> USE AsyncGateAssumption DEF GateTyped, Decisions
  <1>1. ASSUME NEW w \in Waiters, AskApproval(w) PROVE GateTyped'
    BY <1>1 DEF AskApproval
  <1>2. ASSUME NEW w \in Waiters, EnterPending(w) PROVE GateTyped'
    BY <1>2 DEF EnterPending, DropSender
  <1>3. ASSUME NEW w \in Waiters, Decided(w) PROVE GateTyped'
    BY <1>3 DEF Decided
  <1>4. ASSUME NEW w \in Waiters, Expire(w) PROVE GateTyped'
    BY <1>4 DEF Expire
  <1>5. ASSUME NEW w \in Waiters, CloseReceiver(w) PROVE GateTyped'
    BY <1>5 DEF CloseReceiver
  <1>6. ASSUME NEW w \in Waiters, TimedOut(w) PROVE GateTyped'
    BY <1>6 DEF TimedOut, DropSender, AfterTimeout
  <1>7. ASSUME NEW t \in Gated, CancelPending(t) PROVE GateTyped'
    BY <1>7 DEF CancelPending, DropSender
  <1>8. ASSUME NEW t \in Gated, NEW d \in Decisions, SubmitDecision(t, d) PROVE GateTyped'
    BY <1>8 DEF SubmitDecision
  <1>9. CASE UNCHANGED gateVars
    BY <1>9 DEF gateVars
  <1> QED BY <1>1, <1>2, <1>3, <1>4, <1>5, <1>6, <1>7, <1>8, <1>9 DEF GateNext

\* An entry leaves the map together with its waiter's last chance of an answer, so
\* no waiter is answered twice or left listening to nobody.
LEMMA GateStep == GateInv /\ [GateNext]_gateVars => GateInv'
  <1> SUFFICES ASSUME GateInv, [GateNext]_gateVars PROVE GateInv'
    OBVIOUS
  <1>0. GateTyped'
    BY GateTypeStep DEF GateInv
  <1> DEFINE Rest == EntryIsOpen /\ Progress /\ ClosedAtZero /\ Honest
  <1> USE AsyncGateAssumption
      DEF GateInv, GateTyped, EntryIsOpen, Progress, ClosedAtZero, Honest, Decisions
  <1>1. ASSUME NEW w \in Waiters, AskApproval(w) PROVE Rest'
    <2>1. PendingCount >= MaxPendingApprovals \/ MaxPendingApprovals # 0
      <3>1. MaxPendingApprovals = 0 => {t \in Gated : gatePending[t] # NoWaiter} = {}
        OBVIOUS
      <3> QED BY <3>1, FS_EmptySet DEF PendingCount
    <2> QED BY <1>1, <2>1 DEF AskApproval
  <1>2. ASSUME NEW w \in Waiters, EnterPending(w) PROVE Rest'
    BY <1>2 DEF EnterPending, DropSender
  <1>3. ASSUME NEW w \in Waiters, Decided(w) PROVE Rest'
    BY <1>3 DEF Decided
  <1>4. ASSUME NEW w \in Waiters, Expire(w) PROVE Rest'
    BY <1>4 DEF Expire
  <1>5. ASSUME NEW w \in Waiters, CloseReceiver(w) PROVE Rest'
    BY <1>5 DEF CloseReceiver
  <1>6. ASSUME NEW w \in Waiters, TimedOut(w) PROVE Rest'
    BY <1>6 DEF TimedOut, DropSender, AfterTimeout
  <1>7. ASSUME NEW t \in Gated, CancelPending(t) PROVE Rest'
    BY <1>7 DEF CancelPending, DropSender
  <1>8. ASSUME NEW t \in Gated, NEW d \in Decisions, SubmitDecision(t, d) PROVE Rest'
    BY <1>8 DEF SubmitDecision, Listening
  <1>9. CASE UNCHANGED gateVars
    BY <1>9 DEF gateVars
  <1>10. Rest'
    BY <1>1, <1>2, <1>3, <1>4, <1>5, <1>6, <1>7, <1>8, <1>9 DEF GateNext
  <1> QED BY <1>0, <1>10

\* Entries are no more than waiters, since each has one of its own.
LEMMA GateCount ==
  ASSUME GateInv
  PROVE  PendingCount <= MaxPendingApprovals + Cardinality(Waiters) - 1
  <1> DEFINE open == {t \in Gated : gatePending[t] # NoWaiter}
             holder == [t \in open |-> gatePending[t]]
  <1>1. holder \in Injection(open, Waiters)
    <2>1. holder \in [open -> Waiters]
      BY DEF GateInv, GateTyped
    <2>2. \A t, u \in open : holder[t] = holder[u] => t = u
      BY DEF GateInv, EntryIsOpen
    <2> HIDE DEF holder, open
    <2> QED BY <2>1, <2>2 DEF Injection, IsInjective
  <1>2. IsFiniteSet(open) /\ Cardinality(open) <= Cardinality(Waiters)
    <2> HIDE DEF holder, open
    <2> QED BY <1>1, FS_Injection, AsyncGateAssumption
  <1>4. Cardinality(open) <= Cardinality(Waiters) /\ Cardinality(open) \in Nat
    BY <1>2, FS_CardinalityType
  <1>5. Cardinality(Waiters) \in Nat \ {0}
    BY AsyncGateAssumption, FS_CardinalityType, FS_EmptySet
  <1>6. MaxPendingApprovals = 0 => Cardinality(open) = 0
    <2>1. MaxPendingApprovals = 0 => open = {}
      BY DEF GateInv, GateTyped, EntryIsOpen, ClosedAtZero
    <2> QED BY <2>1, FS_EmptySet
  <1> QED BY <1>4, <1>5, <1>6, AsyncGateAssumption DEF PendingCount

LEMMA GateIsHonest == GateInv => GateHonest
  <1> SUFFICES ASSUME GateInv PROVE GateHonest
    OBVIOUS
  <1> QED
    BY GateCount, AsyncGateAssumption
    DEF GateInv, GateTyped, EntryIsOpen, Progress, Honest, GateHonest, Decisions
-----------------------------------------------------------------------------
(* The event bus.                                                          *)

\* The channels made so far.
Made == 1 .. Len(emitted)
Counts == emitted \in Seq(Nat)
BusPlaces == {"start", "seeks", "misses", "creates", "sends", "subscribed", "reads", "returned", "failed", "done"}
StreamEnds == {"none", "not found", "lagged", "closed", "left"}

BusTyped ==
    /\ Counts
    /\ channels \in [BusCrews -> Made \cup {0}] /\ held \in [Actors -> Made \cup {0}]
    /\ actor \in [Actors -> BusPlaces]
    /\ target \in [Actors -> BusCrews] /\ \A c \in BusCrews : target[c] = c
    /\ readNext \in [Streams -> Nat]
    /\ streamEnd \in [Streams -> StreamEnds]

\* Who has not found a channel holds none, and who sends or reads holds one; a
\* crew's runner only sends.
HoldsByPlace ==
    /\ \A c \in BusCrews : actor[c] \notin {"seeks", "subscribed", "reads"}
    /\ \A a \in Actors :
         /\ actor[a] \in {"start", "seeks", "misses", "creates"} => held[a] = 0
         /\ actor[a] \in {"sends", "subscribed", "reads"} => held[a] # 0

\* A channel that closed has no sender left and gets none again, so that nothing
\* is sent on it after its reader has read all there was.
ClosedIsDead ==
    \A s \in Streams : streamEnd[s] = "closed" =>
      /\ actor[s] = "done" /\ held[s] \in Made
      /\ \A c \in BusCrews : channels[c] # held[s]
      /\ \A a \in Actors : actor[a] = "sends" => held[a] # held[s]
      /\ readNext[s] = emitted[held[s]] + 1

\* A stream is told what it asks before it reads, and nothing while it does; it reads
\* up to the last event at most.
StreamProgress ==
    \A s \in Streams :
      /\ actor[s] \in {"start", "reads"} => streamEnd[s] = "none"
      /\ actor[s] \in {"seeks", "misses", "creates", "sends", "subscribed"} =>
           streamEnd[s] \in {"none", "not found"}
      /\ actor[s] = "reads" => readNext[s] <= emitted[held[s]] + 1

BusInv == BusTyped /\ HoldsByPlace /\ StreamProgress /\ ClosedIsDead

LEMMA BusActors == BusCrews \subseteq Actors /\ Streams \subseteq Actors
  BY DEF Actors

LEMMA BusStart == BusInit => BusInv
  <1> SUFFICES ASSUME BusInit PROVE BusInv
    OBVIOUS
  <1>1. Counts
    BY DEF BusInit, Counts
  <1> QED
    BY <1>1
    DEF BusInit, BusInv, BusTyped, HoldsByPlace, StreamProgress, ClosedIsDead, BusPlaces, StreamEnds, Actors

LEMMA MadeCounts ==
  ASSUME Counts
  PROVE  0 \notin Made /\ \A k \in Made : emitted[k] \in Nat
  BY DEF Counts, Made

\* A new channel has a number of its own and no events, and changes no other.
LEMMA NewChannel ==
  ASSUME Counts, emitted' = Append(emitted, 0)
  PROVE  /\ Counts' /\ Made' = Made \cup {Len(emitted) + 1} /\ Len(emitted) + 1 \notin Made \cup {0}
         /\ \A k \in Made : emitted'[k] = emitted[k]
  <1>1. Counts' /\ Len(emitted) \in Nat /\ Len(emitted') = Len(emitted) + 1
    BY DEF Counts
  <1> QED BY <1>1 DEF Counts, Made

LEMMA OneMore ==
  ASSUME Counts, NEW k \in Made, emitted' = [emitted EXCEPT ![k] = @ + 1]
  PROVE  /\ Counts' /\ Made' = Made
         /\ \A j \in Made : emitted'[j] = IF j = k THEN emitted[j] + 1 ELSE emitted[j]
  <1>1. Counts' /\ Len(emitted) \in Nat /\ Len(emitted') = Len(emitted)
    BY DEF Counts, Made
  <1> QED BY <1>1 DEF Counts, Made

LEMMA SameEvents ==
  ASSUME Counts, UNCHANGED emitted
  PROVE  Counts' /\ Made' = Made
  BY DEF Counts, Made

\* The channels a client may find or make, and its place, stay what they should be;
\* then what is dead stays dead: nobody begins to hold an old channel but from the map.
LEMMA BusStep == BusInv /\ [BusNext]_busVars => BusInv'
  <1> SUFFICES ASSUME BusInv, [BusNext]_busVars PROVE BusInv'
    OBVIOUS
  <1>0. Counts /\ 0 \notin Made /\ \A k \in Made : emitted[k] \in Nat
    BY MadeCounts DEF BusInv, BusTyped
  <1>a. UNCHANGED emitted => Counts' /\ Made' = Made
    BY <1>0, SameEvents
  <1>b. BusTyped /\ HoldsByPlace /\ StreamProgress /\ ClosedIsDead
    BY DEF BusInv
  <1>c. BusTyped' /\ HoldsByPlace' /\ StreamProgress' /\ ClosedIsDead' => BusInv'
    BY DEF BusInv
  <1> USE BusActors DEF Go
  <1>d. \A a \in Actors :
          actor[a] \in {"sends", "subscribed", "reads"} => held[a] \in Made /\ emitted[held[a]] \in Nat
    BY <1>b, <1>0 DEF BusTyped, HoldsByPlace
  <1>1. ASSUME NEW a \in Actors, Seek(a) PROVE BusInv'
    <2>0. UNCHANGED emitted /\ Counts' /\ Made' = Made
      BY <1>1, <1>a DEF Seek
    <2>1. BusTyped'
      BY <1>1, <2>0, <1>b DEF Seek, BusTyped, BusPlaces, StreamEnds
    <2>2. HoldsByPlace'
      BY <1>1, <2>0, <1>b, <1>0, AsyncBusAssumption DEF Seek, BusTyped, HoldsByPlace
    <2>3. StreamProgress'
      BY <1>1, <2>0, <1>b, <1>0, AsyncBusAssumption DEF Seek, BusTyped, HoldsByPlace, StreamProgress
    <2>4. ClosedIsDead'
      <3>1. \A s \in Streams : streamEnd[s] = "closed" => s # a
        BY <1>1, <1>b DEF Seek, ClosedIsDead
      <3>2. channels[target[a]] = held'[a] /\ target[a] \in BusCrews
        BY <1>1, <1>b DEF Seek, BusTyped
      <3> QED BY <1>1, <2>0, <1>b, <3>1, <3>2 DEF Seek, BusTyped, ClosedIsDead
    <2> QED BY <2>1, <2>2, <2>3, <2>4, <1>c
  <1>2. ASSUME NEW a \in Actors, TidyUp(a) PROVE BusInv'
    <2>0. UNCHANGED emitted /\ Counts' /\ Made' = Made
      BY <1>2, <1>a DEF TidyUp
    <2>1. BusTyped'
      BY <1>2, <2>0, <1>b DEF TidyUp, Tidied, BusTyped, BusPlaces, StreamEnds
    <2>2. HoldsByPlace'
      BY <1>2, <2>0, <1>b, <1>0, AsyncBusAssumption DEF TidyUp, Tidied, BusTyped, HoldsByPlace
    <2>3. StreamProgress'
      BY <1>2, <2>0, <1>b, <1>0, AsyncBusAssumption DEF TidyUp, Tidied, BusTyped, HoldsByPlace, StreamProgress
    <2>4. ClosedIsDead'
      BY <1>2, <2>0, <1>b, <1>0, ZenonT(40) DEF TidyUp, Tidied, BusTyped, HoldsByPlace, StreamProgress, ClosedIsDead
    <2> QED BY <2>1, <2>2, <2>3, <2>4, <1>c
  <1>3. ASSUME NEW a \in Actors, CreateChannel(a) PROVE BusInv'
    <2>1. CASE channels[target[a]] # 0
      <3>0. UNCHANGED emitted /\ Counts' /\ Made' = Made
        BY <1>3, <2>1, <1>a DEF CreateChannel
      <3>1. BusTyped'
        BY <1>3, <2>1, <3>0, <1>b DEF CreateChannel, BusTyped, BusPlaces, StreamEnds
      <3>2. HoldsByPlace'
        BY <1>3, <2>1, <3>0, <1>b, <1>0 DEF CreateChannel, BusTyped, HoldsByPlace
      <3>3. StreamProgress'
        BY <1>3, <2>1, <3>0, <1>b, <1>0 DEF CreateChannel, BusTyped, HoldsByPlace, StreamProgress
      <3>4. ClosedIsDead'
        BY <1>3, <2>1, <3>0, <1>b, <1>0 DEF CreateChannel, BusTyped, ClosedIsDead
      <3> QED BY <3>1, <3>2, <3>3, <3>4, <1>c
    <2>2. CASE channels[target[a]] = 0
      <3> DEFINE new == Len(emitted) + 1
      <3>1. /\ Counts' /\ Made' = Made \cup {new} /\ new \notin Made \cup {0}
            /\ \A k \in Made : emitted'[k] = emitted[k]
        BY <1>0, <1>3, <2>2, NewChannel DEF CreateChannel
      <3>2. /\ channels' = [channels EXCEPT ![target[a]] = new]
            /\ held' = [held EXCEPT ![a] = new]
        BY <1>3, <2>2 DEF CreateChannel
      <3> HIDE DEF new
      <3>3. /\ actor[a] = "creates" /\ actor' = [actor EXCEPT ![a] = "sends"]
            /\ UNCHANGED <<target, readNext, streamEnd>>
        BY <1>3 DEF CreateChannel
      <3>4. BusTyped'
        BY <3>1, <3>2, <3>3, <1>b DEF BusTyped, BusPlaces, StreamEnds
      <3>5. HoldsByPlace'
        BY <3>1, <3>2, <3>3, <1>b DEF BusTyped, HoldsByPlace
      <3>6. StreamProgress'
        BY <3>1, <3>2, <3>3, <1>b, <1>d DEF BusTyped, StreamProgress
      <3>7. ClosedIsDead'
        BY <3>1, <3>2, <3>3, <1>b DEF BusTyped, ClosedIsDead
      <3> QED BY <3>4, <3>5, <3>6, <3>7, <1>c
    <2> QED BY <2>1, <2>2
  <1>4. ASSUME NEW c \in BusCrews, RunnerDone(c) PROVE BusInv'
    <2>0. UNCHANGED emitted /\ Counts' /\ Made' = Made
      BY <1>4, <1>a DEF RunnerDone
    <2>1. BusTyped'
      BY <1>4, <2>0, <1>b DEF RunnerDone, BusTyped, BusPlaces, StreamEnds
    <2>2. HoldsByPlace'
      BY <1>4, <2>0, <1>b, <1>0, AsyncBusAssumption DEF RunnerDone, BusTyped, HoldsByPlace
    <2>3. StreamProgress'
      BY <1>4, <2>0, <1>b, <1>0, AsyncBusAssumption DEF RunnerDone, BusTyped, HoldsByPlace, StreamProgress
    <2>4. ClosedIsDead'
      BY <1>4, <2>0, <1>b, <1>0, ZenonT(40) DEF RunnerDone, BusTyped, HoldsByPlace, StreamProgress, ClosedIsDead
    <2> QED BY <2>1, <2>2, <2>3, <2>4, <1>c
  <1>13. ASSUME NEW c \in BusCrews, RunnerFails(c) PROVE BusInv'
    <2>0. UNCHANGED emitted /\ Counts' /\ Made' = Made
      BY <1>13, <1>a DEF RunnerFails
    <2>1. BusTyped'
      BY <1>13, <2>0, <1>b DEF RunnerFails, BusTyped, BusPlaces, StreamEnds
    <2>2. HoldsByPlace'
      BY <1>13, <2>0, <1>b, <1>0, AsyncBusAssumption DEF RunnerFails, BusTyped, HoldsByPlace
    <2>3. StreamProgress'
      BY <1>13, <2>0, <1>b, <1>0, AsyncBusAssumption DEF RunnerFails, BusTyped, HoldsByPlace, StreamProgress
    <2>4. ClosedIsDead'
      BY <1>13, <2>0, <1>b, <1>0, ZenonT(40) DEF RunnerFails, BusTyped, HoldsByPlace, StreamProgress, ClosedIsDead
    <2> QED BY <2>1, <2>2, <2>3, <2>4, <1>c
  <1>5. ASSUME NEW c \in BusCrews, RemoveChannel(c) PROVE BusInv'
    <2>0. UNCHANGED emitted /\ Counts' /\ Made' = Made
      BY <1>5, <1>a DEF RemoveChannel
    <2>1. BusTyped'
      BY <1>5, <2>0, <1>b DEF RemoveChannel, RemoveEntry, BusTyped, BusPlaces, StreamEnds
    <2>2. HoldsByPlace'
      BY <1>5, <2>0, <1>b, <1>0, AsyncBusAssumption DEF RemoveChannel, RemoveEntry, BusTyped, HoldsByPlace
    <2>3. StreamProgress'
      BY <1>5, <2>0, <1>b, <1>0, AsyncBusAssumption DEF RemoveChannel, RemoveEntry, BusTyped, HoldsByPlace, StreamProgress
    <2>4. ClosedIsDead'
      BY <1>5, <2>0, <1>b, <1>0, ZenonT(40) DEF RemoveChannel, RemoveEntry, BusTyped, HoldsByPlace, StreamProgress, ClosedIsDead
    <2> QED BY <2>1, <2>2, <2>3, <2>4, <1>c
  <1>6. ASSUME NEW s \in Streams, LookForCrew(s) PROVE BusInv'
    <2>0. UNCHANGED emitted /\ Counts' /\ Made' = Made
      BY <1>6, <1>a DEF LookForCrew
    <2>1. BusTyped'
      BY <1>6, <2>0, <1>b DEF LookForCrew, BusTyped, BusPlaces, StreamEnds
    <2>2. HoldsByPlace'
      BY <1>6, <2>0, <1>b, <1>0, AsyncBusAssumption DEF LookForCrew, BusTyped, HoldsByPlace
    <2>3. StreamProgress'
      BY <1>6, <2>0, <1>b, <1>0, AsyncBusAssumption DEF LookForCrew, BusTyped, HoldsByPlace, StreamProgress
    <2>4. ClosedIsDead'
      BY <1>6, <2>0, <1>b, <1>0, ZenonT(40) DEF LookForCrew, BusTyped, HoldsByPlace, StreamProgress, ClosedIsDead
    <2> QED BY <2>1, <2>2, <2>3, <2>4, <1>c
  <1>7. ASSUME NEW s \in Streams, SubscribeStream(s) PROVE BusInv'
    <2>0. UNCHANGED emitted /\ Counts' /\ Made' = Made
      BY <1>7, <1>a DEF SubscribeStream
    <2>1. BusTyped'
      <3>1. emitted[held[s]] + 1 \in Nat
        <4>1. emitted[held[s]] \in Nat
          BY <1>7, <1>d DEF SubscribeStream
        <4> QED BY <4>1
      <3> QED BY <1>7, <2>0, <1>b, <3>1 DEF SubscribeStream, BusTyped, BusPlaces
    <2>2. HoldsByPlace'
      BY <1>7, <2>0, <1>b, <1>0, AsyncBusAssumption DEF SubscribeStream, BusTyped, HoldsByPlace
    <2>3. StreamProgress'
      <3>1. emitted[held[s]] + 1 <= emitted[held[s]] + 1
        <4>1. emitted[held[s]] \in Nat
          BY <1>7, <1>d DEF SubscribeStream
        <4> QED BY <4>1
      <3> QED BY <1>7, <2>0, <1>b, <3>1 DEF SubscribeStream, BusTyped, StreamProgress
    <2>4. ClosedIsDead'
      BY <1>7, <2>0, <1>b, <1>0, ZenonT(40) DEF SubscribeStream, BusTyped, HoldsByPlace, StreamProgress, ClosedIsDead
    <2> QED BY <2>1, <2>2, <2>3, <2>4, <1>c
  <1>8. ASSUME NEW s \in Streams, EndNotFound(s) PROVE BusInv'
    <2>0. UNCHANGED emitted /\ Counts' /\ Made' = Made
      BY <1>8, <1>a DEF EndNotFound
    <2>1. BusTyped'
      BY <1>8, <2>0, <1>b DEF EndNotFound, RemoveEntry, BusTyped, BusPlaces, StreamEnds
    <2>2. HoldsByPlace'
      BY <1>8, <2>0, <1>b, <1>0, AsyncBusAssumption DEF EndNotFound, RemoveEntry, BusTyped, HoldsByPlace
    <2>3. StreamProgress'
      BY <1>8, <2>0, <1>b, <1>0, AsyncBusAssumption DEF EndNotFound, RemoveEntry, BusTyped, HoldsByPlace, StreamProgress
    <2>4. ClosedIsDead'
      BY <1>8, <2>0, <1>b, <1>0, ZenonT(40) DEF EndNotFound, RemoveEntry, BusTyped, HoldsByPlace, StreamProgress, ClosedIsDead
    <2> QED BY <2>1, <2>2, <2>3, <2>4, <1>c
  <1>9. ASSUME NEW s \in Streams, ReadEvent(s) PROVE BusInv'
    <2>0. UNCHANGED emitted /\ Counts' /\ Made' = Made
      BY <1>9, <1>a DEF ReadEvent
    <2>5. /\ actor[s] = "reads" /\ held[s] \in Made /\ emitted[held[s]] \in Nat /\ readNext[s] \in Nat
          /\ readNext[s] <= emitted[held[s]] + 1 /\ UNCHANGED <<channels, target, held>>
      BY <1>9, <1>b, <1>d DEF ReadEvent, BusTyped, StreamProgress
    <2>6. CASE /\ readNext' = [readNext EXCEPT ![s] = @ + 1] /\ UNCHANGED <<actor, streamEnd>>
               /\ readNext[s] <= emitted[held[s]]
      <3>1. readNext[s] + 1 \in Nat /\ readNext[s] + 1 <= emitted[held[s]] + 1
        BY <2>5, <2>6
      <3>2. BusTyped' /\ HoldsByPlace'
        BY <2>0, <2>5, <2>6, <3>1, <1>b DEF BusTyped, HoldsByPlace
      <3>3. StreamProgress'
        BY <2>0, <2>5, <2>6, <3>1, <1>b DEF BusTyped, StreamProgress
      <3>4. ClosedIsDead'
        BY <2>0, <2>5, <2>6, <1>b DEF BusTyped, ClosedIsDead
      <3> QED BY <3>2, <3>3, <3>4, <1>c
    <2>7. CASE /\ actor' = [actor EXCEPT ![s] = "done"] /\ streamEnd' = [streamEnd EXCEPT ![s] = "lagged"]
               /\ UNCHANGED readNext
      <3>1. BusTyped'
        BY <2>0, <2>5, <2>7, <1>b DEF BusTyped, BusPlaces, StreamEnds
      <3>2. HoldsByPlace'
        BY <2>5, <2>7, <1>b DEF BusTyped, HoldsByPlace
      <3>3. StreamProgress'
        BY <2>0, <2>5, <2>7, <1>b DEF BusTyped, StreamProgress
      <3>4. ClosedIsDead'
        BY <2>0, <2>5, <2>7, <1>b DEF BusTyped, ClosedIsDead
      <3> QED BY <3>1, <3>2, <3>3, <3>4, <1>c
    <2>8. CASE /\ readNext[s] > emitted[held[s]] /\ Senders(held[s]) = {}
               /\ actor' = [actor EXCEPT ![s] = "done"] /\ streamEnd' = [streamEnd EXCEPT ![s] = "closed"]
               /\ UNCHANGED readNext
      <3>0. /\ readNext[s] = emitted[held[s]] + 1
            /\ \A c \in BusCrews : channels[c] # held[s]
            /\ \A a \in Actors : actor[a] = "sends" => held[a] # held[s]
        BY <2>5, <2>8 DEF Senders
      <3>1. BusTyped'
        BY <2>0, <2>5, <2>8, <1>b DEF BusTyped, BusPlaces, StreamEnds
      <3>2. HoldsByPlace'
        BY <2>5, <2>8, <1>b DEF BusTyped, HoldsByPlace
      <3>3. StreamProgress'
        BY <2>0, <2>5, <2>8, <1>b DEF BusTyped, StreamProgress
      <3>4. ClosedIsDead'
        BY <2>0, <2>5, <2>8, <3>0, <1>b DEF BusTyped, ClosedIsDead
      <3> QED BY <3>1, <3>2, <3>3, <3>4, <1>c
    <2> QED BY <1>9, <2>6, <2>7, <2>8 DEF ReadEvent
  <1>10. ASSUME NEW c \in BusCrews, EmitEvent(c) PROVE BusInv'
    <2>3. actor[c] = "sends" /\ UNCHANGED <<channels, actor, target, held, readNext, streamEnd>>
      BY <1>10 DEF EmitEvent
    <2>1. held[c] \in Made
      BY <2>3, <1>b DEF BusTyped, HoldsByPlace
    <2>2. /\ Counts' /\ Made' = Made
          /\ \A j \in Made : emitted'[j] = IF j = held[c] THEN emitted[j] + 1 ELSE emitted[j]
      BY <1>0, <1>10, <2>1, OneMore DEF EmitEvent
    <2>4. BusTyped'
      BY <2>2, <2>3, <1>b DEF BusTyped
    <2>5. HoldsByPlace'
      BY <2>3, <1>b DEF HoldsByPlace
    <2>6. StreamProgress'
      <3>1. \A s \in Streams : actor[s] = "reads" =>
               emitted[held[s]] \in Nat /\ readNext[s] \in Nat /\ emitted'[held[s]] \in {emitted[held[s]], emitted[held[s]] + 1}
        BY <2>2, <1>b, <1>d DEF BusTyped
      <3>2. \A s \in Streams : actor[s] = "reads" => readNext[s] <= emitted'[held[s]] + 1
        <4> SUFFICES ASSUME NEW s \in Streams, actor[s] = "reads" PROVE readNext[s] <= emitted'[held[s]] + 1
          OBVIOUS
        <4>1. readNext[s] <= emitted[held[s]] + 1
          BY <1>b DEF StreamProgress
        <4>2. /\ emitted[held[s]] \in Nat /\ readNext[s] \in Nat
              /\ emitted'[held[s]] = emitted[held[s]] \/ emitted'[held[s]] = emitted[held[s]] + 1
          BY <3>1
        <4> QED BY <4>1, <4>2
      <3> QED BY <2>3, <3>2, <1>b DEF StreamProgress
    <2>7. ClosedIsDead'
      BY <2>1, <2>2, <2>3, <1>b DEF ClosedIsDead
    <2> QED BY <2>4, <2>5, <2>6, <2>7, <1>c
  <1>11. ASSUME NEW s \in Streams, Disconnect(s) PROVE BusInv'
    <2>0. UNCHANGED emitted /\ Counts' /\ Made' = Made
      BY <1>11, <1>a DEF Disconnect
    <2>1. BusTyped'
      BY <1>11, <2>0, <1>b DEF Disconnect, BusTyped, BusPlaces, StreamEnds
    <2>2. HoldsByPlace'
      BY <1>11, <2>0, <1>b, <1>0, AsyncBusAssumption DEF Disconnect, BusTyped, HoldsByPlace
    <2>3. StreamProgress'
      BY <1>11, <2>0, <1>b, <1>0, AsyncBusAssumption DEF Disconnect, BusTyped, HoldsByPlace, StreamProgress
    <2>4. ClosedIsDead'
      BY <1>11, <2>0, <1>b, <1>0, ZenonT(40) DEF Disconnect, BusTyped, HoldsByPlace, StreamProgress, ClosedIsDead
    <2> QED BY <2>1, <2>2, <2>3, <2>4, <1>c
  <1>12. CASE UNCHANGED busVars
    <2>0. /\ UNCHANGED <<channels, emitted, actor, target, held, readNext, streamEnd>>
          /\ Counts' /\ Made' = Made
      BY <1>12, <1>a DEF busVars
    <2>1. BusTyped' /\ HoldsByPlace'
      BY <2>0, <1>b DEF BusTyped, HoldsByPlace
    <2>2. StreamProgress' /\ ClosedIsDead'
      BY <2>0, <1>b DEF StreamProgress, ClosedIsDead
    <2> QED BY <2>1, <2>2, <1>c
  <1> QED
    BY <1>1, <1>2, <1>3, <1>4, <1>5, <1>6, <1>7, <1>8, <1>9, <1>10, <1>11, <1>12, <1>13
    DEF BusNext, ActorStep

LEMMA ClosedComplete == BusInv => ClosedIsComplete
  <1> SUFFICES ASSUME BusInv, NEW s \in Streams, streamEnd[s] = "closed", OnRunner(s)
               PROVE  actor[target[s]] \in {"returned", "done", "failed"} /\ readNext[s] = emitted[held[s]] + 1
    BY DEF ClosedIsComplete
  <1> QED
    BY BusActors DEF BusInv, BusTyped, BusPlaces, HoldsByPlace, ClosedIsDead, OnRunner

\* Nobody waiting for a reviewer is told what no reviewer decided (approval.rs), and
\* a stream that finds its crew's channel closed has been sent all of it (sse.rs).
THEOREM NobodyIsMisled == AsyncSpec => []ToldTrue
  <1>1. AsyncInit => GateInv /\ BusInv
    BY GateStart, BusStart DEF AsyncInit
  <1>2. GateInv /\ BusInv /\ [AsyncNext]_asyncVars => GateInv' /\ BusInv'
    BY GateStep, BusStep, EachPart
  <1>3. GateInv /\ BusInv => ToldTrue
    BY GateIsHonest, ClosedComplete DEF ToldTrue
  <1> QED BY <1>1, <1>2, <1>3, PTL DEF AsyncSpec
-----------------------------------------------------------------------------
(* The executions of a crew's tasks, whoever starts them.                   *)

Replies == [of : Tasks \cup {"nobody", "placeholder"}, valid : BOOLEAN]

ExecTyped ==
    /\ llm \in BOOLEAN /\ cache \in [CacheKeys -> Replies] /\ output \in [Tasks -> Replies]
    /\ stage \in [Tasks -> Stages]
    /\ attempt \in [Tasks -> 0..MaxRetries] /\ rounds \in [Tasks -> 0..MaxValidationRetries]
    /\ asked \in [Tasks -> 0..(MaxValidationRetries + 1)]
    /\ outcome \in [Tasks -> {"none", "completed", "failed"}]

\* An execution counts its questions by its rounds until the last answer comes, and
\* has an outcome exactly when it is over.
Asking == \A t \in Tasks :
    /\ stage[t] = "idle" => asked[t] = 0 /\ rounds[t] = 0
    /\ stage[t] = "infer" => asked[t] = rounds[t]
    /\ stage[t] = "done" <=> outcome[t] # "none"

\* Answer a was given, under key k, to a task that completed with it; if its shape is
\* wrong that task had asked as often as it may.
Earned(a, k) ==
    /\ a.of \in Tasks /\ KeyOf[a.of] = k /\ outcome[a.of] = "completed"
    /\ a.of \in HasSchema /\ ~a.valid => rounds[a.of] = MaxValidationRetries

CacheEarned == \A k \in CacheKeys : cache[k] = NoAnswer \/ Earned(cache[k], k)

OutputEarned == \A t \in Tasks :
    /\ outcome[t] = "failed" => output[t] = NoAnswer
    /\ outcome[t] = "completed" /\ output[t] # Placeholder =>
         Earned(output[t], KeyOf[t]) /\ (output[t].of # t => asked[t] = 0)

ExecInv == ExecTyped /\ Asking /\ CacheEarned /\ OutputEarned

LEMMA ExecInitially == ExecInit => ExecInv
  <1> SUFFICES ASSUME ExecInit PROVE ExecInv
    OBVIOUS
  <1>1. ExecTyped
    BY ExecutionAssumption DEF ExecInit, ExecTyped, Replies, NoAnswer, Stages
  <1>2. Asking /\ CacheEarned /\ OutputEarned
    BY DEF ExecInit, Asking, CacheEarned, OutputEarned
  <1> QED BY <1>1, <1>2 DEF ExecInv

\* What was earned stays so: an execution that completed does not change any more.
LEMMA EarnedStays ==
  ASSUME NEW a, NEW k, Earned(a, k),
         \A t \in Tasks : outcome[t] = "completed" => outcome'[t] = "completed" /\ rounds'[t] = rounds[t]
  PROVE  Earned(a, k)'
  BY DEF Earned

\* An execution ends before its first question, with an answer that is already there
\* or a failure.
LEMMA EndsEarly ==
  ASSUME ExecInv, NEW t \in Tasks, NEW a \in Replies, NEW how \in {"completed", "failed"},
         stage[t] = "idle", Finish(t, how, a), UNCHANGED <<llm, cache, attempt, rounds, asked>>,
         IF how = "failed" THEN a = NoAnswer ELSE a = Placeholder \/ Earned(a, KeyOf[t])
  PROVE  ExecInv'
  <1>1. ExecTyped'
    BY DEF ExecInv, ExecTyped, Finish, Stages
  <1>2. Asking'
    BY DEF ExecInv, ExecTyped, Asking, Finish, Stages
  <1>3. /\ outcome[t] = "none" /\ asked[t] = 0
        /\ \A u \in Tasks : outcome[u] = "completed" => outcome'[u] = "completed" /\ rounds'[u] = rounds[u]
    BY DEF ExecInv, ExecTyped, Asking, Finish
  <1>4. \A b, k : Earned(b, k) => Earned(b, k)'
    BY <1>3, EarnedStays
  <1>5. CacheEarned'
    BY <1>4 DEF ExecInv, CacheEarned
  <1>6. OutputEarned'
    BY <1>3, <1>4 DEF ExecInv, ExecTyped, OutputEarned, Finish
  <1> QED BY <1>1, <1>2, <1>5, <1>6 DEF ExecInv

LEMMA ExecStartStep ==
  ASSUME ExecInv, NEW t \in Tasks, ExecStart(t)
  PROVE  ExecInv'
  <1>0. KeyOf[t] \in CacheKeys
    BY DEF CacheKeys
  <1>1. CASE ~llm
    <2>1. Placeholder \in Replies
      BY DEF Placeholder, Replies
    <2> QED BY <1>1, <2>1, EndsEarly DEF ExecStart
  <1>2. CASE llm /\ cache[KeyOf[t]] # NoAnswer
    <2>1. cache[KeyOf[t]] \in Replies /\ Earned(cache[KeyOf[t]], KeyOf[t])
      BY <1>0, <1>2 DEF ExecInv, ExecTyped, CacheEarned
    <2> QED BY <1>2, <2>1, EndsEarly DEF ExecStart
  <1>3. CASE llm /\ cache[KeyOf[t]] = NoAnswer
    <2>0. /\ stage[t] = "idle" /\ stage' = [stage EXCEPT ![t] = "infer"]
          /\ UNCHANGED <<llm, cache, attempt, rounds, asked, outcome, output>>
      BY <1>3 DEF ExecStart
    <2>1. ExecTyped' /\ Asking'
      BY <2>0 DEF ExecInv, ExecTyped, Asking, Stages
    <2>2. CacheEarned' /\ OutputEarned'
      BY <2>0 DEF ExecInv, CacheEarned, OutputEarned, Earned
    <2> QED BY <2>1, <2>2 DEF ExecInv
  <1> QED BY <1>1, <1>2, <1>3 DEF ExecInv, ExecTyped

LEMMA InferFailsStep ==
  ASSUME ExecInv, NEW t \in Tasks, NEW r \in BOOLEAN, InferFails(t, r)
  PROVE  ExecInv'
  <1>0. stage[t] = "infer" /\ outcome[t] = "none" /\ UNCHANGED <<llm, cache, rounds, asked>>
    BY DEF ExecInv, ExecTyped, Asking, InferFails
  <1>1. CASE MayRetry(t, r)
    <2>0. attempt' = [attempt EXCEPT ![t] = @ + 1] /\ UNCHANGED <<stage, outcome, output>>
      BY <1>1 DEF InferFails
    <2>1. attempt[t] + 1 \in 0..MaxRetries
      BY <1>1, ExecutionAssumption DEF MayRetry, ExecInv, ExecTyped
    <2>2. ExecTyped' /\ Asking'
      BY <1>0, <2>0, <2>1 DEF ExecInv, ExecTyped, Asking
    <2>3. CacheEarned' /\ OutputEarned'
      BY <1>0, <2>0 DEF ExecInv, CacheEarned, OutputEarned, Earned
    <2> QED BY <2>2, <2>3 DEF ExecInv
  <1>2. CASE ~MayRetry(t, r)
    <2>0. Finish(t, "failed", NoAnswer) /\ UNCHANGED attempt
      BY <1>2 DEF InferFails
    <2>1. NoAnswer \in Replies
      BY DEF NoAnswer, Replies
    <2>2. ExecTyped'
      BY <1>0, <2>0, <2>1 DEF ExecInv, ExecTyped, Finish, Stages
    <2>3. Asking'
      BY <1>0, <2>0 DEF ExecInv, ExecTyped, Asking, Finish, Stages
    <2>4. \A u \in Tasks : outcome[u] = "completed" => outcome'[u] = "completed" /\ rounds'[u] = rounds[u]
      BY <1>0, <2>0 DEF ExecInv, ExecTyped, Finish
    <2>5. \A b, k : Earned(b, k) => Earned(b, k)'
      BY <2>4, EarnedStays
    <2>6. CacheEarned' /\ OutputEarned'
      BY <1>0, <2>0, <2>5 DEF ExecInv, ExecTyped, CacheEarned, OutputEarned, Finish
    <2> QED BY <2>2, <2>3, <2>6 DEF ExecInv
  <1> QED BY <1>1, <1>2

LEMMA InferAnswersStep ==
  ASSUME ExecInv, NEW t \in Tasks, NEW v \in Shapes(t), InferAnswers(t, v)
  PROVE  ExecInv'
  <1>0. /\ stage[t] = "infer" /\ outcome[t] = "none" /\ asked[t] = rounds[t] /\ UNCHANGED llm
        /\ asked' = [asked EXCEPT ![t] = @ + 1] /\ v \in BOOLEAN
    BY DEF ExecInv, ExecTyped, Asking, InferAnswers, Shapes
  <1>a. asked[t] + 1 \in 0..(MaxValidationRetries + 1) /\ rounds[t] \in 0..MaxValidationRetries
    BY <1>0, ExecutionAssumption DEF ExecInv, ExecTyped
  <1>1. CASE AsksAgain(t, v)
    <2>0. /\ rounds' = [rounds EXCEPT ![t] = @ + 1] /\ attempt' = [attempt EXCEPT ![t] = 0]
          /\ UNCHANGED <<cache, stage, outcome, output>>
      BY <1>1 DEF InferAnswers
    <2>1. rounds[t] + 1 \in 0..MaxValidationRetries
      BY <1>1, <1>a, ExecutionAssumption DEF AsksAgain
    <2>2. 0 \in 0..MaxRetries
      BY ExecutionAssumption
    <2>3. ExecTyped'
      BY <1>0, <1>a, <2>0, <2>1, <2>2 DEF ExecInv, ExecTyped
    <2>4. Asking'
      BY <1>0, <2>0 DEF ExecInv, ExecTyped, Asking
    <2>5. \A u \in Tasks : outcome[u] = "completed" => outcome'[u] = "completed" /\ rounds'[u] = rounds[u]
      BY <1>0, <2>0 DEF ExecInv, ExecTyped
    <2>6. \A b, k : Earned(b, k) => Earned(b, k)'
      BY <2>5, EarnedStays
    <2>7. CacheEarned' /\ OutputEarned'
      BY <1>0, <2>0, <2>6 DEF ExecInv, ExecTyped, CacheEarned, OutputEarned
    <2> QED BY <2>3, <2>4, <2>7 DEF ExecInv
  <1>2. CASE ~AsksAgain(t, v)
    <2> DEFINE a == Answer(t, v)
    <2>0. /\ cache' = [cache EXCEPT ![KeyOf[t]] = a] /\ Finish(t, "completed", a)
          /\ UNCHANGED <<rounds, attempt>>
      BY <1>2 DEF InferAnswers
    <2>1. a \in Replies /\ a.of = t /\ a.valid = v
      BY <1>0 DEF Answer, Replies
    <2>2. t \in HasSchema /\ ~v => rounds[t] = MaxValidationRetries
      BY <1>2, <1>a, ExecutionAssumption DEF AsksAgain
    <2> HIDE DEF a
    <2>3. ExecTyped'
      BY <1>0, <1>a, <2>0, <2>1 DEF ExecInv, ExecTyped, Finish, Stages
    <2>4. Asking'
      BY <1>0, <2>0 DEF ExecInv, ExecTyped, Asking, Finish, Stages
    <2>5. \A u \in Tasks : outcome[u] = "completed" => outcome'[u] = "completed" /\ rounds'[u] = rounds[u]
      BY <1>0, <2>0 DEF ExecInv, ExecTyped, Finish
    <2>6. \A b, k : Earned(b, k) => Earned(b, k)'
      BY <2>5, EarnedStays
    <2>7. Earned(a, KeyOf[t])'
      BY <2>0, <2>1, <2>2 DEF Earned, Finish, ExecInv, ExecTyped
    <2>8. CacheEarned'
      BY <2>0, <2>6, <2>7 DEF ExecInv, ExecTyped, CacheEarned, CacheKeys
    <2>9. OutputEarned'
      BY <1>0, <2>0, <2>1, <2>6, <2>7 DEF ExecInv, ExecTyped, OutputEarned, Finish
    <2> QED BY <2>3, <2>4, <2>8, <2>9 DEF ExecInv
  <1> QED BY <1>1, <1>2

\* Executions that are dropped were at work, and take no answer with them.
LEMMA DropStep ==
  ASSUME ExecInv, NEW D \in SUBSET Tasks, \A t \in D : stage[t] = "infer",
         stage' = [t \in Tasks |-> IF t \in D THEN "dropped" ELSE stage[t]],
         UNCHANGED <<llm, cache, attempt, rounds, asked, outcome, output>>
  PROVE  ExecInv'
  <1>1. ExecTyped' /\ Asking'
    BY DEF ExecInv, ExecTyped, Asking, Stages
  <1>2. CacheEarned' /\ OutputEarned'
    BY DEF ExecInv, CacheEarned, OutputEarned, Earned
  <1> QED BY <1>1, <1>2 DEF ExecInv

LEMMA ForgetStep ==
  ASSUME ExecInv, NEW k \in CacheKeys, CacheForgets(k)
  PROVE  ExecInv'
  <1>0. NoAnswer \in Replies
    BY DEF NoAnswer, Replies
  <1>1. ExecTyped' /\ Asking'
    BY <1>0 DEF ExecInv, ExecTyped, Asking, CacheForgets
  <1>2. \A b, j : Earned(b, j)' <=> Earned(b, j)
    BY DEF CacheForgets, Earned
  <1>3. CacheEarned' /\ OutputEarned'
    BY <1>2 DEF ExecInv, ExecTyped, CacheEarned, OutputEarned, CacheForgets
  <1> QED BY <1>1, <1>3 DEF ExecInv

LEMMA ExecSame ==
  ASSUME ExecInv, UNCHANGED execVars
  PROVE  ExecInv'
  BY DEF ExecInv, ExecTyped, Asking, CacheEarned, OutputEarned, Earned, execVars
-----------------------------------------------------------------------------
(* The runner.                                                             *)

Phases == {"new", "line", "awaiting", "head", "joining", "closing"} \cup Ends

RunnerTyped ==
    /\ mode \in {"sequential", "hierarchical", "parallel", "dag"} /\ limit \in Nat
    /\ phase \in Phases /\ cursor \in 1..(Len(Line) + 1)
    /\ remaining \subseteq Tasks /\ joining \subseteq Tasks /\ waveFailed \in BOOLEAN
    /\ result \in [Tasks -> {"none", "completed", "failed"}] /\ nils \in Nat
    /\ started \subseteq Tasks /\ cancelled \in BOOLEAN
    /\ crewStatus \in {"none", "completed", "failed", "cancelled"}

\* What the runner does goes with its mode, and only a runner that joins holds tasks.
PhaseFits ==
    /\ phase \in {"line", "awaiting"} => Inline
    /\ phase = "head" => mode = "dag"
    /\ phase = "joining" => ~Inline
    /\ phase # "joining" => joining = {}
    /\ phase = "awaiting" => cursor <= Len(Line) /\ Line[cursor] \in started
    /\ phase = "new" => cursor = 1 /\ \A t \in Tasks : stage[t] = "idle" /\ result[t] = "none"
    /\ crewStatus # "none" => phase = "ended"

\* An inference in flight is the one the runner awaits, or one it holds.
InFlight == \A t \in Tasks :
    stage[t] = "infer" =>
      (phase = "awaiting" /\ t = Line[cursor]) \/ (phase = "joining" /\ t \in joining)

\* A result is the outcome of an execution that is over, and was announced.
Results ==
    /\ \A t \in Tasks : result[t] # "none" => result[t] = outcome[t]
    /\ ended = {t \in Tasks : result[t] # "none"}
    /\ ended \subseteq started /\ joining \subseteq started

\* What a DAG's wave holds, and what was ever executed, had all it depends on.
DepsFirst == mode = "dag" =>
    \A t \in Tasks : t \in joining \/ stage[t] # "idle" => deps[t] \subseteq Completed

\* No task is lost sight of: it is ahead, at work, has its result, or panicked.
NoneLost ==
    /\ phase \in {"line", "awaiting"} => \A i \in 1..(cursor - 1) : result[Line[i]] # "none"
    /\ phase = "joining" /\ mode = "parallel" =>
         \A t \in Tasks : t \in joining \/ result[t] # "none" \/ nils > 0
    /\ phase \in {"head", "joining"} /\ mode = "dag" =>
         \A t \in Tasks : t \in remaining \cup joining \/ result[t] # "none" \/ stage[t] = "dropped"
    /\ waveFailed => \E t \in Tasks : result[t] = "failed" \/ stage[t] = "dropped"
    /\ phase = "closing" /\ ~cancelled =>
         \/ \A t \in Tasks : result[t] # "none"
         \/ nils > 0 \/ \E t \in Tasks : result[t] = "failed"
         \/ mode = "dag" /\ \E t \in Tasks : stage[t] = "dropped"

PermitsKept == mode = "parallel" => Cardinality(Running) <= limit

\* A crew's status says what its tasks did.
StatusTrue ==
    /\ crewStatus = "completed" =>
         (\A t \in Tasks : result[t] = "completed") \/ (mode = "dag" /\ \E t \in Tasks : stage[t] = "dropped")
    /\ crewStatus = "cancelled" => cancelled
    /\ crewStatus = "failed" => nils > 0 \/ \E t \in Tasks : result[t] = "failed"

RunnerInv == RunnerTyped /\ PhaseFits /\ InFlight /\ Results /\ DepsFirst /\ NoneLost /\ PermitsKept /\ StatusTrue

\* The line of tasks: where its places are, and that every task has one.
LEMMA LineFacts ==
  /\ Len(Line) \in Nat /\ \A i \in 1..Len(Line) : Line[i] \in Tasks
  /\ \A t \in Tasks : \E i \in 1..Len(Line) : Line[i] = t
  BY RunnerAssumption DEF Range

LEMMA RunnerStart == RunnerInit /\ ExecInit => RunnerInv
  <1> SUFFICES ASSUME RunnerInit, ExecInit PROVE RunnerInv
    OBVIOUS
  <1>a. cursor \in 1..(Len(Line) + 1)
    BY LineFacts DEF RunnerInit
  <1>b. mode \in {"sequential", "hierarchical", "parallel", "dag"} /\ limit \in Nat
    BY RunnerAssumption DEF RunnerInit
  <1>1. RunnerTyped
    BY <1>a, <1>b DEF RunnerInit, RunnerTyped, Phases
  <1>2. PhaseFits /\ InFlight /\ Results /\ StatusTrue
    BY DEF RunnerInit, ExecInit, PhaseFits, InFlight, Results, StatusTrue
  <1>3. DepsFirst /\ NoneLost
    BY DEF RunnerInit, ExecInit, DepsFirst, NoneLost
  <1>4. Running = {}
    BY DEF RunnerInit, Running
  <1>5. PermitsKept
    BY <1>1, <1>4, FS_EmptySet DEF PermitsKept, RunnerTyped
  <1> QED BY <1>1, <1>2, <1>3, <1>5 DEF RunnerInv

\* Fewer inferences in flight keep within the permits.
LEMMA PermitsFewer ==
  ASSUME RunnerTyped, PermitsKept, Running' \subseteq Running, UNCHANGED <<mode, limit>>
  PROVE  PermitsKept'
  <1>1. IsFiniteSet(Tasks) /\ Running \subseteq Tasks
    BY ExecutionAssumption DEF RunnerTyped, Running
  <1>2. IsFiniteSet(Running)
    BY <1>1, FS_Subset
  <1>3. /\ Cardinality(Running') <= Cardinality(Running)
        /\ Cardinality(Running') \in Nat /\ Cardinality(Running) \in Nat
    BY <1>2, FS_Subset, FS_CardinalityType
  <1> QED BY <1>3 DEF PermitsKept, RunnerTyped

\* What executions may do without the runner: nobody begins whom it does not hold,
\* and what is over stays as it is.
ExecBehaves ==
    /\ \A u \in Tasks : outcome[u] # "none" => outcome'[u] = outcome[u]
    /\ \A u \in Tasks : stage[u] = "dropped" => stage'[u] = "dropped"
    /\ \A u \in Tasks : stage'[u] = "infer" => stage[u] = "infer" \/ (phase = "joining" /\ u \in joining)
    /\ \A u \in Tasks : stage'[u] # "idle" => stage[u] # "idle" \/ (phase = "joining" /\ u \in joining)

LEMMA ExecOnly ==
  ASSUME RunnerInv, UNCHANGED runnerVars, ExecBehaves, PermitsKept'
  PROVE  RunnerInv'
  <1>0. /\ RunnerTyped /\ PhaseFits /\ InFlight /\ Results /\ DepsFirst /\ NoneLost /\ StatusTrue
        /\ UNCHANGED <<mode, limit, deps, phase, cursor, remaining, joining, waveFailed, result, nils,
                       taskStatus, started, ended, cancelled, crewStatus>>
    BY DEF RunnerInv, runnerVars
  <1>1. RunnerTyped'
    BY <1>0 DEF RunnerTyped
  <1>2. PhaseFits'
    BY <1>0 DEF PhaseFits, ExecBehaves, Inline
  <1>3. InFlight'
    BY <1>0 DEF InFlight, ExecBehaves
  <1>4. Results'
    BY <1>0 DEF Results, ExecBehaves, RunnerTyped
  <1>5. DepsFirst'
    BY <1>0 DEF DepsFirst, ExecBehaves, Completed
  <1>6. NoneLost'
    BY <1>0 DEF NoneLost, ExecBehaves
  <1>7. StatusTrue'
    BY <1>0 DEF StatusTrue, ExecBehaves
  <1> QED BY <1>1, <1>2, <1>3, <1>4, <1>5, <1>6, <1>7 DEF RunnerInv

LEMMA InfersStep ==
  ASSUME RunnerInv, ExecInv, UNCHANGED runnerVars, NEW t \in Tasks,
         Infers(t) \/ (stage[t] = "infer" /\ Drop(t))
  PROVE  RunnerInv'
  <1>0. /\ stage[t] = "infer" /\ outcome[t] = "none" /\ stage \in [Tasks -> Stages]
        /\ outcome \in [Tasks -> {"none", "completed", "failed"}]
    BY DEF ExecInv, ExecTyped, Asking, Infers, InferFails, InferAnswers
  <1>1. /\ stage' = stage \/ stage' = [stage EXCEPT ![t] = "done"] \/ stage' = [stage EXCEPT ![t] = "dropped"]
        /\ outcome' = outcome \/ \E o : outcome' = [outcome EXCEPT ![t] = o]
    BY DEF Infers, InferFails, InferAnswers, Drop, Finish
  <1>2. ExecBehaves
    BY <1>0, <1>1 DEF ExecBehaves
  <1>3. Running' \subseteq Running
    BY <1>0, <1>1 DEF Running, runnerVars, RunnerInv, RunnerTyped
  <1>4. PermitsKept'
    BY <1>3, PermitsFewer DEF RunnerInv, runnerVars
  <1> QED BY <1>2, <1>4, ExecOnly

LEMMA SpawnedStep ==
  ASSUME RunnerInv, ExecInv, NEW t \in Tasks, SpawnedStart(t)
  PROVE  RunnerInv'
  <1>0. /\ phase = "joining" /\ t \in joining /\ stage[t] = "idle" /\ outcome[t] = "none"
        /\ stage \in [Tasks -> Stages] /\ outcome \in [Tasks -> {"none", "completed", "failed"}]
        /\ UNCHANGED runnerVars
    BY DEF ExecInv, ExecTyped, Asking, SpawnedStart
  <1>1. /\ stage' = [stage EXCEPT ![t] = "done"] \/ stage' = [stage EXCEPT ![t] = "infer"]
        /\ outcome' = outcome \/ \E o : outcome' = [outcome EXCEPT ![t] = o]
    BY DEF SpawnedStart, ExecStart, Finish
  <1>2. ExecBehaves
    BY <1>0, <1>1 DEF ExecBehaves
  <1>3. PermitsKept'
    <2>1. CASE stage' = [stage EXCEPT ![t] = "done"] \/ mode # "parallel"
      <3>1. CASE mode # "parallel"
        BY <3>1, <1>0 DEF PermitsKept, runnerVars
      <3>2. CASE stage' = [stage EXCEPT ![t] = "done"]
        <4>1. Running' \subseteq Running
          BY <3>2, <1>0 DEF Running, runnerVars, RunnerInv, RunnerTyped
        <4> QED BY <4>1, <1>0, PermitsFewer DEF RunnerInv, runnerVars
      <3> QED BY <2>1, <3>1, <3>2
    <2>2. CASE stage' = [stage EXCEPT ![t] = "infer"] /\ mode = "parallel"
      <3>1. stage' # [stage EXCEPT ![t] = "done"]
        BY <2>2, <1>0
      <3>2. PermitFree /\ mode = "parallel"
        BY <2>2, <3>1 DEF SpawnedStart, Finish
      <3>3. Running' = Running \cup {t} /\ Running \subseteq Tasks
        BY <2>2, <1>0 DEF Running, runnerVars, RunnerInv, RunnerTyped
      <3>4. IsFiniteSet(Running)
        BY <3>3, FS_Subset, ExecutionAssumption
      <3>5. Cardinality(Running \cup {t}) <= Cardinality(Running) + 1 /\ Cardinality(Running) \in Nat
            /\ Cardinality(Running \cup {t}) \in Nat
        <4>1. /\ IsFiniteSet(Running \cup {t})
              /\ Cardinality(Running \cup {t}) = IF t \in Running THEN Cardinality(Running) ELSE Cardinality(Running) + 1
          BY <3>4, FS_AddElement
        <4>2. Cardinality(Running) \in Nat
          BY <3>4, FS_CardinalityType
        <4> QED BY <4>1, <4>2
      <3>6. Cardinality(Running') <= limit
        BY <3>2, <3>3, <3>5 DEF PermitFree, RunnerInv, RunnerTyped
      <3> QED BY <3>6, <1>0 DEF PermitsKept, runnerVars
    <2> QED BY <1>1, <2>1, <2>2
  <1> QED BY <1>0, <1>2, <1>3, ExecOnly

\* What a task's result was stays, and what had completed stays so.
LEMMA ReportKeeps ==
  ASSUME RunnerInv, ExecInv, NEW t \in Tasks, Report(t), stage[t] = "done", t \in started,
         UNCHANGED <<deps, outcome, started>>
  PROVE  /\ \A u \in Tasks : result[u] # "none" => result'[u] = result[u]
         /\ result'[t] # "none" /\ result'[t] = outcome[t]
         /\ \A u \in Tasks \ {t} : result'[u] = result[u]
         /\ result' \in [Tasks -> {"none", "completed", "failed"}]
         /\ Completed \subseteq Completed'
         /\ \A u \in Tasks : result'[u] # "none" => result'[u] = outcome'[u]
         /\ ended' = {u \in Tasks : result'[u] # "none"} /\ ended' \subseteq started'
  <1>1. outcome[t] \in {"completed", "failed"} /\ result \in [Tasks -> {"none", "completed", "failed"}]
    BY DEF ExecInv, ExecTyped, Asking, RunnerInv, RunnerTyped
  <1>2. result' = [result EXCEPT ![t] = outcome[t]] /\ ended' = ended \cup {t}
    BY DEF Report
  <1>3. Results
    BY DEF RunnerInv
  <1> QED BY <1>1, <1>2, <1>3 DEF Results, Completed

LEMMA BeginStep ==
  ASSUME RunnerInv, ExecInv, Begin
  PROVE  RunnerInv'
  <1>0. RunnerTyped /\ PhaseFits /\ InFlight /\ Results /\ DepsFirst /\ NoneLost /\ PermitsKept /\ StatusTrue
    BY DEF RunnerInv
  <1>1. /\ phase = "new"
        /\ \/ Inline /\ phase' = "line" /\ UNCHANGED <<remaining, joining, started>>
           \/ /\ mode = "parallel" /\ phase' = "joining" /\ joining' = Tasks /\ started' = Tasks
              /\ UNCHANGED remaining
           \/ /\ mode = "dag" /\ phase' \in {"head", "errored"} /\ remaining' = Tasks
              /\ UNCHANGED <<joining, started>>
        /\ UNCHANGED <<mode, limit, deps, cursor, waveFailed, result, nils, ended, cancelled, crewStatus, stage, outcome>>
    BY <1>0 DEF Begin, specVars, execVars, RunnerTyped, Inline
  <1>10. RunnerTyped'
    BY <1>0, <1>1 DEF RunnerTyped, Phases, Ends
  <1>11. PhaseFits'
    BY <1>0, <1>1 DEF PhaseFits, Inline
  <1>12. InFlight'
    BY <1>0, <1>1 DEF InFlight, PhaseFits
  <1>13. Results'
    BY <1>0, <1>1 DEF Results, PhaseFits, Inline
  <1>14. DepsFirst'
    BY <1>0, <1>1 DEF DepsFirst, Completed, PhaseFits, Inline
  <1>15. NoneLost'
    <2>1. cursor = 1 /\ 1..(cursor - 1) = {} /\ phase' # "closing"
      BY <1>0, <1>1 DEF PhaseFits
    <2> QED BY <1>0, <1>1, <2>1 DEF NoneLost, PhaseFits, Inline
  <1>16. StatusTrue'
    BY <1>0, <1>1 DEF StatusTrue, PhaseFits
  <1>18. Running' = {}
    BY <1>0, <1>1 DEF Running, PhaseFits, RunnerTyped
  <1>19. PermitsKept'
    BY <1>0, <1>1, <1>18, FS_EmptySet DEF PermitsKept, RunnerTyped
  <1> QED BY <1>10, <1>11, <1>12, <1>13, <1>14, <1>15, <1>16, <1>19 DEF RunnerInv

LEMMA LineHeadStep ==
  ASSUME RunnerInv, ExecInv, LineHead
  PROVE  RunnerInv'
  <1>0. RunnerTyped /\ PhaseFits /\ InFlight /\ Results /\ DepsFirst /\ NoneLost /\ PermitsKept /\ StatusTrue
    BY DEF RunnerInv
  <1>1. /\ phase = "line" /\ (cancelled \/ cursor > Len(Line)) /\ phase' = "closing"
        /\ UNCHANGED <<mode, limit, deps, cursor, remaining, joining, waveFailed, result, nils, started, ended, cancelled, crewStatus, stage, outcome>>
    BY DEF LineHead, specVars, execVars
  <1>10. RunnerTyped'
    BY <1>0, <1>1 DEF RunnerTyped, Phases, Ends
  <1>11. PhaseFits'
    BY <1>0, <1>1 DEF PhaseFits, Inline
  <1>12. InFlight'
    BY <1>0, <1>1 DEF InFlight
  <1>13. Results'
    BY <1>0, <1>1 DEF Results
  <1>14. DepsFirst'
    BY <1>0, <1>1 DEF DepsFirst, Completed
  <1>15. NoneLost'
    <2>1. cursor > Len(Line) => \A t \in Tasks : result[t] # "none"
      BY <1>0, <1>1, LineFacts DEF NoneLost, RunnerTyped
    <2> QED BY <1>0, <1>1, <2>1 DEF NoneLost
  <1>16. StatusTrue'
    BY <1>0, <1>1 DEF StatusTrue
  <1>18. Running' \subseteq Running
    BY <1>0, <1>1 DEF Running
  <1>19. PermitsKept'
    BY <1>0, <1>1, <1>18, PermitsFewer
  <1> QED BY <1>10, <1>11, <1>12, <1>13, <1>14, <1>15, <1>16, <1>19 DEF RunnerInv

LEMMA LineStartStep ==
  ASSUME RunnerInv, ExecInv, LineStart
  PROVE  RunnerInv'
  <1>0. RunnerTyped /\ PhaseFits /\ InFlight /\ Results /\ DepsFirst /\ NoneLost /\ PermitsKept /\ StatusTrue
    BY DEF RunnerInv
  <1>2. phase = "line" /\ cursor \in 1..Len(Line) /\ Line[cursor] \in Tasks
    BY <1>0, LineFacts DEF LineStart, RunnerTyped
  <1>1. /\ phase = "line" /\ cursor <= Len(Line) /\ Line[cursor] \in Tasks
        /\ phase' = "awaiting" /\ started' = started \cup {Line[cursor]} /\ stage[Line[cursor]] = "idle"
        /\ UNCHANGED <<mode, limit, deps, cursor, remaining, joining, waveFailed, result, nils, ended, cancelled, crewStatus>>
    BY <1>2 DEF LineStart, specVars, ExecStart
  <1>3. /\ \A u \in Tasks : u # Line[cursor] => stage'[u] = stage[u] /\ outcome'[u] = outcome[u]
        /\ outcome[Line[cursor]] = "none"
    BY <1>2 DEF LineStart, ExecStart, Finish, ExecInv, ExecTyped, Asking
  <1>10. RunnerTyped'
    BY <1>0, <1>1 DEF RunnerTyped, Phases, Ends
  <1>11. PhaseFits'
    BY <1>0, <1>1, <1>3 DEF PhaseFits, Inline
  <1>12. InFlight'
    BY <1>0, <1>1, <1>3 DEF InFlight
  <1>13. Results'
    BY <1>0, <1>1, <1>3 DEF Results
  <1>14. DepsFirst'
    BY <1>0, <1>1 DEF DepsFirst, Completed, PhaseFits, Inline
  <1>15. NoneLost'
    BY <1>0, <1>1, <1>3 DEF NoneLost, PhaseFits, Inline
  <1>16. StatusTrue'
    BY <1>0, <1>1, <1>3 DEF StatusTrue, PhaseFits
  <1>18. Running' = {}
    BY <1>0, <1>1 DEF Running, PhaseFits
  <1>19. PermitsKept'
    BY <1>0, <1>1, <1>18, FS_EmptySet DEF PermitsKept, RunnerTyped
  <1> QED BY <1>10, <1>11, <1>12, <1>13, <1>14, <1>15, <1>16, <1>19 DEF RunnerInv

LEMMA LineReportStep ==
  ASSUME RunnerInv, ExecInv, LineReport
  PROVE  RunnerInv'
  <1>0. RunnerTyped /\ PhaseFits /\ InFlight /\ Results /\ DepsFirst /\ NoneLost /\ PermitsKept /\ StatusTrue
    BY DEF RunnerInv
  <1>2. phase = "awaiting" /\ cursor \in 1..Len(Line) /\ Line[cursor] \in Tasks /\ Line[cursor] \in started
    BY <1>0, LineFacts DEF LineReport, RunnerTyped, PhaseFits
  <1>1. /\ phase = "awaiting" /\ cursor \in 1..Len(Line) /\ Line[cursor] \in Tasks /\ stage[Line[cursor]] = "done"
        /\ cursor' = cursor + 1 /\ phase' = "line"
        /\ UNCHANGED <<mode, limit, deps, remaining, joining, waveFailed, nils, started, cancelled, crewStatus, stage, outcome>>
    BY <1>2 DEF LineReport, specVars, execVars
  <1>3. /\ \A u \in Tasks : result[u] # "none" => result'[u] = result[u]
        /\ result'[Line[cursor]] # "none"
        /\ result' \in [Tasks -> {"none", "completed", "failed"}]
        /\ \A u \in Tasks : result'[u] # "none" => result'[u] = outcome'[u]
        /\ ended' = {u \in Tasks : result'[u] # "none"} /\ ended' \subseteq started'
    BY <1>1, <1>2, ReportKeeps DEF LineReport
  <1>4. cursor + 1 \in 1..(Len(Line) + 1)
    BY <1>1, LineFacts
  <1>10. RunnerTyped'
    BY <1>0, <1>1, <1>3, <1>4 DEF RunnerTyped, Phases, Ends
  <1>11. PhaseFits'
    BY <1>0, <1>1 DEF PhaseFits, Inline
  <1>12. InFlight'
    BY <1>0, <1>1 DEF InFlight, RunnerTyped
  <1>13. Results'
    BY <1>0, <1>1, <1>3 DEF Results
  <1>14. DepsFirst'
    BY <1>0, <1>1 DEF DepsFirst, Completed, PhaseFits, Inline
  <1>15. NoneLost'
    <2>1. \A i \in 1..cursor : result'[Line[i]] # "none"
      <3> SUFFICES ASSUME NEW i \in 1..cursor PROVE result'[Line[i]] # "none"
        OBVIOUS
      <3>1. i = cursor \/ (i \in 1..(cursor - 1) /\ Line[i] \in Tasks)
        BY <1>1, LineFacts
      <3> QED BY <1>0, <1>1, <1>3, <3>1 DEF NoneLost
    <2>2. 1..(cursor' - 1) = 1..cursor
      BY <1>1
    <2>3. waveFailed' => \E t \in Tasks : result'[t] = "failed" \/ stage'[t] = "dropped"
      BY <1>0, <1>1, <1>3 DEF NoneLost
    <2> QED BY <1>0, <1>1, <2>1, <2>2, <2>3 DEF NoneLost, PhaseFits, Inline
  <1>16. StatusTrue'
    BY <1>0, <1>1, <1>3 DEF StatusTrue, PhaseFits
  <1>18. Running' \subseteq Running
    BY <1>0, <1>1 DEF Running
  <1>19. PermitsKept'
    BY <1>0, <1>1, <1>18, PermitsFewer
  <1> QED BY <1>10, <1>11, <1>12, <1>13, <1>14, <1>15, <1>16, <1>19 DEF RunnerInv

LEMMA WaveHeadStep ==
  ASSUME RunnerInv, ExecInv, WaveHead
  PROVE  RunnerInv'
  <1>0. RunnerTyped /\ PhaseFits /\ InFlight /\ Results /\ DepsFirst /\ NoneLost /\ PermitsKept /\ StatusTrue
    BY DEF RunnerInv
  <1>1. /\ phase = "head" /\ ~waveFailed'
        /\ \/ /\ phase' \in {"closing", "errored"} /\ UNCHANGED <<remaining, joining, started>>
              /\ phase' = "closing" => remaining = {} \/ cancelled
           \/ /\ phase' = "joining" /\ joining' = Runnable(remaining) /\ remaining' = remaining \ joining'
              /\ started' = started \cup joining'
        /\ UNCHANGED <<mode, limit, deps, cursor, result, nils, ended, cancelled, crewStatus, stage, outcome>>
    BY DEF WaveHead, specVars, execVars
  <1>2. joining' \subseteq Tasks /\ joining = {} /\ mode = "dag" /\ waveFailed' \in BOOLEAN
    BY <1>0, <1>1 DEF Runnable, RunnerTyped, PhaseFits, WaveHead
  <1>10. RunnerTyped'
    BY <1>0, <1>1, <1>2 DEF RunnerTyped, Phases, Ends
  <1>11. PhaseFits'
    BY <1>0, <1>1, <1>2 DEF PhaseFits, Inline
  <1>12. InFlight'
    BY <1>0, <1>1, <1>2 DEF InFlight
  <1>13. Results'
    BY <1>0, <1>1, <1>2 DEF Results
  <1>14. DepsFirst'
    BY <1>0, <1>1, <1>2 DEF DepsFirst, Completed, Runnable
  <1>15. NoneLost'
    BY <1>0, <1>1, <1>2 DEF NoneLost
  <1>16. StatusTrue'
    BY <1>0, <1>1, <1>2 DEF StatusTrue, PhaseFits
  <1>19. PermitsKept'
    BY <1>0, <1>1, <1>2 DEF PermitsKept
  <1> QED BY <1>10, <1>11, <1>12, <1>13, <1>14, <1>15, <1>16, <1>19 DEF RunnerInv

LEMMA JoinStep ==
  ASSUME RunnerInv, ExecInv, NEW t \in Tasks, Join(t)
  PROVE  RunnerInv'
  <1>0. RunnerTyped /\ PhaseFits /\ InFlight /\ Results /\ DepsFirst /\ NoneLost /\ PermitsKept /\ StatusTrue
    BY DEF RunnerInv
  <1>1. /\ phase = "joining" /\ t \in joining /\ joining' = joining \ {t}
        /\ waveFailed' = (waveFailed \/ outcome[t] # "completed")
        /\ UNCHANGED <<mode, limit, deps, phase, cursor, remaining, started, cancelled, crewStatus, stage, outcome>>
    BY DEF Join, specVars, execVars
  <1>2. t \in started /\ ~Inline /\ joining' \subseteq joining
    BY <1>0, <1>1 DEF Results, PhaseFits
  <1>3. /\ \A u \in Tasks : result[u] # "none" => result'[u] = result[u]
        /\ result' \in [Tasks -> {"none", "completed", "failed"}] /\ Completed \subseteq Completed'
        /\ \A u \in Tasks : result'[u] # "none" => result'[u] = outcome'[u]
        /\ ended' = {u \in Tasks : result'[u] # "none"} /\ ended' \subseteq started'
        /\ nils' \in Nat /\ (nils > 0 => nils' > 0)
        /\ mode = "parallel" => result'[t] # "none" \/ nils' > 0
        /\ result'[t] # "none" \/ stage[t] = "dropped"
        /\ outcome[t] # "completed" => result'[t] = "failed" \/ stage[t] = "dropped"
    <2>1. CASE stage[t] = "done"
      <3>1. Report(t) /\ UNCHANGED nils
        BY <2>1 DEF Join
      <3>2. outcome[t] \in {"completed", "failed"} /\ nils \in Nat
        BY <2>1, <1>0 DEF ExecInv, ExecTyped, Asking, RunnerTyped
      <3> QED BY <1>1, <1>2, <2>1, <3>1, <3>2, ReportKeeps
    <2>2. CASE stage[t] = "dropped"
      <3>1. UNCHANGED <<result, ended>> /\ nils' = nils + (IF mode = "parallel" THEN 1 ELSE 0)
        BY <2>2 DEF Join
      <3>2. nils' \in Nat /\ (nils > 0 => nils' > 0) /\ (mode = "parallel" => nils' > 0)
        BY <3>1, <1>0 DEF RunnerTyped
      <3>3. UNCHANGED Completed
        BY <3>1 DEF Completed
      <3> QED BY <1>0, <1>1, <2>2, <3>1, <3>2, <3>3 DEF Results, RunnerTyped
    <2> QED BY <2>1, <2>2 DEF Join
  <1>10. RunnerTyped'
    BY <1>0, <1>1, <1>2, <1>3 DEF RunnerTyped, Phases, Ends, Join
  <1>11. PhaseFits'
    BY <1>0, <1>1, <1>2, <1>3 DEF PhaseFits, Inline
  <1>12. InFlight'
    BY <1>0, <1>1, <1>2, <1>3 DEF InFlight, ExecInv, ExecTyped, Join, Asking
  <1>13. Results'
    BY <1>0, <1>1, <1>2, <1>3 DEF Results
  <1>14. DepsFirst'
    BY <1>0, <1>1, <1>2, <1>3 DEF DepsFirst
  <1>15. NoneLost'
    BY <1>0, <1>1, <1>2, <1>3 DEF NoneLost
  <1>16. StatusTrue'
    BY <1>0, <1>1, <1>2, <1>3 DEF StatusTrue, PhaseFits
  <1>18. Running' \subseteq Running
    BY <1>0, <1>1 DEF Running
  <1>19. PermitsKept'
    BY <1>0, <1>1, <1>18, PermitsFewer
  <1> QED BY <1>10, <1>11, <1>12, <1>13, <1>14, <1>15, <1>16, <1>19 DEF RunnerInv

LEMMA JoinedStep ==
  ASSUME RunnerInv, ExecInv, Joined
  PROVE  RunnerInv'
  <1>0. RunnerTyped /\ PhaseFits /\ InFlight /\ Results /\ DepsFirst /\ NoneLost /\ PermitsKept /\ StatusTrue
    BY DEF RunnerInv
  <1>1. /\ phase = "joining" /\ joining = {}
        /\ \/ mode = "dag" /\ phase' = "head"
           \/ mode = "dag" /\ phase' = "closing" /\ waveFailed
           \/ mode = "parallel" /\ phase' = "closing"
        /\ UNCHANGED <<mode, limit, deps, cursor, remaining, joining, waveFailed, result, nils, started, ended, cancelled, crewStatus, stage, outcome>>
    BY <1>0 DEF Joined, specVars, execVars, PhaseFits, RunnerTyped, Inline
  <1>10. RunnerTyped'
    BY <1>0, <1>1 DEF RunnerTyped, Phases, Ends
  <1>11. PhaseFits'
    BY <1>0, <1>1 DEF PhaseFits, Inline
  <1>12. InFlight'
    BY <1>0, <1>1 DEF InFlight
  <1>13. Results'
    BY <1>0, <1>1 DEF Results
  <1>14. DepsFirst'
    BY <1>0, <1>1 DEF DepsFirst, Completed
  <1>15. NoneLost'
    BY <1>0, <1>1 DEF NoneLost, Inline
  <1>16. StatusTrue'
    BY <1>0, <1>1 DEF StatusTrue
  <1>18. Running' \subseteq Running
    BY <1>0, <1>1 DEF Running
  <1>19. PermitsKept'
    BY <1>0, <1>1, <1>18, PermitsFewer
  <1> QED BY <1>10, <1>11, <1>12, <1>13, <1>14, <1>15, <1>16, <1>19 DEF RunnerInv

LEMMA CloseStep ==
  ASSUME RunnerInv, ExecInv, Close
  PROVE  RunnerInv'
  <1>0. RunnerTyped /\ PhaseFits /\ InFlight /\ Results /\ DepsFirst /\ NoneLost /\ PermitsKept /\ StatusTrue
    BY DEF RunnerInv
  <1>1. /\ phase = "closing" /\ phase' = "ended" /\ crewStatus' = EndStatus
        /\ UNCHANGED <<mode, limit, deps, cursor, remaining, joining, waveFailed, result, nils, started, ended, cancelled, stage, outcome>>
    BY DEF Close, specVars, execVars
  <1>10. RunnerTyped'
    BY <1>0, <1>1 DEF RunnerTyped, Phases, Ends, EndStatus
  <1>11. PhaseFits'
    BY <1>0, <1>1 DEF PhaseFits, Inline
  <1>12. InFlight'
    BY <1>0, <1>1 DEF InFlight
  <1>13. Results'
    BY <1>0, <1>1 DEF Results
  <1>14. DepsFirst'
    BY <1>0, <1>1 DEF DepsFirst, Completed
  <1>15. NoneLost'
    BY <1>0, <1>1 DEF NoneLost
  <1>16. StatusTrue'
    BY <1>0, <1>1 DEF StatusTrue, EndStatus, NoneLost, RunnerTyped
  <1>18. Running' \subseteq Running
    BY <1>0, <1>1 DEF Running
  <1>19. PermitsKept'
    BY <1>0, <1>1, <1>18, PermitsFewer
  <1> QED BY <1>10, <1>11, <1>12, <1>13, <1>14, <1>15, <1>16, <1>19 DEF RunnerInv

LEMMA CancelStep ==
  ASSUME RunnerInv, ExecInv, RunnerCancel
  PROVE  RunnerInv'
  <1>0. RunnerTyped /\ PhaseFits /\ InFlight /\ Results /\ DepsFirst /\ NoneLost /\ PermitsKept /\ StatusTrue
    BY DEF RunnerInv
  <1>1. /\ phase \notin Ends /\ cancelled' = TRUE
        /\ UNCHANGED <<mode, limit, deps, phase, cursor, remaining, joining, waveFailed, result, nils, started, ended, crewStatus, stage, outcome>>
    BY DEF RunnerCancel, specVars, execVars
  <1>10. RunnerTyped'
    BY <1>0, <1>1 DEF RunnerTyped, Phases, Ends
  <1>11. PhaseFits'
    BY <1>0, <1>1 DEF PhaseFits, Inline
  <1>12. InFlight'
    BY <1>0, <1>1 DEF InFlight
  <1>13. Results'
    BY <1>0, <1>1 DEF Results
  <1>14. DepsFirst'
    BY <1>0, <1>1 DEF DepsFirst, Completed
  <1>15. NoneLost'
    BY <1>0, <1>1 DEF NoneLost
  <1>16. StatusTrue'
    BY <1>0, <1>1 DEF StatusTrue, PhaseFits, Ends
  <1>18. Running' \subseteq Running
    BY <1>0, <1>1 DEF Running
  <1>19. PermitsKept'
    BY <1>0, <1>1, <1>18, PermitsFewer
  <1> QED BY <1>10, <1>11, <1>12, <1>13, <1>14, <1>15, <1>16, <1>19 DEF RunnerInv

LEMMA TimeOutStep ==
  ASSUME RunnerInv, ExecInv, TimeOut
  PROVE  RunnerInv'
  <1>0. RunnerTyped /\ PhaseFits /\ InFlight /\ Results /\ DepsFirst /\ NoneLost /\ PermitsKept /\ StatusTrue
    BY DEF RunnerInv
  <1>1. /\ phase \notin Ends \cup {"new"} /\ phase' = "timed out" /\ joining' = {}
        /\ stage' = [t \in Tasks |-> IF stage[t] = "infer" THEN "dropped" ELSE stage[t]]
        /\ UNCHANGED <<mode, limit, deps, cursor, remaining, waveFailed, result, nils, started, ended, cancelled, crewStatus, outcome>>
    BY DEF TimeOut, specVars, execVars
  <1>10. RunnerTyped'
    BY <1>0, <1>1 DEF RunnerTyped, Phases, Ends
  <1>11. PhaseFits'
    BY <1>0, <1>1 DEF PhaseFits, Inline, Ends
  <1>12. InFlight'
    BY <1>0, <1>1 DEF InFlight
  <1>13. Results'
    BY <1>0, <1>1 DEF Results
  <1>14. DepsFirst'
    BY <1>0, <1>1 DEF DepsFirst, Completed
  <1>15. NoneLost'
    BY <1>0, <1>1 DEF NoneLost
  <1>16. StatusTrue'
    BY <1>0, <1>1 DEF StatusTrue, PhaseFits, Ends
  <1>18. Running' \subseteq Running
    BY <1>0, <1>1 DEF Running
  <1>19. PermitsKept'
    BY <1>0, <1>1, <1>18, PermitsFewer
  <1> QED BY <1>10, <1>11, <1>12, <1>13, <1>14, <1>15, <1>16, <1>19 DEF RunnerInv

\* Both together: the line's next task is one of the crew's, so that its execution is
\* one of those accounted for.
LEMMA RunStep == RunnerInv /\ ExecInv /\ [RunnerNext]_partVars => RunnerInv' /\ ExecInv'
  <1> SUFFICES ASSUME RunnerInv, ExecInv, [RunnerNext]_partVars PROVE RunnerInv' /\ ExecInv'
    OBVIOUS
  <1>1. CASE Begin \/ LineHead \/ LineReport \/ WaveHead \/ Joined \/ Close \/ RunnerCancel
    <2>1. UNCHANGED execVars
      BY <1>1 DEF Begin, LineHead, LineReport, WaveHead, Joined, Close, RunnerCancel
    <2> QED
      BY <1>1, <2>1, ExecSame, BeginStep, LineHeadStep, LineReportStep, WaveHeadStep, JoinedStep, CloseStep, CancelStep
  <1>2. CASE LineStart
    <2>1. Line[cursor] \in Tasks
      BY <1>2, LineFacts DEF LineStart, RunnerInv, RunnerTyped
    <2> QED BY <1>2, <2>1, ExecStartStep, LineStartStep DEF LineStart
  <1>3. CASE TimeOut
    <2> DEFINE D == {t \in Tasks : stage[t] = "infer"}
    <2>1. /\ stage' = [t \in Tasks |-> IF t \in D THEN "dropped" ELSE stage[t]]
          /\ UNCHANGED <<llm, cache, attempt, rounds, asked, outcome, output>>
      BY <1>3 DEF TimeOut
    <2>2. D \in SUBSET Tasks /\ \A t \in D : stage[t] = "infer"
      OBVIOUS
    <2> HIDE DEF D
    <2>3. ExecInv'
      BY <2>1, <2>2, DropStep
    <2> QED BY <1>3, <2>3, TimeOutStep
  <1>4. ASSUME NEW t \in Tasks, SpawnedStart(t) PROVE RunnerInv' /\ ExecInv'
    <2>1. CASE ExecStart(t)
      BY <1>4, <2>1, ExecStartStep, SpawnedStep
    <2>2. CASE Finish(t, "failed", NoAnswer) /\ UNCHANGED <<llm, cache, attempt, rounds, asked>>
      <3>1. NoAnswer \in Replies /\ stage[t] = "idle"
        BY <1>4 DEF NoAnswer, Replies, SpawnedStart
      <3> QED BY <1>4, <2>2, <3>1, EndsEarly, SpawnedStep
    <2> QED BY <1>4, <2>1, <2>2 DEF SpawnedStart
  <1>5. ASSUME NEW t \in Tasks, Join(t) PROVE RunnerInv' /\ ExecInv'
    BY <1>5, JoinStep, ExecSame DEF Join
  <1>6. ASSUME NEW t \in Tasks, Infers(t), UNCHANGED runnerVars PROVE RunnerInv' /\ ExecInv'
    BY <1>6, InfersStep, InferFailsStep, InferAnswersStep DEF Infers
  <1>7. ASSUME NEW t \in Tasks, Panic(t) PROVE RunnerInv' /\ ExecInv'
    <2>1. /\ stage' = [u \in Tasks |-> IF u \in {t} THEN "dropped" ELSE stage[u]]
          /\ UNCHANGED <<llm, cache, attempt, rounds, asked, outcome, output>>
          /\ stage[t] = "infer" /\ Drop(t) /\ UNCHANGED runnerVars
      BY <1>7 DEF Panic, Drop, ExecInv, ExecTyped
    <2>2. ExecInv'
      <3>1. {t} \in SUBSET Tasks /\ \A u \in {t} : stage[u] = "infer"
        BY <2>1
      <3> QED BY <2>1, <3>1, DropStep
    <2> QED BY <2>1, <2>2, InfersStep
  <1>8. ASSUME NEW k \in CacheKeys, CacheForgets(k), UNCHANGED runnerVars PROVE RunnerInv' /\ ExecInv'
    <2>1. ExecBehaves /\ UNCHANGED stage
      BY <1>8 DEF CacheForgets, ExecBehaves
    <2>2. PermitsKept'
      BY <1>8, <2>1 DEF RunnerInv, PermitsKept, Running, runnerVars
    <2> QED BY <1>8, <2>1, <2>2, ExecOnly, ForgetStep
  <1>9. CASE UNCHANGED partVars
    <2>1. ExecBehaves /\ UNCHANGED stage /\ UNCHANGED runnerVars /\ UNCHANGED execVars
      BY <1>9 DEF partVars, execVars, ExecBehaves
    <2>2. PermitsKept'
      BY <2>1 DEF RunnerInv, PermitsKept, Running, runnerVars
    <2> QED BY <2>1, <2>2, ExecOnly, ExecSame
  <1> QED
    BY <1>1, <1>2, <1>3, <1>4, <1>5, <1>6, <1>7, <1>8, <1>9 DEF RunnerNext, RunnerStep, TaskStep

\* What is answered is accounted for: it was given under the task's own cache key, a
\* wrong shape only after every round, nobody asks too often, and no success is empty
\* (crew_runner.rs, execute_task; llm/retry.rs; output_validation.rs).
THEOREM AnswersAreAccounted == AsyncSpec => []AnswersAccounted
  <1>1. AsyncInit => RunnerInv /\ ExecInv
    BY RunnerStart, ExecInitially DEF AsyncInit
  <1>2. RunnerInv /\ ExecInv /\ [AsyncNext]_asyncVars => (RunnerInv /\ ExecInv)'
    BY RunStep, EachPart
  <1>3. ExecInv => AnswersAccounted
    <2> SUFFICES ASSUME ExecInv, NEW t \in Tasks
                 PROVE AnswersAccounted!(t)
      BY DEF AnswersAccounted
    <2>1. asked[t] <= MaxValidationRetries + 1 /\ attempt[t] <= MaxRetries
      BY ExecutionAssumption DEF ExecInv, ExecTyped
    <2> QED BY <2>1 DEF ExecInv, OutputEarned, Earned
  <1> QED BY <1>1, <1>2, <1>3, PTL DEF AsyncSpec

\* A crew's status and events say what its tasks did, no task of a DAG runs before what
\* it depends on, a parallel crew keeps to its permits and a line to one inference, and
\* a run that ended left none in flight (crew_runner.rs, CrewRunner).
THEOREM RunsAreSound == AsyncSpec => []RunSound
  <1>1. AsyncInit => RunnerInv /\ ExecInv
    BY RunnerStart, ExecInitially DEF AsyncInit
  <1>2. RunnerInv /\ ExecInv /\ [AsyncNext]_asyncVars => (RunnerInv /\ ExecInv)'
    BY RunStep, EachPart
  <1>3. ExecInv => ExecTypeOK
    BY DEF ExecInv, ExecTyped, ExecTypeOK, CacheEarned, Earned
  <1>4. RunnerInv => OutcomeHonest
    BY DEF RunnerInv, StatusTrue, Results, OutcomeHonest
  <1>5. RunnerInv => WorkContained
    <2> SUFFICES ASSUME RunnerInv PROVE WorkContained
      OBVIOUS
    <2>1. mode = "dag" => \A t \in Tasks : stage[t] # "idle" => deps[t] \subseteq Completed
      BY DEF RunnerInv, DepsFirst
    <2>2. mode = "parallel" => Cardinality(Running) <= limit
      BY DEF RunnerInv, PermitsKept
    <2>3. ASSUME Inline PROVE Cardinality({t \in Tasks : stage[t] = "infer"}) <= 1
      <3>1. {t \in Tasks : stage[t] = "infer"} \subseteq {Line[cursor]}
        BY <2>3 DEF RunnerInv, InFlight, PhaseFits
      <3>2. IsFiniteSet({Line[cursor]}) /\ Cardinality({Line[cursor]}) = 1
        BY FS_Singleton
      <3> QED BY <3>1, <3>2, FS_Subset
    <2>4. phase \in Ends => \A t \in Tasks : stage[t] # "infer"
      BY DEF RunnerInv, InFlight, Ends
    <2> QED BY <2>1, <2>2, <2>3, <2>4 DEF WorkContained
  <1> QED BY <1>1, <1>2, <1>3, <1>4, <1>5, PTL DEF AsyncSpec, RunSound
=============================================================================
