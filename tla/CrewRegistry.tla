---------------------------- MODULE CrewRegistry ----------------------------
(***************************************************************************)
(* The crew registry of src/orchestrator/orchestrator.cyr: every crew the  *)
(* orchestrator has accepted, the cancel flag that says a runner holds it, *)
(* the queue of crews that have ended, eviction, forgetting and release.   *)
(*                                                                         *)
(* One mutex (AGN_OR_MUTEX) guards the registry.  Each action below is one *)
(* critical section, or one stretch of code between two of them, so every  *)
(* interleaving of submitting threads, crew threads and callers of cancel, *)
(* forget and release is explored.                                         *)
(*                                                                         *)
(* A registry entry is a POINTER to a crew state, and the code compares    *)
(* pointers.  A state is therefore named by what allocates it: run r       *)
(* allocates one when it registers and one when it ends.                   *)
(*                                                                         *)
(* The ended queue is a vector with a head index.  Here a queued slot is a *)
(* record of its position and its state, the slots before the head are     *)
(* only counted, and sliding the live slots down leaves positions alone:   *)
(* what a slot is in front of is all the code uses.                        *)
(***************************************************************************)
EXTENDS Naturals, FiniteSets

CONSTANTS
    Crews,          \* crew specs; a spec is named by its crew id
    ArenaCrews,     \* the specs built by agnosai_crew_new_in
    Disposable,     \* the specs whose caller will call release_crew
    Runs,           \* runs of a spec (bounds how many are registered)
    None,           \* "no entry", "no flag", "no channel"
    MaxRetained,    \* AGNOSAI_MAX_RETAINED_CREWS (1000)
    LowWater,       \* AGNOSAI_CREWS_LOW_WATER (900)
    QueueSlack,     \* the queue may outgrow twice the registry by this (64)
    PoppedMax,      \* popped slots that force a compaction (1024)
    SpawnMayFail,   \* whether thread_create_detached may return 0
    Reuse           \* when a caller runs a spec again, see MayRun

ASSUME NoneAssumption ==
    None \notin Runs /\ None \notin Crews /\ None \notin [run : Runs, final : BOOLEAN]
ASSUME RunsAssumption == IsFiniteSet(Runs)
ASSUME ArenaAssumption == ArenaCrews \subseteq Crews /\ Disposable \subseteq Crews
ASSUME MarksAssumption ==
    /\ MaxRetained \in Nat /\ LowWater \in Nat /\ LowWater < MaxRetained
    /\ QueueSlack \in Nat /\ PoppedMax \in Nat \ {0}
ASSUME SpawnAssumption == SpawnMayFail \in BOOLEAN
ASSUME ReuseAssumption == Reuse \in {"drained", "unheld", "any"}

VARIABLES
    crews,      \* AGN_OR_CREWS: id -> state pointer
    flag,       \* AGN_OR_CANCEL: id -> the run whose cancel flag is published
    status,     \* the status word of every state
    ended,      \* AGN_OR_ENDED from the head on
    popped,     \* AGN_OR_ENDED_HEAD
    tick,       \* position the next queued slot takes
    pc,         \* where each run is
    crewOf,     \* the spec a run runs
    cancelled,  \* the value of a run's cancel flag
    out,        \* what the runner returned
    chan,       \* the bus's channel for an id, named by the run that made it
    sender,     \* the channel a run sends its events to
    runs,       \* AGN_CREW_RUNS of a spec
    rel,        \* how far agnosai_orchestrator_release_crew has come
    audit       \* the orchestration trail, as a set of events

regVars == <<crews, flag, status, ended, popped, tick>>
runVars == <<pc, crewOf, cancelled, out>>
busVars == <<chan, sender>>
vars == <<crews, flag, status, ended, popped, tick, pc, crewOf, cancelled, out,
          chan, sender, runs, rel, audit>>
-----------------------------------------------------------------------------
States == [run : Runs, final : BOOLEAN]
RegState(r) == [run |-> r, final |-> FALSE]     \* made by _agnosai_orch_register
EndState(r) == [run |-> r, final |-> TRUE]      \* made by the runner

Finished == {"completed", "failed", "cancelled"}
Status == {"unmade", "pending", "running"} \cup Finished
Outcomes == {"completed", "failed", "cancelled", "error"}

\* A run's steps.  It is counted in AGN_CREW_RUNS from "accepted" until "done",
\* and a runner holds the crew from "published" until the flag is taken down.
Held == {"published", "ready", "running", "ran", "audited"}
Holding == {"accepted"} \cup Held
Leaving == {"unstarted", "stored", "leaving"}
Active == Holding \cup Leaving
PC == {"idle", "done"} \cup Active

Slots == [pos : Nat, st : States]

ActiveRuns(c) == {r \in Runs : pc[r] \in Active /\ crewOf[r] = c}
Size(m) == Cardinality({c \in Crews : m[c] # None})
Entry(c) == crews[c]
Registered(c) == crews[c] # None

\* _agnosai_orch_is_finished
IsFinished(st) == status[st] \in Finished

\* _agnosai_orch_is_current_locked, against the entries m: by identity, not id.
IsCurrent(m, st) == m[crewOf[st.run]] = st
-----------------------------------------------------------------------------
Init ==
    /\ crews = [c \in Crews |-> None]
    /\ flag = [c \in Crews |-> None]
    /\ status = [st \in States |-> "unmade"]
    /\ ended = {}
    /\ popped = 0
    /\ tick = 0
    /\ pc = [r \in Runs |-> "idle"]
    /\ crewOf = [r \in Runs |-> None]
    /\ cancelled = [r \in Runs |-> FALSE]
    /\ out = [r \in Runs |-> None]
    /\ chan = [c \in Crews |-> None]
    /\ sender = [r \in Runs |-> None]
    /\ runs = [c \in Crews |-> 0]
    /\ rel = [c \in Crews |-> "owned"]
    /\ audit = {}

\* Whether a queue q with hd popped slots is due a compaction beside entries m.
CompactDue(q, hd, m) ==
    Cardinality(q) > 2 * Size(m) + QueueSlack \/ hd >= PoppedMax

\* _agnosai_orch_compact_ended_locked.
CompactEnded(q, hd, m) ==
    /\ ended' = IF CompactDue(q, hd, m)
                  THEN {e \in q : IsCurrent(m, e.st)} ELSE q
    /\ popped' = IF CompactDue(q, hd, m) THEN 0 ELSE hd

\* _agnosai_orch_note_ended_locked, with entries m after the caller's change.
NoteEnded(st, m) ==
    /\ CompactEnded(ended \cup {[pos |-> tick, st |-> st]}, popped, m)
    /\ tick' = tick + 1

\* The states the eviction loop finds current before it reaches slot e.
CurrentBefore(e) ==
    {f.st : f \in {g \in ended : g.pos < e.pos /\ IsCurrent(crews, g.st)}}

\* Wrong variant: the marks are over the registry, running crews included.
PoppedSlots_WholeRegistry ==
    IF Size(crews) < MaxRetained THEN {}
    ELSE {e \in ended : Cardinality(CurrentBefore(e)) + LowWater < Size(crews)}

\* The slots the loop of _agnosai_orch_evict_locked pops: it stops once the
\* crews it has deleted bring the ended count down to the low-water mark.
PoppedSlots ==
    IF Size(crews) < MaxRetained + Size(flag) THEN {}
    ELSE {e \in ended :
            Cardinality(CurrentBefore(e)) + LowWater + Size(flag) < Size(crews)}

\* The loop deletes the id of each popped slot that is current.
Evicted(c) ==
    \E e \in PoppedSlots : crewOf[e.st.run] = c /\ IsCurrent(crews, e.st)

\* _agnosai_orch_evict_locked, up to the entries it leaves.
AfterEviction == [c \in Crews |-> IF Evicted(c) THEN None ELSE Entry(c)]

\* The queue the eviction leaves; below the mark it returns before compacting.
EvictQueue ==
    IF Size(crews) < MaxRetained + Size(flag) THEN UNCHANGED <<ended, popped>>
    ELSE CompactEnded(ended \ PoppedSlots,
                      popped + Cardinality(PoppedSlots), AfterEviction)
-----------------------------------------------------------------------------
(* A run: register, start, run, finish.                                    *)

\* When a caller runs a spec again.  "drained": once the last run has returned.
\* "unheld": as soon as the registry says it is over, which is all a caller of
\* submit_crew can see.  "any": overlapping runs of one id, which the comments
\* of forget_crew and release_crew speak of.  Never a spec given back.
MayRun(c) ==
    /\ rel[c] = "owned"
    /\ Reuse = "drained" => ActiveRuns(c) = {}
    /\ Reuse = "unheld" => \A r \in ActiveRuns(c) : pc[r] \in Leaving

\* _agnosai_orch_register, before it takes the lock: count the run, audit it.
Accept(r, c) ==
    /\ pc[r] = "idle"
    /\ MayRun(c)
    /\ pc' = [pc EXCEPT ![r] = "accepted"]
    /\ crewOf' = [crewOf EXCEPT ![r] = c]
    /\ runs' = [runs EXCEPT ![c] = @ + 1]
    /\ audit' = audit \cup {[event |-> "crew_accepted", run |-> r]}
    /\ UNCHANGED <<regVars, cancelled, out, busVars, rel>>

\* _agnosai_orch_register under the lock: evict, then publish state and flag.
Publish(r) ==
    /\ pc[r] = "accepted"
    /\ pc' = [pc EXCEPT ![r] = "published"]
    /\ EvictQueue
    /\ crews' = [AfterEviction EXCEPT ![crewOf[r]] = RegState(r)]
    /\ flag' = [flag EXCEPT ![crewOf[r]] = r]
    /\ status' = [status EXCEPT ![RegState(r)] = "pending"]
    /\ UNCHANGED <<tick, crewOf, cancelled, out, busVars, runs, rel, audit>>

\* agnosai_event_bus_sender_a: the id's channel, made if it has none.
OpenChannel(r) ==
    /\ pc[r] = "published"
    /\ pc' = [pc EXCEPT ![r] = "ready"]
    /\ chan' = [chan EXCEPT ![crewOf[r]] = IF @ = None THEN r ELSE @]
    /\ sender' = [sender EXCEPT ![r] = chan'[crewOf[r]]]
    /\ UNCHANGED <<regVars, crewOf, cancelled, out, runs, rel, audit>>

\* submit_crew whose thread would not start: _agnosai_orch_abandon, the lock.
Abandon(r) ==
    /\ SpawnMayFail
    /\ pc[r] = "ready"
    /\ pc' = [pc EXCEPT ![r] = "unstarted"]
    /\ flag' = [flag EXCEPT ![crewOf[r]] = None]
    /\ UNCHANGED <<crews, status, ended, popped, tick, crewOf, cancelled, out,
                   busVars, runs, rel, audit>>

\* _agnosai_orch_finish_err hands the crew over, and only from PENDING.
Start(r) ==
    /\ pc[r] = "ready"
    /\ pc' = [pc EXCEPT ![r] = "running"]
    /\ LET st == Entry(crewOf[r]) IN
         status' = IF st # None /\ status[st] = "pending"
                     THEN [status EXCEPT ![st] = "running"] ELSE status
    /\ UNCHANGED <<crews, flag, ended, popped, tick, crewOf, cancelled, out,
                   busVars, runs, rel, audit>>

\* Wrong variant: a cancelled run waits for workers that never answer.
MayReturn_Uncancelled(r, o) == ~cancelled[r] /\ o # "cancelled"

\* What agnosai_crew_runner_run may answer.  A timeout, which outranks a cancel,
\* is a bare FAILED state; a cancel outranks the results; a DAG that is cyclic
\* or stuck answers no state.
MayReturn(r, o) ==
    \/ o \in {"failed", "error"}
    \/ o = "cancelled" /\ cancelled[r]
    \/ o = "completed" /\ ~cancelled[r]

\* The runner reads its flag for the last time and returns.
RunnerReturns(r) ==
    /\ pc[r] = "running"
    /\ pc' = [pc EXCEPT ![r] = "ran"]
    /\ \E o \in Outcomes :
         /\ MayReturn(r, o)
         /\ out' = [out EXCEPT ![r] = o]
    /\ UNCHANGED <<regVars, crewOf, cancelled, busVars, runs, rel, audit>>

\* Wrong variant: a run that errors queues nothing (2.2.3).
QueuesOnError_Never(st) == FALSE

\* A cancel that landed mid-run left the queueing to the run's finish.
QueuesOnError(st) == st # None /\ status[st] \in Finished

\* No state: put PENDING back, drop the flag, queue a crew cancelled mid-run.
FinishError(r) ==
    /\ pc[r] = "ran" /\ out[r] = "error"
    /\ pc' = [pc EXCEPT ![r] = "leaving"]
    /\ flag' = [flag EXCEPT ![crewOf[r]] = None]
    /\ LET st == Entry(crewOf[r]) IN
         /\ status' = IF st # None /\ status[st] = "running"
                        THEN [status EXCEPT ![st] = "pending"] ELSE status
         /\ IF QueuesOnError(st)
              THEN NoteEnded(st, crews) ELSE UNCHANGED <<ended, popped, tick>>
    /\ UNCHANGED <<crews, crewOf, cancelled, out, busVars, runs, rel, audit>>

\* A state: the trail says so before the registry does.
AuditFinished(r) ==
    /\ pc[r] = "ran" /\ out[r] # "error"
    /\ pc' = [pc EXCEPT ![r] = "audited"]
    /\ audit' = audit \cup {[event |-> "crew_finished", run |-> r]}
    /\ UNCHANGED <<regVars, crewOf, cancelled, out, busVars, runs, rel>>

\* The final state replaces the entry, the flag goes, the crew is queued.
StoreFinal(r) ==
    /\ pc[r] = "audited"
    /\ pc' = [pc EXCEPT ![r] = "stored"]
    /\ status' = [status EXCEPT ![EndState(r)] = out[r]]
    /\ crews' = [crews EXCEPT ![crewOf[r]] = EndState(r)]
    /\ flag' = [flag EXCEPT ![crewOf[r]] = None]
    /\ NoteEnded(EndState(r), crews')
    /\ UNCHANGED <<crewOf, cancelled, out, busVars, runs, rel, audit>>

\* Wrong variant: the final state is stored once more as the run leaves.
RemoveChannel_StoresAgain(r) ==
    /\ pc[r] = "stored"
    /\ pc' = [pc EXCEPT ![r] = "leaving"]
    /\ chan' = [chan EXCEPT ![crewOf[r]] = None]
    /\ crews' = [crews EXCEPT ![crewOf[r]] = EndState(r)]
    /\ NoteEnded(EndState(r), crews')
    /\ UNCHANGED <<flag, status, crewOf, cancelled, out, sender, runs, rel, audit>>

\* agnosai_event_bus_remove, after the lock: by id, whoever made the channel.
RemoveChannel(r) ==
    /\ pc[r] \in {"stored", "unstarted"}
    /\ pc' = [pc EXCEPT ![r] = "leaving"]
    /\ chan' = [chan EXCEPT ![crewOf[r]] = None]
    /\ UNCHANGED <<regVars, crewOf, cancelled, out, sender, runs, rel, audit>>

\* Wrong variant: a run may return before its channel is removed.
LeaveRun_EarlyReturn(r) ==
    /\ pc[r] \in {"stored", "leaving"}
    /\ pc' = [pc EXCEPT ![r] = "done"]
    /\ runs' = [runs EXCEPT ![crewOf[r]] = @ - 1]
    /\ UNCHANGED <<regVars, crewOf, cancelled, out, busVars, rel, audit>>

\* The run's last touch of the crew.
LeaveRun(r) ==
    /\ pc[r] = "leaving"
    /\ pc' = [pc EXCEPT ![r] = "done"]
    /\ runs' = [runs EXCEPT ![crewOf[r]] = @ - 1]
    /\ UNCHANGED <<regVars, crewOf, cancelled, out, busVars, rel, audit>>
-----------------------------------------------------------------------------
(* Callers: cancel, forget, release.  A call the code refuses changes      *)
(* nothing, so only the calls it accepts are actions.                      *)

\* Wrong variant: any registered crew is relabelled (2.1.5).
MayCancel_AnyCrew(c) == Registered(c)

\* The refusals of cancel_crew: an unknown id, a crew that has finished.
MayCancel(c) == Registered(c) /\ ~IsFinished(Entry(c))

\* Wrong variant: every cancelled crew is queued, its runner still at work.
QueuesOnCancel_Always(c) == TRUE

\* With no flag nothing is running the crew, so no finish will queue it.
QueuesOnCancel(c) == flag[c] = None

\* agnosai_orchestrator_cancel_crew: set the flag, mark the entry in place.
CancelCrew(c) ==
    /\ MayCancel(c)
    /\ cancelled' = IF flag[c] = None THEN cancelled
                    ELSE [cancelled EXCEPT ![flag[c]] = TRUE]
    /\ status' = [status EXCEPT ![Entry(c)] = "cancelled"]
    /\ IF QueuesOnCancel(c)
         THEN NoteEnded(Entry(c), crews) ELSE UNCHANGED <<ended, popped, tick>>
    /\ audit' = audit \cup {[event |-> "crew_cancelled", run |-> Entry(c).run]}
    /\ UNCHANGED <<crews, flag, pc, crewOf, out, busVars, runs, rel>>

\* Wrong variant: the status is tested, not the flag.
MayForget_ByStatus(c) == Registered(c) /\ IsFinished(Entry(c))

\* The refusals of forget_crew: an unknown id, a crew a runner holds.
MayForget(c) == Registered(c) /\ flag[c] = None

\* agnosai_orchestrator_forget_crew.
ForgetCrew(c) ==
    /\ MayForget(c)
    /\ crews' = [crews EXCEPT ![c] = None]
    /\ CompactEnded(ended, popped, crews')
    /\ UNCHANGED <<flag, status, tick, runVars, busVars, runs, rel, audit>>

\* Wrong variant: the flag is down, so the run must be over.
MayRelease_ByFlag(c) == flag[c] = None

\* release_crew refuses a held crew and waits for AGN_CREW_RUNS to reach 0.
MayRelease(c) == flag[c] = None /\ runs[c] = 0

\* The slots of _agnosai_orch_purge_ended_locked: those in the crew's arena.
InArena(c, st) == c \in ArenaCrews /\ crewOf[st.run] = c

\* agnosai_orchestrator_release_crew under the lock, once the count is 0.
ReleaseCrew(c) ==
    /\ c \in Disposable /\ rel[c] = "owned"
    /\ MayRelease(c)
    /\ rel' = [rel EXCEPT ![c] = "purged"]
    /\ crews' = [crews EXCEPT ![c] = None]
    /\ CompactEnded({e \in ended : ~InArena(c, e.st)}, popped, crews')
    /\ UNCHANGED <<flag, status, tick, runVars, busVars, runs, audit>>

ReleaseChannel(c) ==
    /\ rel[c] = "purged"
    /\ rel' = [rel EXCEPT ![c] = "closed"]
    /\ chan' = [chan EXCEPT ![c] = None]
    /\ UNCHANGED <<regVars, runVars, sender, runs, audit>>

\* agnosai_crew_arena_give_back: from here the arena is scrubbed and reused.
GiveBack(c) ==
    /\ rel[c] = "closed"
    /\ rel' = [rel EXCEPT ![c] = "released"]
    /\ UNCHANGED <<regVars, runVars, busVars, runs, audit>>
-----------------------------------------------------------------------------
RunStep(r) ==
    \/ Publish(r) \/ OpenChannel(r) \/ Abandon(r) \/ Start(r) \/ RunnerReturns(r)
    \/ FinishError(r) \/ AuditFinished(r) \/ StoreFinal(r) \/ RemoveChannel(r)
    \/ LeaveRun(r)

ReleaseStep(c) == ReleaseChannel(c) \/ GiveBack(c)

Caller(c) == CancelCrew(c) \/ ForgetCrew(c) \/ ReleaseCrew(c)

Next ==
    \/ \E r \in Runs, c \in Crews : Accept(r, c)
    \/ \E r \in Runs : RunStep(r)
    \/ \E c \in Crews : Caller(c) \/ ReleaseStep(c)

Spec == Init /\ [][Next]_vars

\* A run's thread keeps taking steps, and so does a thread inside release_crew.
Fairness ==
    /\ \A r \in Runs : WF_vars(RunStep(r))
    /\ \A c \in Crews : WF_vars(ReleaseStep(c))

LiveSpec == Spec /\ Fairness
-----------------------------------------------------------------------------
(* What the registry promises.                                             *)

\* Every variable has the type the code gives it.
TypeOK ==
    /\ crews \in [Crews -> States \cup {None}]
    /\ flag \in [Crews -> Runs \cup {None}]
    /\ status \in [States -> Status]
    /\ ended \subseteq Slots /\ IsFiniteSet(ended)
    /\ popped \in Nat
    /\ tick \in Nat
    /\ pc \in [Runs -> PC]
    /\ crewOf \in [Runs -> Crews \cup {None}]
    /\ cancelled \in [Runs -> BOOLEAN]
    /\ out \in [Runs -> Outcomes \cup {None}]
    /\ chan \in [Crews -> Runs \cup {None}]
    /\ sender \in [Runs -> Runs \cup {None}]
    /\ runs \in [Crews -> Nat]
    /\ rel \in [Crews -> {"owned", "purged", "closed", "released"}]
    /\ audit \subseteq [event : {"crew_accepted", "crew_finished", "crew_cancelled"},
                       run : Runs]

\* A crew a runner holds stays in the registry, under its own flag, from the
\* moment it is published until its run lets go: neither eviction nor
\* forget_crew takes it, whatever its status says (ADR 026).
HeldIsRegistered ==
    Reuse # "any" =>
      \A r \in Runs : pc[r] \in Held =>
        flag[crewOf[r]] = r /\ crews[crewOf[r]] = RegState(r)

\* A queued slot that is still some id's entry is a crew that has ended and
\* that no runner holds, so the eviction loop, which looks at nothing else,
\* can only take such a crew.  Stale slots of forgotten and re-run ids abound.
QueuedHasEnded ==
    \A e \in ended : IsCurrent(crews, e.st) =>
      IsFinished(e.st) /\ flag[crewOf[e.st.run]] = None

\* A registered crew that has ended and that no runner holds is queued, so it
\* can be evicted ("without this it could never be evicted", cancel_crew).  The
\* one exception is a crew cancelled before its thread failed to start.
EndedIsQueued ==
    \A c \in Crews :
      Registered(c) /\ flag[c] = None /\ IsFinished(Entry(c)) =>
        \/ \E e \in ended : e.st = Entry(c)
        \/ LET r == Entry(c).run IN
             SpawnMayFail /\ cancelled[r] /\ out[r] = None /\ ~Entry(c).final

\* The queue stays in proportion to the registry however many crews are run
\* and forgotten (_agnosai_orch_compact_ended_locked).
QueueBounded ==
    /\ Cardinality(ended) <= 2 * Size(crews) + QueueSlack
    /\ popped < PoppedMax

\* The queue serves eviction: it misses nothing and does not outgrow it.
QueueSound == EndedIsQueued /\ QueueBounded

\* Once an arena crew is given back nothing reaches into its arena: not the
\* registry, not a queued slot, not the event bus, and no run is in flight.
\* It holds even for overlapping runs of one spec (release_crew's comment).
NoDangling ==
    \A c \in ArenaCrews : rel[c] = "released" =>
      /\ crews[c] = None /\ flag[c] = None /\ chan[c] = None
      /\ ActiveRuns(c) = {}
      /\ \A e \in ended : crewOf[e.st.run] # c

\* A channel outlives its crew's runs only when one of them ended in error,
\* the arm of _agnosai_orch_finish_err that does not remove it.
ChannelHasOwner ==
    \A c \in Crews : chan[c] # None =>
      \E r \in Runs : /\ crewOf[r] = c
                      /\ pc[r] \in Active \/ out[r] = "error"

\* An evicted crew was the one that ended longest ago: every crew still queued
\* ended after it, and LowWater crews that no runner holds are left.
EvictionOrder ==
    \A c \in Crews, e \in ended :
      e.st = Entry(c) /\ crews'[c] = None /\ pc' # pc =>
        /\ Cardinality({d \in Crews : /\ Registered(d) /\ flag[d] = None
                                      /\ crews'[d] # None}) >= LowWater
        /\ \A f \in ended' : IsCurrent(crews', f.st) => f.pos > e.pos

EvictsOldestFirst == [][EvictionOrder]_vars

\* A crew that was evicted, forgotten or released comes back only by being
\* registered again: no runner stores its final state into an empty place.
NothingComesBack ==
    [][Reuse # "any" => \A c \in Crews :
         crews[c] = None /\ crews'[c] # None => ~crews'[c].final]_vars

\* What leaves the registry leaves in order and stays away.
Retention == EvictsOldestFirst /\ NothingComesBack

\* Every run that is accepted leaves, so AGN_CREW_RUNS drains and a caller
\* waiting in release_crew gets its turn.
RunEnds == \A r \in Runs : pc[r] = "accepted" ~> pc[r] = "done"

\* A crew a runner holds is let go: it can be forgotten in the end.
HoldEnds == \A c \in Crews : flag[c] # None ~> flag[c] = None

RunsEnd == RunEnds /\ HoldEnds

\* What a poller is shown and whether a runner holds the crew: the mapping to
\* the abstract lifecycle.
ShownOf(c) == IF crews[c] = None THEN "absent" ELSE status[crews[c]]

Lifecycle == INSTANCE CrewLifecycle WITH
    shown <- [c \in Crews |-> ShownOf(c)],
    held <- [c \in Crews |-> flag[c] # None]

\* The registry implements the lifecycle a poller is promised: a crew that has
\* ended and been let go is never relabelled, `running` goes back only to
\* `pending`, and only crews no runner holds disappear.
ImplementsLifecycle == Lifecycle!LSpec
=============================================================================
