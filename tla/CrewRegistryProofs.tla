------------------------- MODULE CrewRegistryProofs -------------------------
(***************************************************************************)
(* Theorems about CrewRegistry for every set of crews and runs, every pair *)
(* of retention marks and every way of reusing a spec.                     *)
(*                                                                         *)
(* QueuedHasEnded, HeldIsRegistered and NoDangling are not inductive on    *)
(* their own.  What is missing is who owns what: the entry, the slots, the *)
(* flag and the count of an id all belong to runs of that id, and a slot   *)
(* exists only once its state does.  IndInv adds that.                     *)
(*                                                                         *)
(* ServeInv, over IndInv, is about what eviction relies on: each state is  *)
(* queued once, in order, and a held crew's status goes with its run.      *)
(* From both follow the order of eviction, the bound on the queue and the  *)
(* refinement of CrewLifecycle.                                            *)
(***************************************************************************)
EXTENDS CrewRegistry, FiniteSetTheorems, TLAPS

\* A run knows its crew from the moment it is accepted.
RunsKnowCrew ==
    \A r \in Runs : IF pc[r] = "idle" THEN crewOf[r] = None ELSE crewOf[r] \in Crews

\* What a run that has an outcome is about to do with it.
OutcomeKnown ==
    \A r \in Runs : /\ pc[r] = "ran" => out[r] \in Outcomes
                    /\ pc[r] = "audited" => out[r] \in Finished

\* An id's entry was made by a run of that id.
EntryOwned ==
    \A c \in Crews : crews[c] # None => crewOf[crews[c].run] = c

\* An entry's state has been made: registered, and stored if it is a final one.
EntryMade ==
    \A c \in Crews : crews[c] # None =>
      /\ pc[crews[c].run] \notin {"idle", "accepted"}
      /\ crews[c].final => pc[crews[c].run] \in {"stored", "leaving", "done"}

\* A slot's state has been made: registered, and stored if it is a final one.
SlotMade ==
    \A e \in ended :
      /\ pc[e.st.run] \notin {"idle", "accepted"}
      /\ e.st.final => pc[e.st.run] \in {"stored", "leaving", "done"}

\* A published flag belongs to a run of that id that has not let go of it.
FlagOwned ==
    \A c \in Crews : flag[c] # None => crewOf[flag[c]] = c /\ pc[flag[c]] \in Held

\* AGN_CREW_RUNS counts the runs in flight.
RunsCounted ==
    \A c \in Crews : runs[c] = Cardinality(ActiveRuns(c))

\* From the purge on nothing is left of an arena crew but its channel.
GoneIsGone ==
    \A c \in Crews : rel[c] # "owned" =>
      /\ ActiveRuns(c) = {}
      /\ crews[c] = None /\ flag[c] = None
      /\ c \in ArenaCrews => \A e \in ended : crewOf[e.st.run] # c
      /\ rel[c] # "purged" => chan[c] = None

\* Without overlapping runs one run at a time is between accept and let go.
OneHolder ==
    Reuse # "any" =>
      \A r, s \in Runs : /\ pc[r] \in Holding /\ pc[s] \in Holding
                         /\ crewOf[r] = crewOf[s]
                         => r = s

IndInv ==
    /\ TypeOK /\ RunsKnowCrew /\ OutcomeKnown /\ EntryOwned
    /\ EntryMade /\ SlotMade
    /\ FlagOwned /\ RunsCounted /\ QueuedHasEnded /\ GoneIsGone
    /\ OneHolder /\ HeldIsRegistered
-----------------------------------------------------------------------------
\* A compaction keeps some of the slots of the queue it is given.
LEMMA CompactKeeps ==
  ASSUME NEW q, IsFiniteSet(q), NEW hd \in Nat, NEW m, CompactEnded(q, hd, m)
  PROVE  /\ ended' \subseteq q /\ IsFiniteSet(ended')
         /\ popped' \in Nat
  <1>1. ended' \subseteq q /\ popped' \in Nat
    BY DEF CompactEnded
  <1> QED BY <1>1, FS_Subset

\* Noting a state adds at most one slot, for that state.
LEMMA NoteKeeps ==
  ASSUME TypeOK, NEW st \in States, NEW m, NoteEnded(st, m)
  PROVE  /\ ended' \subseteq ended \cup {[pos |-> tick, st |-> st]}
         /\ ended' \subseteq Slots /\ IsFiniteSet(ended')
         /\ popped' \in Nat /\ tick' \in Nat
  <1> DEFINE q == ended \cup {[pos |-> tick, st |-> st]}
  <1>1. q \subseteq Slots /\ IsFiniteSet(ended) /\ popped \in Nat /\ tick \in Nat
    BY DEF TypeOK, Slots
  <1>2. IsFiniteSet(q)
    BY <1>1, FS_AddElement
  <1>3. CompactEnded(q, popped, m) /\ tick' = tick + 1
    BY DEF NoteEnded
  <1> HIDE DEF q
  <1>4. ended' \subseteq q /\ IsFiniteSet(ended') /\ popped' \in Nat
    BY <1>1, <1>2, <1>3, CompactKeeps
  <1> QED BY <1>1, <1>3, <1>4 DEF q

\* Making room keeps some of the slots.
LEMMA EvictKeeps ==
  ASSUME TypeOK, EvictQueue
  PROVE  ended' \subseteq ended /\ IsFiniteSet(ended') /\ popped' \in Nat
  <1>1. CASE Size(crews) < MaxRetained + Size(flag)
    BY <1>1 DEF EvictQueue, TypeOK
  <1>2. CASE ~(Size(crews) < MaxRetained + Size(flag))
    <2>1. CompactEnded(ended \ PoppedSlots, popped + Cardinality(PoppedSlots), AfterEviction)
      BY <1>2 DEF EvictQueue
    <2>2. PoppedSlots \subseteq ended
      BY <1>2 DEF PoppedSlots
    <2>3. IsFiniteSet(ended) /\ popped \in Nat
      BY DEF TypeOK
    <2>4. IsFiniteSet(ended \ PoppedSlots) /\ Cardinality(PoppedSlots) \in Nat
      BY <2>2, <2>3, FS_Subset, FS_CardinalityType
    <2>5. popped + Cardinality(PoppedSlots) \in Nat
      BY <2>3, <2>4
    <2> QED BY <2>1, <2>4, <2>5, CompactKeeps
  <1> QED BY <1>1, <1>2

\* A release drops the slots in the crew's arena and compacts the rest.
LEMMA ReleaseKeeps ==
  ASSUME TypeOK, NEW c \in Crews, ReleaseCrew(c)
  PROVE  /\ ended' \subseteq ended /\ IsFiniteSet(ended') /\ popped' \in Nat
         /\ \A e \in ended' : ~InArena(c, e.st)
  <1> DEFINE q == {e \in ended : ~InArena(c, e.st)}
  <1>1. q \subseteq ended /\ IsFiniteSet(q) /\ popped \in Nat
    BY FS_Subset DEF TypeOK
  <1>2. CompactEnded(q, popped, crews')
    BY DEF ReleaseCrew
  <1>3. \A e \in q : ~InArena(c, e.st)
    OBVIOUS
  <1> HIDE DEF q
  <1>4. ended' \subseteq q /\ IsFiniteSet(ended') /\ popped' \in Nat
    BY <1>1, <1>2, CompactKeeps
  <1> QED BY <1>1, <1>3, <1>4

\* Making room takes only entries no runner holds.
LEMMA EvictTakesEnded ==
  ASSUME TypeOK, QueuedHasEnded, NEW c \in Crews
  PROVE  /\ AfterEviction[c] \in {None, crews[c]}
         /\ flag[c] # None => AfterEviction[c] = crews[c]
  <1>1. PoppedSlots \subseteq ended
    BY DEF PoppedSlots
  <1>2. Evicted(c) => flag[c] = None
    BY <1>1 DEF Evicted, QueuedHasEnded
  <1> QED BY <1>2 DEF AfterEviction, Entry

\* The runs in flight are finitely many, and the count is not 0 while one is.
LEMMA CountPositive ==
  ASSUME RunsCounted, NEW c \in Crews
  PROVE  /\ IsFiniteSet(ActiveRuns(c)) /\ runs[c] \in Nat
         /\ runs[c] = 0 <=> ActiveRuns(c) = {}
         /\ \A r \in Runs : pc[r] \in Active /\ crewOf[r] = c => runs[c] # 0
  <1>1. IsFiniteSet(ActiveRuns(c))
    BY RunsAssumption, FS_Subset DEF ActiveRuns
  <1>2. runs[c] = 0 <=> ActiveRuns(c) = {}
    BY <1>1, FS_EmptySet DEF RunsCounted
  <1>3. runs[c] \in Nat
    BY <1>1, FS_CardinalityType DEF RunsCounted
  <1> QED BY <1>1, <1>2, <1>3 DEF ActiveRuns

\* Every step keeps the types.
LEMMA TypeStep ==
  ASSUME TypeOK, RunsKnowCrew, OutcomeKnown, RunsCounted, Next
  PROVE  TypeOK'
  <1> USE NoneAssumption DEF PC, Active, Holding, Held, Leaving, Status, Finished, Outcomes
  <1>1. ASSUME NEW r \in Runs, NEW c \in Crews, Accept(r, c) PROVE TypeOK'
    BY <1>1 DEF Accept, TypeOK, RunsKnowCrew, regVars, runVars, busVars
  <1>2. ASSUME NEW r \in Runs, Publish(r) PROVE TypeOK'
    <2>1. ended' \subseteq ended /\ IsFiniteSet(ended') /\ popped' \in Nat
      BY <1>2, EvictKeeps DEF Publish
    <2>2. AfterEviction \in [Crews -> States \cup {None}]
      BY DEF AfterEviction, Entry, TypeOK
    <2> QED
      BY <1>2, <2>1, <2>2 DEF Publish, TypeOK, RunsKnowCrew, States, RegState, busVars
  <1>3. ASSUME NEW r \in Runs, OpenChannel(r) PROVE TypeOK'
    BY <1>3 DEF OpenChannel, TypeOK, RunsKnowCrew, regVars, runVars, busVars
  <1>4. ASSUME NEW r \in Runs, Abandon(r) PROVE TypeOK'
    BY <1>4 DEF Abandon, TypeOK, RunsKnowCrew, regVars, runVars, busVars
  <1>5. ASSUME NEW r \in Runs, Start(r) PROVE TypeOK'
    BY <1>5 DEF Start, TypeOK, RunsKnowCrew, regVars, runVars, busVars
  <1>6. ASSUME NEW r \in Runs, RunnerReturns(r) PROVE TypeOK'
    BY <1>6 DEF RunnerReturns, TypeOK, RunsKnowCrew, regVars, runVars, busVars
  <1>7. ASSUME NEW r \in Runs, FinishError(r) PROVE TypeOK'
    <2>1. ended' \subseteq Slots /\ IsFiniteSet(ended') /\ popped' \in Nat /\ tick' \in Nat
      <3> DEFINE st == crews[crewOf[r]]
      <3>1. CASE QueuesOnError(st)
        BY <1>7, <3>1, NoteKeeps DEF FinishError, QueuesOnError, Entry, TypeOK, RunsKnowCrew
      <3>2. CASE ~QueuesOnError(st)
        BY <1>7, <3>2 DEF FinishError, Entry, TypeOK
      <3> QED BY <3>1, <3>2
    <2> QED
      BY <1>7, <2>1 DEF FinishError, TypeOK, RunsKnowCrew, busVars, Entry
  <1>8. ASSUME NEW r \in Runs, AuditFinished(r) PROVE TypeOK'
    BY <1>8 DEF AuditFinished, TypeOK, RunsKnowCrew, regVars, runVars, busVars
  <1>9. ASSUME NEW r \in Runs, StoreFinal(r) PROVE TypeOK'
    <2>1. EndState(r) \in States
      BY DEF EndState, States
    <2>2. ended' \subseteq Slots /\ IsFiniteSet(ended') /\ popped' \in Nat /\ tick' \in Nat
      BY <1>9, <2>1, NoteKeeps DEF StoreFinal
    <2> QED
      BY <1>9, <2>1, <2>2 DEF StoreFinal, TypeOK, OutcomeKnown, RunsKnowCrew, busVars
  <1>10. ASSUME NEW r \in Runs, RemoveChannel(r) PROVE TypeOK'
    BY <1>10 DEF RemoveChannel, TypeOK, RunsKnowCrew, regVars, runVars, busVars
  <1>11. ASSUME NEW r \in Runs, LeaveRun(r) PROVE TypeOK'
    <2>0. crewOf[r] \in Crews /\ pc[r] \in Active
      BY <1>11 DEF LeaveRun, RunsKnowCrew
    <2>1. runs[crewOf[r]] # 0
      <3> HIDE DEF Active
      <3> QED BY <2>0, CountPositive
    <2>2. runs[crewOf[r]] - 1 \in Nat
      BY <2>0, <2>1 DEF TypeOK
    <2>3. runs' \in [Crews -> Nat]
      BY <1>11, <2>0, <2>2 DEF LeaveRun, TypeOK
    <2> QED
      BY <1>11, <2>3 DEF LeaveRun, TypeOK, regVars, busVars
  <1>12. ASSUME NEW c \in Crews, CancelCrew(c) PROVE TypeOK'
    <2>0. Entry(c) \in States
      BY <1>12 DEF CancelCrew, MayCancel, Registered, Entry, TypeOK
    <2>1. ended' \subseteq Slots /\ IsFiniteSet(ended') /\ popped' \in Nat /\ tick' \in Nat
      <3>1. CASE QueuesOnCancel(c)
        BY <1>12, <2>0, <3>1, NoteKeeps DEF CancelCrew
      <3>2. CASE ~QueuesOnCancel(c)
        BY <1>12, <3>2 DEF CancelCrew, TypeOK
      <3> QED BY <3>1, <3>2
    <2>2. Entry(c).run \in Runs
      BY <2>0 DEF States
    <2> QED
      BY <1>12, <2>0, <2>1, <2>2 DEF CancelCrew, TypeOK, busVars
  <1>13. ASSUME NEW c \in Crews, ForgetCrew(c) PROVE TypeOK'
    <2>1. ended' \subseteq ended /\ IsFiniteSet(ended') /\ popped' \in Nat
      BY <1>13, CompactKeeps DEF ForgetCrew, TypeOK
    <2> QED
      BY <1>13, <2>1 DEF ForgetCrew, TypeOK, runVars, busVars
  <1>14. ASSUME NEW c \in Crews, ReleaseCrew(c) PROVE TypeOK'
    <2>1. ended' \subseteq ended /\ IsFiniteSet(ended') /\ popped' \in Nat
      BY <1>14, ReleaseKeeps
    <2> QED
      BY <1>14, <2>1 DEF ReleaseCrew, TypeOK, runVars, busVars
  <1>15. ASSUME NEW c \in Crews, ReleaseChannel(c) PROVE TypeOK'
    BY <1>15 DEF ReleaseChannel, TypeOK, RunsKnowCrew, regVars, runVars, busVars
  <1>16. ASSUME NEW c \in Crews, GiveBack(c) PROVE TypeOK'
    BY <1>16 DEF GiveBack, TypeOK, RunsKnowCrew, regVars, runVars, busVars
  <1> QED
    BY <1>1, <1>2, <1>3, <1>4, <1>5, <1>6, <1>7, <1>8,
        <1>9, <1>10, <1>11, <1>12, <1>13, <1>14, <1>15, <1>16
    DEF Next, RunStep, Caller, ReleaseStep

\* Every step keeps what a run knows.
LEMMA KnowCrewStep ==
  ASSUME TypeOK, RunsKnowCrew, Next
  PROVE  RunsKnowCrew'
  <1> USE NoneAssumption DEF PC, Active, Holding, Held, Leaving, Finished, Outcomes
  <1>1. ASSUME NEW r \in Runs, NEW c \in Crews, Accept(r, c) PROVE RunsKnowCrew'
    BY <1>1 DEF Accept, TypeOK, RunsKnowCrew, regVars, runVars, busVars
  <1>2. ASSUME NEW r \in Runs, Publish(r) PROVE RunsKnowCrew'
    BY <1>2 DEF Publish, TypeOK, RunsKnowCrew, regVars, runVars, busVars
  <1>3. ASSUME NEW r \in Runs, OpenChannel(r) PROVE RunsKnowCrew'
    BY <1>3 DEF OpenChannel, TypeOK, RunsKnowCrew, regVars, runVars, busVars
  <1>4. ASSUME NEW r \in Runs, Abandon(r) PROVE RunsKnowCrew'
    BY <1>4 DEF Abandon, TypeOK, RunsKnowCrew, regVars, runVars, busVars
  <1>5. ASSUME NEW r \in Runs, Start(r) PROVE RunsKnowCrew'
    BY <1>5 DEF Start, TypeOK, RunsKnowCrew, regVars, runVars, busVars
  <1>6. ASSUME NEW r \in Runs, RunnerReturns(r) PROVE RunsKnowCrew'
    BY <1>6 DEF RunnerReturns, TypeOK, RunsKnowCrew, regVars, runVars, busVars
  <1>7. ASSUME NEW r \in Runs, FinishError(r) PROVE RunsKnowCrew'
    BY <1>7 DEF FinishError, TypeOK, RunsKnowCrew, regVars, runVars, busVars
  <1>8. ASSUME NEW r \in Runs, AuditFinished(r) PROVE RunsKnowCrew'
    BY <1>8 DEF AuditFinished, TypeOK, RunsKnowCrew, regVars, runVars, busVars
  <1>9. ASSUME NEW r \in Runs, StoreFinal(r) PROVE RunsKnowCrew'
    BY <1>9 DEF StoreFinal, TypeOK, RunsKnowCrew, regVars, runVars, busVars
  <1>10. ASSUME NEW r \in Runs, RemoveChannel(r) PROVE RunsKnowCrew'
    BY <1>10 DEF RemoveChannel, TypeOK, RunsKnowCrew, regVars, runVars, busVars
  <1>11. ASSUME NEW r \in Runs, LeaveRun(r) PROVE RunsKnowCrew'
    BY <1>11 DEF LeaveRun, TypeOK, RunsKnowCrew, regVars, runVars, busVars
  <1>12. ASSUME NEW c \in Crews, CancelCrew(c) PROVE RunsKnowCrew'
    BY <1>12 DEF CancelCrew, TypeOK, RunsKnowCrew, regVars, runVars, busVars
  <1>13. ASSUME NEW c \in Crews, ForgetCrew(c) PROVE RunsKnowCrew'
    BY <1>13 DEF ForgetCrew, TypeOK, RunsKnowCrew, regVars, runVars, busVars
  <1>14. ASSUME NEW c \in Crews, ReleaseCrew(c) PROVE RunsKnowCrew'
    BY <1>14 DEF ReleaseCrew, TypeOK, RunsKnowCrew, regVars, runVars, busVars
  <1>15. ASSUME NEW c \in Crews, ReleaseChannel(c) PROVE RunsKnowCrew'
    BY <1>15 DEF ReleaseChannel, TypeOK, RunsKnowCrew, regVars, runVars, busVars
  <1>16. ASSUME NEW c \in Crews, GiveBack(c) PROVE RunsKnowCrew'
    BY <1>16 DEF GiveBack, TypeOK, RunsKnowCrew, regVars, runVars, busVars
  <1> QED
    BY <1>1, <1>2, <1>3, <1>4, <1>5, <1>6, <1>7, <1>8,
        <1>9, <1>10, <1>11, <1>12, <1>13, <1>14, <1>15, <1>16
    DEF Next, RunStep, Caller, ReleaseStep

\* Every step keeps the outcomes.
LEMMA OutcomeStep ==
  ASSUME TypeOK, OutcomeKnown, Next
  PROVE  OutcomeKnown'
  <1> USE NoneAssumption DEF PC, Active, Holding, Held, Leaving, Finished, Outcomes
  <1>1. ASSUME NEW r \in Runs, NEW c \in Crews, Accept(r, c) PROVE OutcomeKnown'
    BY <1>1 DEF Accept, TypeOK, OutcomeKnown, regVars, runVars, busVars
  <1>2. ASSUME NEW r \in Runs, Publish(r) PROVE OutcomeKnown'
    BY <1>2 DEF Publish, TypeOK, OutcomeKnown, regVars, runVars, busVars
  <1>3. ASSUME NEW r \in Runs, OpenChannel(r) PROVE OutcomeKnown'
    BY <1>3 DEF OpenChannel, TypeOK, OutcomeKnown, regVars, runVars, busVars
  <1>4. ASSUME NEW r \in Runs, Abandon(r) PROVE OutcomeKnown'
    BY <1>4 DEF Abandon, TypeOK, OutcomeKnown, regVars, runVars, busVars
  <1>5. ASSUME NEW r \in Runs, Start(r) PROVE OutcomeKnown'
    BY <1>5 DEF Start, TypeOK, OutcomeKnown, regVars, runVars, busVars
  <1>6. ASSUME NEW r \in Runs, RunnerReturns(r) PROVE OutcomeKnown'
    BY <1>6 DEF RunnerReturns, TypeOK, OutcomeKnown, regVars, runVars, busVars
  <1>7. ASSUME NEW r \in Runs, FinishError(r) PROVE OutcomeKnown'
    BY <1>7 DEF FinishError, TypeOK, OutcomeKnown, regVars, runVars, busVars
  <1>8. ASSUME NEW r \in Runs, AuditFinished(r) PROVE OutcomeKnown'
    BY <1>8 DEF AuditFinished, TypeOK, OutcomeKnown, regVars, runVars, busVars
  <1>9. ASSUME NEW r \in Runs, StoreFinal(r) PROVE OutcomeKnown'
    BY <1>9 DEF StoreFinal, TypeOK, OutcomeKnown, regVars, runVars, busVars
  <1>10. ASSUME NEW r \in Runs, RemoveChannel(r) PROVE OutcomeKnown'
    BY <1>10 DEF RemoveChannel, TypeOK, OutcomeKnown, regVars, runVars, busVars
  <1>11. ASSUME NEW r \in Runs, LeaveRun(r) PROVE OutcomeKnown'
    BY <1>11 DEF LeaveRun, TypeOK, OutcomeKnown, regVars, runVars, busVars
  <1>12. ASSUME NEW c \in Crews, CancelCrew(c) PROVE OutcomeKnown'
    BY <1>12 DEF CancelCrew, TypeOK, OutcomeKnown, regVars, runVars, busVars
  <1>13. ASSUME NEW c \in Crews, ForgetCrew(c) PROVE OutcomeKnown'
    BY <1>13 DEF ForgetCrew, TypeOK, OutcomeKnown, regVars, runVars, busVars
  <1>14. ASSUME NEW c \in Crews, ReleaseCrew(c) PROVE OutcomeKnown'
    BY <1>14 DEF ReleaseCrew, TypeOK, OutcomeKnown, regVars, runVars, busVars
  <1>15. ASSUME NEW c \in Crews, ReleaseChannel(c) PROVE OutcomeKnown'
    BY <1>15 DEF ReleaseChannel, TypeOK, OutcomeKnown, regVars, runVars, busVars
  <1>16. ASSUME NEW c \in Crews, GiveBack(c) PROVE OutcomeKnown'
    BY <1>16 DEF GiveBack, TypeOK, OutcomeKnown, regVars, runVars, busVars
  <1> QED
    BY <1>1, <1>2, <1>3, <1>4, <1>5, <1>6, <1>7, <1>8,
        <1>9, <1>10, <1>11, <1>12, <1>13, <1>14, <1>15, <1>16
    DEF Next, RunStep, Caller, ReleaseStep

\* Every step keeps entries with the runs that made them.
LEMMA EntryStep ==
  ASSUME TypeOK, RunsKnowCrew, EntryOwned, QueuedHasEnded, Next
  PROVE  EntryOwned'
  <1> USE NoneAssumption DEF PC, Active, Holding, Held, Leaving, Finished, Outcomes
  <1>1. ASSUME NEW r \in Runs, NEW c \in Crews, Accept(r, c) PROVE EntryOwned'
    BY <1>1 DEF Accept, TypeOK, EntryOwned, RunsKnowCrew, States, RegState, EndState, regVars, runVars, busVars
  <1>2. ASSUME NEW r \in Runs, Publish(r) PROVE EntryOwned'
    <2>1. \A c \in Crews : AfterEviction[c] \in {None, crews[c]}
      BY EvictTakesEnded
    <2>2. AfterEviction \in [Crews -> States \cup {None}]
      BY DEF AfterEviction, Entry, TypeOK
    <2> QED
      BY <1>2, <2>1, <2>2 DEF Publish, TypeOK, EntryOwned, RunsKnowCrew, States, RegState
  <1>3. ASSUME NEW r \in Runs, OpenChannel(r) PROVE EntryOwned'
    BY <1>3 DEF OpenChannel, TypeOK, EntryOwned, RunsKnowCrew, States, RegState, EndState, regVars, runVars, busVars
  <1>4. ASSUME NEW r \in Runs, Abandon(r) PROVE EntryOwned'
    BY <1>4 DEF Abandon, TypeOK, EntryOwned, RunsKnowCrew, States, RegState, EndState, regVars, runVars, busVars
  <1>5. ASSUME NEW r \in Runs, Start(r) PROVE EntryOwned'
    BY <1>5 DEF Start, TypeOK, EntryOwned, RunsKnowCrew, States, RegState, EndState, regVars, runVars, busVars
  <1>6. ASSUME NEW r \in Runs, RunnerReturns(r) PROVE EntryOwned'
    BY <1>6 DEF RunnerReturns, TypeOK, EntryOwned, RunsKnowCrew, States, RegState, EndState, regVars, runVars, busVars
  <1>7. ASSUME NEW r \in Runs, FinishError(r) PROVE EntryOwned'
    BY <1>7 DEF FinishError, TypeOK, EntryOwned, RunsKnowCrew, States, RegState, EndState, regVars, runVars, busVars
  <1>8. ASSUME NEW r \in Runs, AuditFinished(r) PROVE EntryOwned'
    BY <1>8 DEF AuditFinished, TypeOK, EntryOwned, RunsKnowCrew, States, RegState, EndState, regVars, runVars, busVars
  <1>9. ASSUME NEW r \in Runs, StoreFinal(r) PROVE EntryOwned'
    BY <1>9 DEF StoreFinal, TypeOK, EntryOwned, RunsKnowCrew, States, RegState, EndState, regVars, runVars, busVars
  <1>10. ASSUME NEW r \in Runs, RemoveChannel(r) PROVE EntryOwned'
    BY <1>10 DEF RemoveChannel, TypeOK, EntryOwned, RunsKnowCrew, States, RegState, EndState, regVars, runVars, busVars
  <1>11. ASSUME NEW r \in Runs, LeaveRun(r) PROVE EntryOwned'
    BY <1>11 DEF LeaveRun, TypeOK, EntryOwned, RunsKnowCrew, States, RegState, EndState, regVars, runVars, busVars
  <1>12. ASSUME NEW c \in Crews, CancelCrew(c) PROVE EntryOwned'
    BY <1>12 DEF CancelCrew, TypeOK, EntryOwned, RunsKnowCrew, States, RegState, EndState, regVars, runVars, busVars
  <1>13. ASSUME NEW c \in Crews, ForgetCrew(c) PROVE EntryOwned'
    BY <1>13 DEF ForgetCrew, TypeOK, EntryOwned, RunsKnowCrew, States, RegState, EndState, regVars, runVars, busVars
  <1>14. ASSUME NEW c \in Crews, ReleaseCrew(c) PROVE EntryOwned'
    BY <1>14 DEF ReleaseCrew, TypeOK, EntryOwned, RunsKnowCrew, States, RegState, EndState, regVars, runVars, busVars
  <1>15. ASSUME NEW c \in Crews, ReleaseChannel(c) PROVE EntryOwned'
    BY <1>15 DEF ReleaseChannel, TypeOK, EntryOwned, RunsKnowCrew, States, RegState, EndState, regVars, runVars, busVars
  <1>16. ASSUME NEW c \in Crews, GiveBack(c) PROVE EntryOwned'
    BY <1>16 DEF GiveBack, TypeOK, EntryOwned, RunsKnowCrew, States, RegState, EndState, regVars, runVars, busVars
  <1> QED
    BY <1>1, <1>2, <1>3, <1>4, <1>5, <1>6, <1>7, <1>8,
        <1>9, <1>10, <1>11, <1>12, <1>13, <1>14, <1>15, <1>16
    DEF Next, RunStep, Caller, ReleaseStep

\* Every step keeps flags with the runs that hold them.
LEMMA FlagStep ==
  ASSUME TypeOK, RunsKnowCrew, FlagOwned, Next
  PROVE  FlagOwned'
  <1> USE NoneAssumption DEF PC, Active, Holding, Held, Leaving, Finished, Outcomes
  <1>1. ASSUME NEW r \in Runs, NEW c \in Crews, Accept(r, c) PROVE FlagOwned'
    BY <1>1 DEF Accept, TypeOK, FlagOwned, RunsKnowCrew, regVars, runVars, busVars
  <1>2. ASSUME NEW r \in Runs, Publish(r) PROVE FlagOwned'
    BY <1>2 DEF Publish, TypeOK, FlagOwned, RunsKnowCrew, regVars, runVars, busVars
  <1>3. ASSUME NEW r \in Runs, OpenChannel(r) PROVE FlagOwned'
    BY <1>3 DEF OpenChannel, TypeOK, FlagOwned, RunsKnowCrew, regVars, runVars, busVars
  <1>4. ASSUME NEW r \in Runs, Abandon(r) PROVE FlagOwned'
    BY <1>4 DEF Abandon, TypeOK, FlagOwned, RunsKnowCrew, regVars, runVars, busVars
  <1>5. ASSUME NEW r \in Runs, Start(r) PROVE FlagOwned'
    BY <1>5 DEF Start, TypeOK, FlagOwned, RunsKnowCrew, regVars, runVars, busVars
  <1>6. ASSUME NEW r \in Runs, RunnerReturns(r) PROVE FlagOwned'
    BY <1>6 DEF RunnerReturns, TypeOK, FlagOwned, RunsKnowCrew, regVars, runVars, busVars
  <1>7. ASSUME NEW r \in Runs, FinishError(r) PROVE FlagOwned'
    BY <1>7 DEF FinishError, TypeOK, FlagOwned, RunsKnowCrew, regVars, runVars, busVars
  <1>8. ASSUME NEW r \in Runs, AuditFinished(r) PROVE FlagOwned'
    BY <1>8 DEF AuditFinished, TypeOK, FlagOwned, RunsKnowCrew, regVars, runVars, busVars
  <1>9. ASSUME NEW r \in Runs, StoreFinal(r) PROVE FlagOwned'
    BY <1>9 DEF StoreFinal, TypeOK, FlagOwned, RunsKnowCrew, regVars, runVars, busVars
  <1>10. ASSUME NEW r \in Runs, RemoveChannel(r) PROVE FlagOwned'
    BY <1>10 DEF RemoveChannel, TypeOK, FlagOwned, RunsKnowCrew, regVars, runVars, busVars
  <1>11. ASSUME NEW r \in Runs, LeaveRun(r) PROVE FlagOwned'
    BY <1>11 DEF LeaveRun, TypeOK, FlagOwned, RunsKnowCrew, regVars, runVars, busVars
  <1>12. ASSUME NEW c \in Crews, CancelCrew(c) PROVE FlagOwned'
    BY <1>12 DEF CancelCrew, TypeOK, FlagOwned, RunsKnowCrew, regVars, runVars, busVars
  <1>13. ASSUME NEW c \in Crews, ForgetCrew(c) PROVE FlagOwned'
    BY <1>13 DEF ForgetCrew, TypeOK, FlagOwned, RunsKnowCrew, regVars, runVars, busVars
  <1>14. ASSUME NEW c \in Crews, ReleaseCrew(c) PROVE FlagOwned'
    BY <1>14 DEF ReleaseCrew, TypeOK, FlagOwned, RunsKnowCrew, regVars, runVars, busVars
  <1>15. ASSUME NEW c \in Crews, ReleaseChannel(c) PROVE FlagOwned'
    BY <1>15 DEF ReleaseChannel, TypeOK, FlagOwned, RunsKnowCrew, regVars, runVars, busVars
  <1>16. ASSUME NEW c \in Crews, GiveBack(c) PROVE FlagOwned'
    BY <1>16 DEF GiveBack, TypeOK, FlagOwned, RunsKnowCrew, regVars, runVars, busVars
  <1> QED
    BY <1>1, <1>2, <1>3, <1>4, <1>5, <1>6, <1>7, <1>8,
        <1>9, <1>10, <1>11, <1>12, <1>13, <1>14, <1>15, <1>16
    DEF Next, RunStep, Caller, ReleaseStep

\* Every step keeps entries pointing at states that have been made.
LEMMA EntryMadeStep ==
  ASSUME TypeOK, RunsKnowCrew, EntryMade, QueuedHasEnded, Next
  PROVE  EntryMade'
  <1> USE NoneAssumption DEF PC, Active, Holding, Held, Leaving, Finished, Outcomes
  <1>1. ASSUME NEW r \in Runs, NEW c \in Crews, Accept(r, c) PROVE EntryMade'
    BY <1>1 DEF Accept, TypeOK, EntryMade, RunsKnowCrew, States, RegState, EndState, regVars, runVars, busVars
  <1>2. ASSUME NEW r \in Runs, Publish(r) PROVE EntryMade'
    <2>1. \A c \in Crews : AfterEviction[c] \in {None, crews[c]}
      BY EvictTakesEnded
    <2>2. AfterEviction \in [Crews -> States \cup {None}]
      BY DEF AfterEviction, Entry, TypeOK
    <2> QED
      BY <1>2, <2>1, <2>2 DEF Publish, TypeOK, EntryMade, RunsKnowCrew, States, RegState
  <1>3. ASSUME NEW r \in Runs, OpenChannel(r) PROVE EntryMade'
    BY <1>3 DEF OpenChannel, TypeOK, EntryMade, RunsKnowCrew, States, RegState, EndState, regVars, runVars, busVars
  <1>4. ASSUME NEW r \in Runs, Abandon(r) PROVE EntryMade'
    BY <1>4 DEF Abandon, TypeOK, EntryMade, RunsKnowCrew, States, RegState, EndState, regVars, runVars, busVars
  <1>5. ASSUME NEW r \in Runs, Start(r) PROVE EntryMade'
    BY <1>5 DEF Start, TypeOK, EntryMade, RunsKnowCrew, States, RegState, EndState, regVars, runVars, busVars
  <1>6. ASSUME NEW r \in Runs, RunnerReturns(r) PROVE EntryMade'
    BY <1>6 DEF RunnerReturns, TypeOK, EntryMade, RunsKnowCrew, States, RegState, EndState, regVars, runVars, busVars
  <1>7. ASSUME NEW r \in Runs, FinishError(r) PROVE EntryMade'
    BY <1>7 DEF FinishError, TypeOK, EntryMade, RunsKnowCrew, States, RegState, EndState, regVars, runVars, busVars
  <1>8. ASSUME NEW r \in Runs, AuditFinished(r) PROVE EntryMade'
    BY <1>8 DEF AuditFinished, TypeOK, EntryMade, RunsKnowCrew, States, RegState, EndState, regVars, runVars, busVars
  <1>9. ASSUME NEW r \in Runs, StoreFinal(r) PROVE EntryMade'
    BY <1>9 DEF StoreFinal, TypeOK, EntryMade, RunsKnowCrew, States, RegState, EndState, regVars, runVars, busVars
  <1>10. ASSUME NEW r \in Runs, RemoveChannel(r) PROVE EntryMade'
    BY <1>10 DEF RemoveChannel, TypeOK, EntryMade, RunsKnowCrew, States, RegState, EndState, regVars, runVars, busVars
  <1>11. ASSUME NEW r \in Runs, LeaveRun(r) PROVE EntryMade'
    BY <1>11 DEF LeaveRun, TypeOK, EntryMade, RunsKnowCrew, States, RegState, EndState, regVars, runVars, busVars
  <1>12. ASSUME NEW c \in Crews, CancelCrew(c) PROVE EntryMade'
    BY <1>12 DEF CancelCrew, TypeOK, EntryMade, RunsKnowCrew, States, RegState, EndState, regVars, runVars, busVars
  <1>13. ASSUME NEW c \in Crews, ForgetCrew(c) PROVE EntryMade'
    BY <1>13 DEF ForgetCrew, TypeOK, EntryMade, RunsKnowCrew, States, RegState, EndState, regVars, runVars, busVars
  <1>14. ASSUME NEW c \in Crews, ReleaseCrew(c) PROVE EntryMade'
    BY <1>14 DEF ReleaseCrew, TypeOK, EntryMade, RunsKnowCrew, States, RegState, EndState, regVars, runVars, busVars
  <1>15. ASSUME NEW c \in Crews, ReleaseChannel(c) PROVE EntryMade'
    BY <1>15 DEF ReleaseChannel, TypeOK, EntryMade, RunsKnowCrew, States, RegState, EndState, regVars, runVars, busVars
  <1>16. ASSUME NEW c \in Crews, GiveBack(c) PROVE EntryMade'
    BY <1>16 DEF GiveBack, TypeOK, EntryMade, RunsKnowCrew, States, RegState, EndState, regVars, runVars, busVars
  <1> QED
    BY <1>1, <1>2, <1>3, <1>4, <1>5, <1>6, <1>7, <1>8,
        <1>9, <1>10, <1>11, <1>12, <1>13, <1>14, <1>15, <1>16
    DEF Next, RunStep, Caller, ReleaseStep

\* Every step keeps slots pointing at states that have been made.
LEMMA SlotStep ==
  ASSUME TypeOK, RunsKnowCrew, EntryMade, SlotMade, Next
  PROVE  SlotMade'
  <1> USE NoneAssumption DEF PC, Active, Holding, Held, Leaving, Finished, Outcomes
  <1>1. ASSUME NEW r \in Runs, NEW c \in Crews, Accept(r, c) PROVE SlotMade'
    BY <1>1 DEF Accept, TypeOK, SlotMade, Slots, States, regVars, runVars, busVars
  <1>2. ASSUME NEW r \in Runs, Publish(r) PROVE SlotMade'
    <2>1. ended' \subseteq ended
      BY <1>2, EvictKeeps DEF Publish
    <2> QED
      BY <1>2, <2>1 DEF Publish, SlotMade, TypeOK, Slots, States
  <1>3. ASSUME NEW r \in Runs, OpenChannel(r) PROVE SlotMade'
    BY <1>3 DEF OpenChannel, TypeOK, SlotMade, Slots, States, regVars, runVars, busVars
  <1>4. ASSUME NEW r \in Runs, Abandon(r) PROVE SlotMade'
    BY <1>4 DEF Abandon, TypeOK, SlotMade, Slots, States, regVars, runVars, busVars
  <1>5. ASSUME NEW r \in Runs, Start(r) PROVE SlotMade'
    BY <1>5 DEF Start, TypeOK, SlotMade, Slots, States, regVars, runVars, busVars
  <1>6. ASSUME NEW r \in Runs, RunnerReturns(r) PROVE SlotMade'
    BY <1>6 DEF RunnerReturns, TypeOK, SlotMade, Slots, States, regVars, runVars, busVars
  <1>7. ASSUME NEW r \in Runs, FinishError(r) PROVE SlotMade'
    <2>1. \A e \in ended' :
            e \in ended \/ (e.st = crews[crewOf[r]] /\ crews[crewOf[r]] # None)
      <3>1. CASE QueuesOnError(crews[crewOf[r]])
        BY <1>7, <3>1, NoteKeeps DEF FinishError, QueuesOnError, Entry, TypeOK, RunsKnowCrew
      <3>2. CASE ~QueuesOnError(crews[crewOf[r]])
        BY <1>7, <3>2 DEF FinishError, Entry
      <3> QED BY <3>1, <3>2
    <2> QED
      <3> SUFFICES ASSUME NEW e \in ended'
                   PROVE  SlotMade!(e)'
        BY DEF SlotMade
      <3>1. pc' = [pc EXCEPT ![r] = "leaving"] /\ pc[r] = "ran" /\ crewOf[r] \in Crews
        BY <1>7 DEF FinishError, RunsKnowCrew
      <3>2. CASE e \in ended
        BY <3>1, <3>2 DEF SlotMade, TypeOK, Slots, States
      <3>3. CASE e.st = crews[crewOf[r]] /\ crews[crewOf[r]] # None
        BY <3>1, <3>3 DEF EntryMade, TypeOK, Slots, States
      <3> QED BY <2>1, <3>2, <3>3
  <1>8. ASSUME NEW r \in Runs, AuditFinished(r) PROVE SlotMade'
    BY <1>8 DEF AuditFinished, TypeOK, SlotMade, Slots, States, regVars, runVars, busVars
  <1>9. ASSUME NEW r \in Runs, StoreFinal(r) PROVE SlotMade'
    <2>1. EndState(r) \in States
      BY DEF EndState, States
    <2>2. \A e \in ended' : e \in ended \/ e.st = EndState(r)
      BY <1>9, <2>1, NoteKeeps DEF StoreFinal
    <2> QED
      BY <1>9, <2>2 DEF StoreFinal, SlotMade, TypeOK, Slots, States, EndState
  <1>10. ASSUME NEW r \in Runs, RemoveChannel(r) PROVE SlotMade'
    BY <1>10 DEF RemoveChannel, TypeOK, SlotMade, Slots, States, regVars, runVars, busVars
  <1>11. ASSUME NEW r \in Runs, LeaveRun(r) PROVE SlotMade'
    BY <1>11 DEF LeaveRun, TypeOK, SlotMade, Slots, States, regVars, runVars, busVars
  <1>12. ASSUME NEW c \in Crews, CancelCrew(c) PROVE SlotMade'
    <2>1. Entry(c) \in States /\ Entry(c) = crews[c] /\ crews[c] # None
      BY <1>12 DEF CancelCrew, MayCancel, Registered, Entry, TypeOK
    <2>2. \A e \in ended' : e \in ended \/ e.st = crews[c]
      <3>1. CASE QueuesOnCancel(c)
        BY <1>12, <2>1, <3>1, NoteKeeps DEF CancelCrew
      <3>2. CASE ~QueuesOnCancel(c)
        BY <1>12, <3>2 DEF CancelCrew
      <3> QED BY <3>1, <3>2
    <2> QED
      BY <1>12, <2>1, <2>2 DEF CancelCrew, SlotMade, EntryMade
  <1>13. ASSUME NEW c \in Crews, ForgetCrew(c) PROVE SlotMade'
    <2>1. ended' \subseteq ended
      BY <1>13, CompactKeeps DEF ForgetCrew, TypeOK
    <2> QED
      BY <1>13, <2>1 DEF ForgetCrew, SlotMade, TypeOK, Slots, States, runVars
  <1>14. ASSUME NEW c \in Crews, ReleaseCrew(c) PROVE SlotMade'
    <2>1. ended' \subseteq ended
      BY <1>14, ReleaseKeeps
    <2> QED
      BY <1>14, <2>1 DEF ReleaseCrew, SlotMade, TypeOK, Slots, States, runVars
  <1>15. ASSUME NEW c \in Crews, ReleaseChannel(c) PROVE SlotMade'
    BY <1>15 DEF ReleaseChannel, TypeOK, SlotMade, Slots, States, regVars, runVars, busVars
  <1>16. ASSUME NEW c \in Crews, GiveBack(c) PROVE SlotMade'
    BY <1>16 DEF GiveBack, TypeOK, SlotMade, Slots, States, regVars, runVars, busVars
  <1> QED
    BY <1>1, <1>2, <1>3, <1>4, <1>5, <1>6, <1>7, <1>8,
        <1>9, <1>10, <1>11, <1>12, <1>13, <1>14, <1>15, <1>16
    DEF Next, RunStep, Caller, ReleaseStep

\* A step that starts and ends no run keeps the count.
LEMMA SameCount ==
  ASSUME RunsCounted, runs' = runs,
         \A r \in Runs : /\ crewOf'[r] = crewOf[r]
                         /\ pc'[r] \in Active <=> pc[r] \in Active
  PROVE  RunsCounted'
  <1>1. \A c \in Crews : ActiveRuns(c)' = ActiveRuns(c)
    BY DEF ActiveRuns
  <1> QED BY <1>1 DEF RunsCounted

\* Every step keeps the count of the runs in flight.
LEMMA CountStep ==
  ASSUME TypeOK, RunsKnowCrew, RunsCounted, Next
  PROVE  RunsCounted'
  <1> USE NoneAssumption DEF PC, Active, Holding, Held, Leaving, Finished, Outcomes
  <1>1. ASSUME NEW r \in Runs, NEW c \in Crews, Accept(r, c) PROVE RunsCounted'
    <2>1. /\ c \in Crews /\ crewOf' = [crewOf EXCEPT ![r] = c]
          /\ pc[r] = "idle" /\ pc' = [pc EXCEPT ![r] = "accepted"]
          /\ runs' = [runs EXCEPT ![c] = runs[c] + 1]
          /\ crewOf[r] = None
      BY <1>1 DEF Accept, RunsKnowCrew
    <2>2. \A d \in Crews : ActiveRuns(d)' = IF d = c THEN ActiveRuns(d) \cup {r}
                                                     ELSE ActiveRuns(d)
      BY <2>1 DEF ActiveRuns, TypeOK
    <2>3. r \notin ActiveRuns(c) /\ IsFiniteSet(ActiveRuns(c))
      BY <2>1, CountPositive DEF ActiveRuns
    <2>4. Cardinality(ActiveRuns(c) \cup {r}) = Cardinality(ActiveRuns(c)) + 1
      BY <2>3, FS_AddElement
    <2> QED
      BY <2>1, <2>2, <2>4 DEF RunsCounted, TypeOK
  <1>2. ASSUME NEW r \in Runs, Publish(r) PROVE RunsCounted'
    BY <1>2, SameCount DEF Publish, TypeOK, RunsKnowCrew, regVars, runVars, busVars
  <1>3. ASSUME NEW r \in Runs, OpenChannel(r) PROVE RunsCounted'
    BY <1>3, SameCount DEF OpenChannel, TypeOK, RunsKnowCrew, regVars, runVars, busVars
  <1>4. ASSUME NEW r \in Runs, Abandon(r) PROVE RunsCounted'
    BY <1>4, SameCount DEF Abandon, TypeOK, RunsKnowCrew, regVars, runVars, busVars
  <1>5. ASSUME NEW r \in Runs, Start(r) PROVE RunsCounted'
    BY <1>5, SameCount DEF Start, TypeOK, RunsKnowCrew, regVars, runVars, busVars
  <1>6. ASSUME NEW r \in Runs, RunnerReturns(r) PROVE RunsCounted'
    BY <1>6, SameCount DEF RunnerReturns, TypeOK, RunsKnowCrew, regVars, runVars, busVars
  <1>7. ASSUME NEW r \in Runs, FinishError(r) PROVE RunsCounted'
    BY <1>7, SameCount DEF FinishError, TypeOK, RunsKnowCrew, regVars, runVars, busVars
  <1>8. ASSUME NEW r \in Runs, AuditFinished(r) PROVE RunsCounted'
    BY <1>8, SameCount DEF AuditFinished, TypeOK, RunsKnowCrew, regVars, runVars, busVars
  <1>9. ASSUME NEW r \in Runs, StoreFinal(r) PROVE RunsCounted'
    BY <1>9, SameCount DEF StoreFinal, TypeOK, RunsKnowCrew, regVars, runVars, busVars
  <1>10. ASSUME NEW r \in Runs, RemoveChannel(r) PROVE RunsCounted'
    BY <1>10, SameCount DEF RemoveChannel, TypeOK, RunsKnowCrew, regVars, runVars, busVars
  <1>11. ASSUME NEW r \in Runs, LeaveRun(r) PROVE RunsCounted'
    <2> DEFINE c == crewOf[r]
    <2>1. /\ c \in Crews /\ crewOf' = crewOf
          /\ pc[r] = "leaving" /\ pc' = [pc EXCEPT ![r] = "done"]
          /\ runs' = [runs EXCEPT ![c] = runs[c] - 1]
      BY <1>11 DEF LeaveRun, RunsKnowCrew
    <2>2. \A d \in Crews : ActiveRuns(d)' = IF d = c THEN ActiveRuns(d) \ {r}
                                                     ELSE ActiveRuns(d)
      BY <2>1 DEF ActiveRuns, TypeOK
    <2>3. r \in ActiveRuns(c) /\ IsFiniteSet(ActiveRuns(c))
      BY <2>1, CountPositive DEF ActiveRuns
    <2>4. Cardinality(ActiveRuns(c) \ {r}) = Cardinality(ActiveRuns(c)) - 1
      BY <2>3, FS_RemoveElement
    <2> HIDE DEF c
    <2> QED
      BY <2>1, <2>2, <2>4 DEF RunsCounted, TypeOK
  <1>12. ASSUME NEW c \in Crews, CancelCrew(c) PROVE RunsCounted'
    BY <1>12, SameCount DEF CancelCrew, TypeOK, RunsKnowCrew, regVars, runVars, busVars
  <1>13. ASSUME NEW c \in Crews, ForgetCrew(c) PROVE RunsCounted'
    BY <1>13, SameCount DEF ForgetCrew, TypeOK, RunsKnowCrew, regVars, runVars, busVars
  <1>14. ASSUME NEW c \in Crews, ReleaseCrew(c) PROVE RunsCounted'
    BY <1>14, SameCount DEF ReleaseCrew, TypeOK, RunsKnowCrew, regVars, runVars, busVars
  <1>15. ASSUME NEW c \in Crews, ReleaseChannel(c) PROVE RunsCounted'
    BY <1>15, SameCount DEF ReleaseChannel, TypeOK, RunsKnowCrew, regVars, runVars, busVars
  <1>16. ASSUME NEW c \in Crews, GiveBack(c) PROVE RunsCounted'
    BY <1>16, SameCount DEF GiveBack, TypeOK, RunsKnowCrew, regVars, runVars, busVars
  <1> QED
    BY <1>1, <1>2, <1>3, <1>4, <1>5, <1>6, <1>7, <1>8,
        <1>9, <1>10, <1>11, <1>12, <1>13, <1>14, <1>15, <1>16
    DEF Next, RunStep, Caller, ReleaseStep

\* A queued slot that is current stays ended and unheld.
LEMMA QueueStep ==
  ASSUME TypeOK, RunsKnowCrew, OutcomeKnown, EntryOwned, SlotMade, QueuedHasEnded, Next
  PROVE  QueuedHasEnded'
  <1> USE NoneAssumption DEF PC, Active, Holding, Held, Leaving, Finished, Outcomes
  <1>1. ASSUME NEW r \in Runs, NEW c \in Crews, Accept(r, c) PROVE QueuedHasEnded'
    BY <1>1 DEF Accept, TypeOK, RunsKnowCrew, SlotMade, QueuedHasEnded, IsCurrent, IsFinished, Slots, States, regVars, runVars, busVars
  <1>2. ASSUME NEW r \in Runs, Publish(r) PROVE QueuedHasEnded'
    <2>1. ended' \subseteq ended
      BY <1>2, EvictKeeps DEF Publish
    <2>2. \A c \in Crews : AfterEviction[c] \in {None, crews[c]}
      BY EvictTakesEnded
    <2>3. AfterEviction \in [Crews -> States \cup {None}]
      BY DEF AfterEviction, Entry, TypeOK
    <2>4. \A e \in ended : e.st # RegState(r)
      BY <1>2 DEF Publish, SlotMade, RegState
    <2>5. /\ crewOf[r] \in Crews /\ RegState(r) \in States /\ crewOf' = crewOf
          /\ crews' = [AfterEviction EXCEPT ![crewOf[r]] = RegState(r)]
          /\ status' = [status EXCEPT ![RegState(r)] = "pending"]
          /\ flag' = [flag EXCEPT ![crewOf[r]] = r]
      BY <1>2 DEF Publish, RunsKnowCrew, RegState, States
    <2> SUFFICES ASSUME NEW e \in ended', crews'[crewOf[e.st.run]] = e.st
                 PROVE  status'[e.st] \in Finished /\ flag'[crewOf[e.st.run]] = None
      BY <2>5 DEF QueuedHasEnded, IsCurrent, IsFinished
    <2>6. e \in ended /\ e.st \in States /\ crewOf[e.st.run] \in Crews
      BY <2>1 DEF TypeOK, Slots, States, SlotMade, RunsKnowCrew
    <2>7. crewOf[e.st.run] # crewOf[r] /\ crews[crewOf[e.st.run]] = e.st
      BY <2>2, <2>3, <2>4, <2>5, <2>6 DEF TypeOK, States
    <2> QED
      BY <2>4, <2>5, <2>6, <2>7 DEF QueuedHasEnded, IsCurrent, IsFinished, TypeOK
  <1>3. ASSUME NEW r \in Runs, OpenChannel(r) PROVE QueuedHasEnded'
    BY <1>3 DEF OpenChannel, TypeOK, RunsKnowCrew, SlotMade, QueuedHasEnded, IsCurrent, IsFinished, Slots, States, regVars, runVars, busVars
  <1>4. ASSUME NEW r \in Runs, Abandon(r) PROVE QueuedHasEnded'
    BY <1>4 DEF Abandon, TypeOK, RunsKnowCrew, SlotMade, QueuedHasEnded, IsCurrent, IsFinished, Slots, States, regVars, runVars, busVars
  <1>5. ASSUME NEW r \in Runs, Start(r) PROVE QueuedHasEnded'
    BY <1>5 DEF Start, Entry, QueuedHasEnded, IsCurrent, IsFinished, TypeOK, RunsKnowCrew,
                SlotMade, Slots, States
  <1>6. ASSUME NEW r \in Runs, RunnerReturns(r) PROVE QueuedHasEnded'
    BY <1>6 DEF RunnerReturns, TypeOK, RunsKnowCrew, SlotMade, QueuedHasEnded, IsCurrent, IsFinished, Slots, States, regVars, runVars, busVars
  <1>7. ASSUME NEW r \in Runs, FinishError(r) PROVE QueuedHasEnded'
    <2> DEFINE st == crews[crewOf[r]]
    <2>1. \A e \in ended' : e \in ended \/ (e.st = st /\ st # None /\ status[st] \in Finished)
      <3>1. CASE QueuesOnError(st)
        BY <1>7, <3>1, NoteKeeps DEF FinishError, QueuesOnError, Entry, TypeOK, RunsKnowCrew
      <3>2. CASE ~QueuesOnError(st)
        BY <1>7, <3>2 DEF FinishError, Entry
      <3> QED BY <3>1, <3>2
    <2>2. crewOf[r] \in Crews /\ st \in States \cup {None}
      BY <1>7 DEF FinishError, RunsKnowCrew, TypeOK
    <2>3. /\ \A s \in States : status[s] \in Finished => status'[s] = status[s]
          /\ crews' = crews /\ crewOf' = crewOf /\ flag' = [flag EXCEPT ![crewOf[r]] = None]
      BY <1>7, <2>2 DEF FinishError, Entry, TypeOK
    <2>4. st # None => crewOf[st.run] = crewOf[r]
      BY <2>2 DEF EntryOwned
    <2> SUFFICES ASSUME NEW e \in ended', IsCurrent(crews, e.st)
                 PROVE  status'[e.st] \in Finished /\ flag'[crewOf[e.st.run]] = None
      BY <2>3 DEF QueuedHasEnded, IsCurrent, IsFinished
    <2>5. CASE e \in ended
      <3>1. e.st \in States /\ crewOf[e.st.run] \in Crews
        BY <2>5 DEF TypeOK, Slots, States, SlotMade, RunsKnowCrew
      <3>2. status[e.st] \in Finished /\ flag[crewOf[e.st.run]] = None
        BY <2>5 DEF QueuedHasEnded, IsFinished
      <3> QED BY <2>2, <2>3, <3>1, <3>2 DEF TypeOK
    <2>6. CASE e.st = st /\ st # None /\ status[st] \in Finished
      BY <2>2, <2>3, <2>4, <2>6 DEF TypeOK
    <2> QED BY <2>1, <2>5, <2>6
  <1>8. ASSUME NEW r \in Runs, AuditFinished(r) PROVE QueuedHasEnded'
    BY <1>8 DEF AuditFinished, TypeOK, RunsKnowCrew, SlotMade, QueuedHasEnded, IsCurrent, IsFinished, Slots, States, regVars, runVars, busVars
  <1>9. ASSUME NEW r \in Runs, StoreFinal(r) PROVE QueuedHasEnded'
    <2>1. EndState(r) \in States /\ crewOf[r] \in Crews /\ EndState(r).run = r
      BY <1>9 DEF EndState, States, StoreFinal, RunsKnowCrew
    <2>2. \A e \in ended' : e \in ended \/ e.st = EndState(r)
      BY <1>9, <2>1, NoteKeeps DEF StoreFinal
    <2>3. /\ status' = [status EXCEPT ![EndState(r)] = out[r]] /\ out[r] \in Finished
          /\ crews' = [crews EXCEPT ![crewOf[r]] = EndState(r)] /\ crewOf' = crewOf
          /\ flag' = [flag EXCEPT ![crewOf[r]] = None]
      BY <1>9 DEF StoreFinal, OutcomeKnown
    <2> SUFFICES ASSUME NEW e \in ended', crews'[crewOf[e.st.run]] = e.st
                 PROVE  status'[e.st] \in Finished /\ flag'[crewOf[e.st.run]] = None
      BY <2>3 DEF QueuedHasEnded, IsCurrent, IsFinished
    <2>4. CASE e.st = EndState(r)
      BY <2>1, <2>3, <2>4 DEF TypeOK
    <2>5. CASE e \in ended /\ e.st # EndState(r)
      <3>1. e.st \in States /\ crewOf[e.st.run] \in Crews
        BY <2>5 DEF TypeOK, Slots, States, SlotMade, RunsKnowCrew
      <3>2. crewOf[e.st.run] # crewOf[r]
        BY <2>1, <2>3, <2>5, <3>1 DEF TypeOK
      <3>3. status[e.st] \in Finished /\ flag[crewOf[e.st.run]] = None
        BY <2>3, <2>5, <3>1, <3>2 DEF QueuedHasEnded, IsFinished, IsCurrent, TypeOK
      <3> QED BY <2>1, <2>3, <2>5, <3>1, <3>2, <3>3 DEF TypeOK
    <2> QED BY <2>2, <2>4, <2>5
  <1>10. ASSUME NEW r \in Runs, RemoveChannel(r) PROVE QueuedHasEnded'
    BY <1>10 DEF RemoveChannel, TypeOK, RunsKnowCrew, SlotMade, QueuedHasEnded, IsCurrent, IsFinished, Slots, States, regVars, runVars, busVars
  <1>11. ASSUME NEW r \in Runs, LeaveRun(r) PROVE QueuedHasEnded'
    BY <1>11 DEF LeaveRun, TypeOK, RunsKnowCrew, SlotMade, QueuedHasEnded, IsCurrent, IsFinished, Slots, States, regVars, runVars, busVars
  <1>12. ASSUME NEW c \in Crews, CancelCrew(c) PROVE QueuedHasEnded'
    <2>1. Entry(c) \in States /\ Entry(c) = crews[c] /\ crews[c] # None
      BY <1>12 DEF CancelCrew, MayCancel, Registered, Entry, TypeOK
    <2>2. \A e \in ended' : e \in ended \/ (e.st = crews[c] /\ flag[c] = None)
      <3>1. CASE QueuesOnCancel(c)
        BY <1>12, <2>1, <3>1, NoteKeeps DEF CancelCrew, QueuesOnCancel
      <3>2. CASE ~QueuesOnCancel(c)
        BY <1>12, <3>2 DEF CancelCrew
      <3> QED BY <3>1, <3>2
    <2>3. crewOf[crews[c].run] = c
      BY <2>1 DEF EntryOwned
    <2>4. /\ status' = [status EXCEPT ![crews[c]] = "cancelled"]
          /\ crews' = crews /\ crewOf' = crewOf /\ flag' = flag
      BY <1>12 DEF CancelCrew, Entry
    <2> SUFFICES ASSUME NEW e \in ended', IsCurrent(crews, e.st)
                 PROVE  status'[e.st] \in Finished /\ flag[crewOf[e.st.run]] = None
      BY <2>4 DEF QueuedHasEnded, IsCurrent, IsFinished
    <2>5. CASE e \in ended
      <3>1. e.st \in States /\ status[e.st] \in Finished /\ flag[crewOf[e.st.run]] = None
        BY <2>5 DEF QueuedHasEnded, IsFinished, TypeOK, Slots
      <3> QED BY <2>1, <2>4, <3>1 DEF TypeOK
    <2>6. CASE e.st = crews[c] /\ flag[c] = None
      BY <2>1, <2>3, <2>4, <2>6 DEF TypeOK
    <2> QED BY <2>2, <2>5, <2>6
  <1>13. ASSUME NEW c \in Crews, ForgetCrew(c) PROVE QueuedHasEnded'
    <2>1. ended' \subseteq ended
      BY <1>13, CompactKeeps DEF ForgetCrew, TypeOK
    <2>2. \A e \in ended : e.st \in States /\ crewOf[e.st.run] \in Crews
      BY DEF TypeOK, Slots, States, SlotMade, RunsKnowCrew
    <2> QED
      BY <1>13, <2>1, <2>2 DEF ForgetCrew, MayForget, QueuedHasEnded, IsCurrent, IsFinished, TypeOK,
         runVars, States
  <1>14. ASSUME NEW c \in Crews, ReleaseCrew(c) PROVE QueuedHasEnded'
    <2>1. ended' \subseteq ended
      BY <1>14, ReleaseKeeps
    <2>2. \A e \in ended : e.st \in States /\ crewOf[e.st.run] \in Crews
      BY DEF TypeOK, Slots, States, SlotMade, RunsKnowCrew
    <2> QED
      BY <1>14, <2>1, <2>2 DEF ReleaseCrew, MayRelease, QueuedHasEnded, IsCurrent, IsFinished, TypeOK,
         runVars, States
  <1>15. ASSUME NEW c \in Crews, ReleaseChannel(c) PROVE QueuedHasEnded'
    BY <1>15 DEF ReleaseChannel, TypeOK, RunsKnowCrew, SlotMade, QueuedHasEnded, IsCurrent, IsFinished, Slots, States, regVars, runVars, busVars
  <1>16. ASSUME NEW c \in Crews, GiveBack(c) PROVE QueuedHasEnded'
    BY <1>16 DEF GiveBack, TypeOK, RunsKnowCrew, SlotMade, QueuedHasEnded, IsCurrent, IsFinished, Slots, States, regVars, runVars, busVars
  <1> QED
    BY <1>1, <1>2, <1>3, <1>4, <1>5, <1>6, <1>7, <1>8,
        <1>9, <1>10, <1>11, <1>12, <1>13, <1>14, <1>15, <1>16
    DEF Next, RunStep, Caller, ReleaseStep

\* A crew with a run in flight has not been given back.
LEMMA ActiveOwned ==
  ASSUME GoneIsGone, RunsKnowCrew, NEW r \in Runs, pc[r] \in Active
  PROVE  crewOf[r] \in Crews /\ rel[crewOf[r]] = "owned"
  <1>1. crewOf[r] \in Crews
    BY DEF RunsKnowCrew, Active, Holding, Held, Leaving
  <1>2. r \in ActiveRuns(crewOf[r])
    BY DEF ActiveRuns
  <1> QED BY <1>1, <1>2 DEF GoneIsGone

\* A step that only touches crews still owned, and queues only their states,
\* keeps the others gone.
LEMMA GoneKept ==
  ASSUME TypeOK, GoneIsGone, SlotMade, RunsKnowCrew, RunsKnowCrew', rel' = rel,
         \A c \in Crews : rel[c] # "owned" =>
           /\ ActiveRuns(c)' = ActiveRuns(c)
           /\ crews'[c] = crews[c] /\ flag'[c] = flag[c] /\ chan'[c] = chan[c],
         \A e \in ended' :
           \/ e \in ended /\ crewOf'[e.st.run] = crewOf[e.st.run]
           \/ rel[crewOf'[e.st.run]] = "owned"
  PROVE  GoneIsGone'
  BY DEF GoneIsGone

\* What has been given back stays gone.
LEMMA GoneStep ==
  ASSUME IndInv, RunsKnowCrew', Next
  PROVE  GoneIsGone'
  <1> USE NoneAssumption DEF IndInv
  <1>1. ASSUME NEW r \in Runs, NEW c \in Crews, Accept(r, c) PROVE GoneIsGone'
    <2>1. rel[c] = "owned" /\ crewOf[r] = None
      BY <1>1 DEF Accept, MayRun, RunsKnowCrew
    <2>2. \A d \in Crews : rel[d] # "owned" => ActiveRuns(d)' = ActiveRuns(d)
      BY <1>1, <2>1 DEF Accept, ActiveRuns, TypeOK, Active, Holding, Held, Leaving
    <2>3. \A e \in ended : e.st.run \in Runs /\ e.st.run # r
      BY <1>1 DEF Accept, SlotMade, TypeOK, Slots, States
    <2> QED
      BY <1>1, <2>1, <2>2, <2>3, GoneKept DEF Accept, TypeOK, regVars, busVars
  <1>2. ASSUME NEW r \in Runs, Publish(r) PROVE GoneIsGone'
    <2>1. pc[r] \in Active
      BY <1>2 DEF Publish, Active, Holding, Held, Leaving
    <2>2. crewOf[r] \in Crews /\ rel[crewOf[r]] = "owned"
      BY <2>1, ActiveOwned
    <2>3. \A c \in Crews : rel[c] # "owned" => ActiveRuns(c)' = ActiveRuns(c)
      BY <1>2, <2>2 DEF Publish, ActiveRuns, TypeOK
    <2>4. ended' \subseteq ended
      BY <1>2, EvictKeeps DEF Publish
    <2>5. \A c \in Crews : rel[c] # "owned" => AfterEviction[c] = crews[c]
      BY EvictTakesEnded DEF GoneIsGone
    <2>6. AfterEviction \in [Crews -> States \cup {None}]
      BY DEF AfterEviction, Entry, TypeOK
    <2> QED
      BY <1>2, <2>2, <2>3, <2>4, <2>5, <2>6, GoneKept DEF Publish, TypeOK, busVars
  <1>3. ASSUME NEW r \in Runs, OpenChannel(r) PROVE GoneIsGone'
    <2>1. pc[r] \in Active
      BY <1>3 DEF OpenChannel, Active, Holding, Held, Leaving
    <2>2. crewOf[r] \in Crews /\ rel[crewOf[r]] = "owned"
      BY <2>1, ActiveOwned
    <2>3. \A c \in Crews : rel[c] # "owned" => ActiveRuns(c)' = ActiveRuns(c)
      BY <1>3, <2>2 DEF OpenChannel, ActiveRuns, TypeOK
    <2> QED
      BY <1>3, <2>2, <2>3, GoneKept DEF OpenChannel, TypeOK, regVars, busVars
  <1>4. ASSUME NEW r \in Runs, Abandon(r) PROVE GoneIsGone'
    <2>1. pc[r] \in Active
      BY <1>4 DEF Abandon, Active, Holding, Held, Leaving
    <2>2. crewOf[r] \in Crews /\ rel[crewOf[r]] = "owned"
      BY <2>1, ActiveOwned
    <2>3. \A c \in Crews : rel[c] # "owned" => ActiveRuns(c)' = ActiveRuns(c)
      BY <1>4, <2>2 DEF Abandon, ActiveRuns, TypeOK
    <2> QED
      BY <1>4, <2>2, <2>3, GoneKept DEF Abandon, TypeOK, regVars, busVars
  <1>5. ASSUME NEW r \in Runs, Start(r) PROVE GoneIsGone'
    <2>1. pc[r] \in Active
      BY <1>5 DEF Start, Active, Holding, Held, Leaving
    <2>2. crewOf[r] \in Crews /\ rel[crewOf[r]] = "owned"
      BY <2>1, ActiveOwned
    <2>3. \A c \in Crews : rel[c] # "owned" => ActiveRuns(c)' = ActiveRuns(c)
      BY <1>5, <2>2 DEF Start, ActiveRuns, TypeOK
    <2> QED
      BY <1>5, <2>2, <2>3, GoneKept DEF Start, TypeOK, regVars, busVars
  <1>6. ASSUME NEW r \in Runs, RunnerReturns(r) PROVE GoneIsGone'
    <2>1. pc[r] \in Active
      BY <1>6 DEF RunnerReturns, Active, Holding, Held, Leaving
    <2>2. crewOf[r] \in Crews /\ rel[crewOf[r]] = "owned"
      BY <2>1, ActiveOwned
    <2>3. \A c \in Crews : rel[c] # "owned" => ActiveRuns(c)' = ActiveRuns(c)
      BY <1>6, <2>2 DEF RunnerReturns, ActiveRuns, TypeOK
    <2> QED
      BY <1>6, <2>2, <2>3, GoneKept DEF RunnerReturns, TypeOK, regVars, busVars
  <1>7. ASSUME NEW r \in Runs, FinishError(r) PROVE GoneIsGone'
    <2>1. pc[r] \in Active
      BY <1>7 DEF FinishError, Active, Holding, Held, Leaving
    <2>2. crewOf[r] \in Crews /\ rel[crewOf[r]] = "owned"
      BY <2>1, ActiveOwned
    <2>3. \A c \in Crews : rel[c] # "owned" => ActiveRuns(c)' = ActiveRuns(c)
      BY <1>7, <2>2 DEF FinishError, ActiveRuns, TypeOK
    <2> DEFINE st == crews[crewOf[r]]
    <2>4. \A e \in ended' : e \in ended \/ (e.st = st /\ st # None)
      <3>1. CASE QueuesOnError(st)
        BY <1>7, <2>2, <3>1, NoteKeeps DEF FinishError, QueuesOnError, Entry, TypeOK
      <3>2. CASE ~QueuesOnError(st)
        BY <1>7, <3>2 DEF FinishError, Entry
      <3> QED BY <3>1, <3>2
    <2>5. st # None => crewOf[st.run] = crewOf[r]
      BY <2>2 DEF EntryOwned
    <2> QED
      BY <1>7, <2>2, <2>3, <2>4, <2>5, GoneKept DEF FinishError, TypeOK, busVars
  <1>8. ASSUME NEW r \in Runs, AuditFinished(r) PROVE GoneIsGone'
    <2>1. pc[r] \in Active
      BY <1>8 DEF AuditFinished, Active, Holding, Held, Leaving
    <2>2. crewOf[r] \in Crews /\ rel[crewOf[r]] = "owned"
      BY <2>1, ActiveOwned
    <2>3. \A c \in Crews : rel[c] # "owned" => ActiveRuns(c)' = ActiveRuns(c)
      BY <1>8, <2>2 DEF AuditFinished, ActiveRuns, TypeOK
    <2> QED
      BY <1>8, <2>2, <2>3, GoneKept DEF AuditFinished, TypeOK, regVars, busVars
  <1>9. ASSUME NEW r \in Runs, StoreFinal(r) PROVE GoneIsGone'
    <2>1. pc[r] \in Active
      BY <1>9 DEF StoreFinal, Active, Holding, Held, Leaving
    <2>2. crewOf[r] \in Crews /\ rel[crewOf[r]] = "owned"
      BY <2>1, ActiveOwned
    <2>3. \A c \in Crews : rel[c] # "owned" => ActiveRuns(c)' = ActiveRuns(c)
      BY <1>9, <2>2 DEF StoreFinal, ActiveRuns, TypeOK
    <2>4. EndState(r) \in States /\ EndState(r).run = r
      BY DEF EndState, States
    <2>5. \A e \in ended' : e \in ended \/ e.st = EndState(r)
      BY <1>9, <2>4, NoteKeeps DEF StoreFinal
    <2> QED
      BY <1>9, <2>2, <2>3, <2>4, <2>5, GoneKept DEF StoreFinal, TypeOK, busVars
  <1>10. ASSUME NEW r \in Runs, RemoveChannel(r) PROVE GoneIsGone'
    <2>1. pc[r] \in Active
      BY <1>10 DEF RemoveChannel, Active, Holding, Held, Leaving
    <2>2. crewOf[r] \in Crews /\ rel[crewOf[r]] = "owned"
      BY <2>1, ActiveOwned
    <2>3. \A c \in Crews : rel[c] # "owned" => ActiveRuns(c)' = ActiveRuns(c)
      BY <1>10, <2>2 DEF RemoveChannel, ActiveRuns, TypeOK
    <2> QED
      BY <1>10, <2>2, <2>3, GoneKept DEF RemoveChannel, TypeOK, regVars, busVars
  <1>11. ASSUME NEW r \in Runs, LeaveRun(r) PROVE GoneIsGone'
    <2>1. pc[r] \in Active
      BY <1>11 DEF LeaveRun, Active, Holding, Held, Leaving
    <2>2. crewOf[r] \in Crews /\ rel[crewOf[r]] = "owned"
      BY <2>1, ActiveOwned
    <2>3. \A c \in Crews : rel[c] # "owned" => ActiveRuns(c)' = ActiveRuns(c)
      BY <1>11, <2>2 DEF LeaveRun, ActiveRuns, TypeOK
    <2> QED
      BY <1>11, <2>2, <2>3, GoneKept DEF LeaveRun, TypeOK, regVars, busVars
  <1>12. ASSUME NEW c \in Crews, CancelCrew(c) PROVE GoneIsGone'
    <2>1. Entry(c) \in States /\ Entry(c) = crews[c] /\ crews[c] # None
      BY <1>12 DEF CancelCrew, MayCancel, Registered, Entry, TypeOK
    <2>2. \A e \in ended' : e \in ended \/ e.st = crews[c]
      <3>1. CASE QueuesOnCancel(c)
        BY <1>12, <2>1, <3>1, NoteKeeps DEF CancelCrew
      <3>2. CASE ~QueuesOnCancel(c)
        BY <1>12, <3>2 DEF CancelCrew
      <3> QED BY <3>1, <3>2
    <2>3. crewOf[crews[c].run] = c /\ rel[c] = "owned"
      BY <2>1 DEF EntryOwned, GoneIsGone
    <2>4. \A d \in Crews : ActiveRuns(d)' = ActiveRuns(d)
      BY <1>12 DEF CancelCrew, ActiveRuns
    <2> QED
      BY <1>12, <2>2, <2>3, <2>4, GoneKept DEF CancelCrew, busVars
  <1>13. ASSUME NEW c \in Crews, ForgetCrew(c) PROVE GoneIsGone'
    <2>1. ended' \subseteq ended
      BY <1>13, CompactKeeps DEF ForgetCrew, TypeOK
    <2>2. \A d \in Crews : ActiveRuns(d)' = ActiveRuns(d)
      BY <1>13 DEF ForgetCrew, ActiveRuns, runVars
    <2>3. rel[c] = "owned"
      BY <1>13 DEF ForgetCrew, MayForget, Registered, GoneIsGone
    <2> QED
      BY <1>13, <2>1, <2>2, <2>3, GoneKept DEF ForgetCrew, TypeOK, runVars, busVars
  <1>14. ASSUME NEW c \in Crews, ReleaseCrew(c) PROVE GoneIsGone'
    <2>1. ended' \subseteq ended /\ \A e \in ended' : ~InArena(c, e.st)
      BY <1>14, ReleaseKeeps
    <2>2. \A d \in Crews : ActiveRuns(d)' = ActiveRuns(d)
      BY <1>14 DEF ReleaseCrew, ActiveRuns, runVars
    <2>3. ActiveRuns(c) = {}
      BY <1>14, CountPositive DEF ReleaseCrew, MayRelease
    <2> QED
      BY <1>14, <2>1, <2>2, <2>3 DEF ReleaseCrew, MayRelease, InArena, GoneIsGone, TypeOK, runVars,
         busVars
  <1>15. ASSUME NEW c \in Crews, ReleaseChannel(c) PROVE GoneIsGone'
    <2>1. \A d \in Crews : ActiveRuns(d)' = ActiveRuns(d)
      BY <1>15 DEF ReleaseChannel, ActiveRuns, runVars
    <2> QED
      BY <1>15, <2>1 DEF ReleaseChannel, GoneIsGone, TypeOK, regVars, runVars, busVars
  <1>16. ASSUME NEW c \in Crews, GiveBack(c) PROVE GoneIsGone'
    <2>1. \A d \in Crews : ActiveRuns(d)' = ActiveRuns(d)
      BY <1>16 DEF GiveBack, ActiveRuns, runVars
    <2> QED
      BY <1>16, <2>1 DEF GiveBack, GoneIsGone, TypeOK, regVars, runVars, busVars
  <1> QED
    BY <1>1, <1>2, <1>3, <1>4, <1>5, <1>6, <1>7, <1>8,
        <1>9, <1>10, <1>11, <1>12, <1>13, <1>14, <1>15, <1>16
    DEF Next, RunStep, Caller, ReleaseStep

\* Without overlapping runs there stays one holder.
LEMMA HolderStep ==
  ASSUME TypeOK, RunsKnowCrew, OneHolder, Next
  PROVE  OneHolder'
  <1> USE NoneAssumption DEF Active, Holding, Held, Leaving
  <1>1. ASSUME NEW r \in Runs, NEW c \in Crews, Accept(r, c) PROVE OneHolder'
    <2>1. Reuse # "any" => \A s \in Runs : pc[s] \in Holding /\ crewOf[s] = c => FALSE
      BY <1>1, ReuseAssumption DEF Accept, MayRun, ActiveRuns
    <2> QED
      BY <1>1, <2>1 DEF Accept, OneHolder, TypeOK, RunsKnowCrew
  <1>2. ASSUME NEW r \in Runs, Publish(r) PROVE OneHolder'
    BY <1>2 DEF Publish, OneHolder, TypeOK, RunsKnowCrew, regVars, runVars, busVars
  <1>3. ASSUME NEW r \in Runs, OpenChannel(r) PROVE OneHolder'
    BY <1>3 DEF OpenChannel, OneHolder, TypeOK, RunsKnowCrew, regVars, runVars, busVars
  <1>4. ASSUME NEW r \in Runs, Abandon(r) PROVE OneHolder'
    BY <1>4 DEF Abandon, OneHolder, TypeOK, RunsKnowCrew, regVars, runVars, busVars
  <1>5. ASSUME NEW r \in Runs, Start(r) PROVE OneHolder'
    BY <1>5 DEF Start, OneHolder, TypeOK, RunsKnowCrew, regVars, runVars, busVars
  <1>6. ASSUME NEW r \in Runs, RunnerReturns(r) PROVE OneHolder'
    BY <1>6 DEF RunnerReturns, OneHolder, TypeOK, RunsKnowCrew, regVars, runVars, busVars
  <1>7. ASSUME NEW r \in Runs, FinishError(r) PROVE OneHolder'
    BY <1>7 DEF FinishError, OneHolder, TypeOK, RunsKnowCrew, regVars, runVars, busVars
  <1>8. ASSUME NEW r \in Runs, AuditFinished(r) PROVE OneHolder'
    BY <1>8 DEF AuditFinished, OneHolder, TypeOK, RunsKnowCrew, regVars, runVars, busVars
  <1>9. ASSUME NEW r \in Runs, StoreFinal(r) PROVE OneHolder'
    BY <1>9 DEF StoreFinal, OneHolder, TypeOK, RunsKnowCrew, regVars, runVars, busVars
  <1>10. ASSUME NEW r \in Runs, RemoveChannel(r) PROVE OneHolder'
    BY <1>10 DEF RemoveChannel, OneHolder, TypeOK, RunsKnowCrew, regVars, runVars, busVars
  <1>11. ASSUME NEW r \in Runs, LeaveRun(r) PROVE OneHolder'
    BY <1>11 DEF LeaveRun, OneHolder, TypeOK, RunsKnowCrew, regVars, runVars, busVars
  <1>12. ASSUME NEW c \in Crews, CancelCrew(c) PROVE OneHolder'
    BY <1>12 DEF CancelCrew, OneHolder, TypeOK, RunsKnowCrew, regVars, runVars, busVars
  <1>13. ASSUME NEW c \in Crews, ForgetCrew(c) PROVE OneHolder'
    BY <1>13 DEF ForgetCrew, OneHolder, TypeOK, RunsKnowCrew, regVars, runVars, busVars
  <1>14. ASSUME NEW c \in Crews, ReleaseCrew(c) PROVE OneHolder'
    BY <1>14 DEF ReleaseCrew, OneHolder, TypeOK, RunsKnowCrew, regVars, runVars, busVars
  <1>15. ASSUME NEW c \in Crews, ReleaseChannel(c) PROVE OneHolder'
    BY <1>15 DEF ReleaseChannel, OneHolder, TypeOK, RunsKnowCrew, regVars, runVars, busVars
  <1>16. ASSUME NEW c \in Crews, GiveBack(c) PROVE OneHolder'
    BY <1>16 DEF GiveBack, OneHolder, TypeOK, RunsKnowCrew, regVars, runVars, busVars
  <1> QED
    BY <1>1, <1>2, <1>3, <1>4, <1>5, <1>6, <1>7, <1>8,
        <1>9, <1>10, <1>11, <1>12, <1>13, <1>14, <1>15, <1>16
    DEF Next, RunStep, Caller, ReleaseStep

\* A held crew keeps its flag and its entry.
LEMMA HeldStep ==
  ASSUME TypeOK, RunsKnowCrew, QueuedHasEnded, OneHolder, HeldIsRegistered, Next
  PROVE  HeldIsRegistered'
  <1> USE NoneAssumption DEF Held
  <1> SUFFICES ASSUME Reuse # "any" PROVE HeldIsRegistered'
    BY DEF HeldIsRegistered
  <1>1. ASSUME NEW r \in Runs, NEW c \in Crews, Accept(r, c) PROVE HeldIsRegistered'
    BY <1>1 DEF Accept, HeldIsRegistered, TypeOK, RunsKnowCrew, MayForget, MayRelease, regVars, runVars, busVars
  <1>2. ASSUME NEW r \in Runs, Publish(r) PROVE HeldIsRegistered'
    <2>1. /\ crewOf[r] \in Crews /\ crewOf' = crewOf
          /\ pc[r] = "accepted" /\ pc' = [pc EXCEPT ![r] = "published"]
          /\ crews' = [AfterEviction EXCEPT ![crewOf[r]] = RegState(r)]
          /\ flag' = [flag EXCEPT ![crewOf[r]] = r]
      BY <1>2 DEF Publish, RunsKnowCrew
    <2>2. AfterEviction \in [Crews -> States \cup {None}]
      BY DEF AfterEviction, Entry, TypeOK
    <2> SUFFICES ASSUME NEW s \in Runs, pc'[s] \in Held
                 PROVE  flag'[crewOf[s]] = s /\ crews'[crewOf[s]] = RegState(s)
      BY <2>1 DEF HeldIsRegistered
    <2>3. CASE s = r
      BY <2>1, <2>2, <2>3 DEF TypeOK
    <2>4. CASE s # r
      <3>1. pc[s] \in Held /\ crewOf[s] \in Crews
        BY <2>1, <2>4 DEF TypeOK, RunsKnowCrew
      <3>2. crewOf[s] # crewOf[r]
        BY <2>1, <2>4, <3>1 DEF OneHolder, Holding
      <3>3. flag[crewOf[s]] = s /\ crews[crewOf[s]] = RegState(s)
        BY <3>1 DEF HeldIsRegistered
      <3>4. AfterEviction[crewOf[s]] = crews[crewOf[s]]
        BY <3>1, <3>3, EvictTakesEnded
      <3> QED BY <2>1, <2>2, <3>1, <3>2, <3>3, <3>4 DEF TypeOK
    <2> QED BY <2>3, <2>4
  <1>3. ASSUME NEW r \in Runs, OpenChannel(r) PROVE HeldIsRegistered'
    BY <1>3 DEF OpenChannel, HeldIsRegistered, TypeOK, RunsKnowCrew, MayForget, MayRelease, regVars, runVars, busVars
  <1>4. ASSUME NEW r \in Runs, Abandon(r) PROVE HeldIsRegistered'
    BY <1>4 DEF Abandon, HeldIsRegistered, OneHolder, Holding, TypeOK, RunsKnowCrew
  <1>5. ASSUME NEW r \in Runs, Start(r) PROVE HeldIsRegistered'
    BY <1>5 DEF Start, HeldIsRegistered, TypeOK, RunsKnowCrew, MayForget, MayRelease, regVars, runVars, busVars
  <1>6. ASSUME NEW r \in Runs, RunnerReturns(r) PROVE HeldIsRegistered'
    BY <1>6 DEF RunnerReturns, HeldIsRegistered, TypeOK, RunsKnowCrew, MayForget, MayRelease, regVars, runVars, busVars
  <1>7. ASSUME NEW r \in Runs, FinishError(r) PROVE HeldIsRegistered'
    BY <1>7 DEF FinishError, HeldIsRegistered, OneHolder, Holding, TypeOK, RunsKnowCrew
  <1>8. ASSUME NEW r \in Runs, AuditFinished(r) PROVE HeldIsRegistered'
    BY <1>8 DEF AuditFinished, HeldIsRegistered, TypeOK, RunsKnowCrew, MayForget, MayRelease, regVars, runVars, busVars
  <1>9. ASSUME NEW r \in Runs, StoreFinal(r) PROVE HeldIsRegistered'
    BY <1>9 DEF StoreFinal, HeldIsRegistered, OneHolder, Holding, TypeOK, RunsKnowCrew
  <1>10. ASSUME NEW r \in Runs, RemoveChannel(r) PROVE HeldIsRegistered'
    BY <1>10 DEF RemoveChannel, HeldIsRegistered, TypeOK, RunsKnowCrew, MayForget, MayRelease, regVars, runVars, busVars
  <1>11. ASSUME NEW r \in Runs, LeaveRun(r) PROVE HeldIsRegistered'
    BY <1>11 DEF LeaveRun, HeldIsRegistered, TypeOK, RunsKnowCrew, MayForget, MayRelease, regVars, runVars, busVars
  <1>12. ASSUME NEW c \in Crews, CancelCrew(c) PROVE HeldIsRegistered'
    BY <1>12 DEF CancelCrew, HeldIsRegistered, TypeOK, RunsKnowCrew, MayForget, MayRelease, regVars, runVars, busVars
  <1>13. ASSUME NEW c \in Crews, ForgetCrew(c) PROVE HeldIsRegistered'
    BY <1>13 DEF ForgetCrew, HeldIsRegistered, TypeOK, RunsKnowCrew, MayForget, MayRelease, regVars, runVars, busVars
  <1>14. ASSUME NEW c \in Crews, ReleaseCrew(c) PROVE HeldIsRegistered'
    BY <1>14 DEF ReleaseCrew, HeldIsRegistered, TypeOK, RunsKnowCrew, MayForget, MayRelease, regVars, runVars, busVars
  <1>15. ASSUME NEW c \in Crews, ReleaseChannel(c) PROVE HeldIsRegistered'
    BY <1>15 DEF ReleaseChannel, HeldIsRegistered, TypeOK, RunsKnowCrew, MayForget, MayRelease, regVars, runVars, busVars
  <1>16. ASSUME NEW c \in Crews, GiveBack(c) PROVE HeldIsRegistered'
    BY <1>16 DEF GiveBack, HeldIsRegistered, TypeOK, RunsKnowCrew, MayForget, MayRelease, regVars, runVars, busVars
  <1> QED
    BY <1>1, <1>2, <1>3, <1>4, <1>5, <1>6, <1>7, <1>8,
        <1>9, <1>10, <1>11, <1>12, <1>13, <1>14, <1>15, <1>16
    DEF Next, RunStep, Caller, ReleaseStep

-----------------------------------------------------------------------------
\* The invariant is inductive.
LEMMA IndInit == Init => IndInv
  <1> SUFFICES ASSUME Init PROVE IndInv
    OBVIOUS
  <1> USE NoneAssumption DEF Init, Active, Holding, Held, Leaving
  <1>1. TypeOK
    BY FS_EmptySet DEF TypeOK, PC, Status
  <1>2. \A c \in Crews : ActiveRuns(c) = {}
    BY DEF ActiveRuns
  <1>3. RunsCounted
    BY <1>2, FS_EmptySet DEF RunsCounted
  <1> QED
    BY <1>1, <1>2, <1>3 DEF IndInv, RunsKnowCrew, OutcomeKnown, EntryOwned, EntryMade, SlotMade,
       FlagOwned, QueuedHasEnded, GoneIsGone, OneHolder, HeldIsRegistered

\* Every step of a run, of a caller or of a release keeps it.
LEMMA IndStep == IndInv /\ [Next]_vars => IndInv'
  <1> SUFFICES ASSUME IndInv, [Next]_vars PROVE IndInv'
    OBVIOUS
  <1>1. CASE Next
    <2>1. RunsKnowCrew'
      BY <1>1, KnowCrewStep DEF IndInv
    <2>2. TypeOK' /\ OutcomeKnown' /\ EntryOwned' /\ EntryMade' /\ SlotMade'
      BY <1>1, TypeStep, OutcomeStep, EntryStep, EntryMadeStep, SlotStep DEF IndInv
    <2>3. FlagOwned' /\ RunsCounted' /\ QueuedHasEnded'
      BY <1>1, FlagStep, CountStep, QueueStep DEF IndInv
    <2>4. GoneIsGone' /\ OneHolder' /\ HeldIsRegistered'
      BY <1>1, <2>1, GoneStep, HolderStep, HeldStep DEF IndInv
    <2> QED BY <2>1, <2>2, <2>3, <2>4 DEF IndInv
  <1>2. CASE UNCHANGED vars
    BY <1>2 DEF vars, IndInv, TypeOK, RunsKnowCrew, OutcomeKnown, EntryOwned, EntryMade, SlotMade,
       FlagOwned, RunsCounted, ActiveRuns, QueuedHasEnded, IsCurrent, IsFinished, GoneIsGone,
       OneHolder, HeldIsRegistered
  <1> QED BY <1>1, <1>2

\* The strengthened invariant holds in every behaviour of the registry.
THEOREM Inductive == Spec => []IndInv
  BY IndInit, IndStep, PTL DEF Spec

\* Every variable of the registry keeps its type.
THEOREM TypeCorrect == Spec => []TypeOK
  <1>1. IndInv => TypeOK
    BY DEF IndInv
  <1> QED BY <1>1, Inductive, PTL

\* Eviction can only take a crew that has ended and that no runner holds: every
\* slot of the queue that _agnosai_orch_is_current_locked accepts is such a
\* crew, for any marks, and even with overlapping runs of one id.
THEOREM EvictionSafe == Spec => []QueuedHasEnded
  <1>1. IndInv => QueuedHasEnded
    BY DEF IndInv
  <1> QED BY <1>1, Inductive, PTL

\* While runs of an id do not overlap, a crew a runner holds stays registered
\* under its own flag until the run lets go (ADR 026).
THEOREM HeldStays == Spec => []HeldIsRegistered
  <1>1. IndInv => HeldIsRegistered
    BY DEF IndInv
  <1> QED BY <1>1, Inductive, PTL

\* Nothing reaches into the arena of a crew that has been given back, and no
\* run of it is in flight, even when runs of one spec overlap (ADR 028).
THEOREM ReleaseSafe == Spec => []NoDangling
  <1>1. IndInv => NoDangling
    BY ArenaAssumption DEF IndInv, GoneIsGone, NoDangling
  <1> QED BY <1>1, Inductive, PTL

\* A crew that left the registry comes back only by being registered again.
THEOREM NoReturn == Spec => NothingComesBack
  <1> DEFINE Step == Reuse # "any" => \A c \in Crews :
                       crews[c] = None /\ crews'[c] # None => ~crews'[c].final
  <1>1. IndInv /\ [Next]_vars => [Step]_vars
    <2> SUFFICES ASSUME IndInv, Next, Reuse # "any", NEW c \in Crews,
                        crews[c] = None, crews'[c] # None
                 PROVE  ~crews'[c].final
      OBVIOUS
    <2> USE NoneAssumption DEF IndInv
    <2>1. ASSUME NEW r \in Runs, Publish(r) PROVE ~crews'[c].final
      <3>1. AfterEviction[c] = None
        BY EvictTakesEnded
      <3>2. AfterEviction \in [Crews -> States \cup {None}]
        BY DEF AfterEviction, Entry, TypeOK
      <3> QED BY <2>1, <3>1, <3>2 DEF Publish, RegState, RunsKnowCrew
    <2>2. ASSUME NEW r \in Runs, StoreFinal(r) PROVE ~crews'[c].final
      <3>1. pc[r] = "audited" /\ crews' = [crews EXCEPT ![crewOf[r]] = EndState(r)]
        BY <2>2 DEF StoreFinal
      <3>2. crewOf[r] \in Crews /\ crews[crewOf[r]] = RegState(r)
        BY <3>1 DEF HeldIsRegistered, RunsKnowCrew, Held
      <3>3. RegState(r) \in [run : Runs, final : BOOLEAN]
        BY DEF RegState
      <3> QED BY <3>1, <3>2, <3>3 DEF TypeOK
    <2>3. ASSUME NEW d \in Crews, ForgetCrew(d) \/ ReleaseCrew(d) PROVE ~crews'[c].final
      BY <2>3 DEF ForgetCrew, ReleaseCrew, TypeOK
    <2>4. CASE crews' = crews
      BY <2>4
    <2> QED
      BY <2>1, <2>2, <2>3, <2>4
      DEF Next, Accept, RunStep, OpenChannel, Abandon, Start, RunnerReturns, FinishError,
          AuditFinished, RemoveChannel, LeaveRun, Caller, CancelCrew, ReleaseStep, ReleaseChannel,
          GiveBack, regVars
  <1> QED BY <1>1, Inductive, PTL DEF Spec, NothingComesBack
-----------------------------------------------------------------------------
(* The queue and the channels: what eviction needs.                        *)

\* A channel that is open has a run that will remove it, or one whose error left it.
Opened == {"ready", "running", "ran", "audited", "stored", "unstarted"}
ChannelKept ==
    \A c \in Crews : chan[c] # None =>
      \E r \in Runs : crewOf[r] = c /\ (pc[r] \in Opened \/ out[r] = "error")

\* An entry's state has a status, and a run that has not returned has no outcome.
EntryShown == \A c \in Crews : crews[c] # None => status[crews[c]] # "unmade"
Unreturned ==
    \A r \in Runs : pc[r] \in {"idle", "accepted", "published", "ready", "running", "unstarted"} => out[r] = None

\* The status of a held crew goes with its run; a cancel also reached the run.
HeldStatus ==
    \A r \in Runs :
      /\ pc[r] \in {"published", "ready"} => status[RegState(r)] \in {"pending", "cancelled"}
      /\ pc[r] \in {"running", "ran", "audited"} => status[RegState(r)] \in {"running", "cancelled"}
      /\ pc[r] \in Held /\ status[RegState(r)] = "cancelled" => cancelled[r]

\* Slots are queued one after the other, and a state at most once.
Positions ==
    /\ \A e \in ended : e.pos < tick
    /\ \A e, f \in ended : e.pos = f.pos => e = f
OnceQueued == \A e, f \in ended : e.st = f.st => e = f

ServeInv ==
    /\ ChannelKept /\ EntryShown /\ Unreturned /\ Positions
    /\ Reuse # "any" => HeldStatus /\ OnceQueued /\ EndedIsQueued /\ QueueBounded

\* The two states of a run, and their names.
LEMMA StateNames ==
  /\ \A r \in Runs : /\ RegState(r) \in States /\ RegState(r).run = r /\ ~RegState(r).final
                     /\ EndState(r) \in States /\ EndState(r).run = r /\ EndState(r).final
  /\ \A r, s \in Runs : RegState(r) # EndState(s) /\ (RegState(r) = RegState(s) => r = s)
  /\ None \notin States
  BY NoneAssumption DEF RegState, EndState, States

LEMMA ChannelStep ==
  ASSUME TypeOK, RunsKnowCrew, ChannelKept, Next
  PROVE  ChannelKept'
  <1> USE NoneAssumption
  <1> SUFFICES ASSUME NEW c \in Crews, chan'[c] # None
               PROVE  \E r \in Runs : crewOf'[r] = c /\ (pc'[r] \in Opened \/ out'[r] = "error")
    BY DEF ChannelKept
  <1>1. ASSUME NEW r \in Runs, OpenChannel(r), crewOf[r] = c
        PROVE  \E s \in Runs : crewOf'[s] = c /\ (pc'[s] \in Opened \/ out'[s] = "error")
    BY <1>1 DEF OpenChannel, Opened, TypeOK
  <1>2. ASSUME chan[c] # None
        PROVE  \E s \in Runs : crewOf'[s] = c /\ (pc'[s] \in Opened \/ out'[s] = "error")
    <2>1. PICK s \in Runs : crewOf[s] = c /\ (pc[s] \in Opened \/ out[s] = "error")
      BY <1>2 DEF ChannelKept
    <2>2. pc[s] # "idle"
      BY <2>1 DEF RunsKnowCrew
    <2> SUFFICES crewOf'[s] = c /\ (pc'[s] \in Opened \/ out'[s] = "error")
      OBVIOUS
    <2>3. ASSUME NEW r \in Runs, NEW d \in Crews, Accept(r, d)
          PROVE  crewOf'[s] = c /\ (pc'[s] \in Opened \/ out'[s] = "error")
      BY <2>1, <2>2, <2>3 DEF Accept, TypeOK
    <2>4. ASSUME NEW r \in Runs, Publish(r) \/ OpenChannel(r) \/ Abandon(r) \/ Start(r) \/ RunnerReturns(r)
          PROVE  crewOf'[s] = c /\ (pc'[s] \in Opened \/ out'[s] = "error")
      BY <2>1, <2>4 DEF Publish, OpenChannel, Abandon, Start, RunnerReturns, TypeOK, Opened
    <2>5. ASSUME NEW r \in Runs, FinishError(r) \/ AuditFinished(r) \/ StoreFinal(r) \/ RemoveChannel(r) \/ LeaveRun(r)
          PROVE  crewOf'[s] = c /\ (pc'[s] \in Opened \/ out'[s] = "error")
      BY <2>1, <2>5 DEF FinishError, AuditFinished, StoreFinal, RemoveChannel, LeaveRun, TypeOK, Opened
    <2>6. ASSUME NEW d \in Crews, Caller(d) \/ ReleaseStep(d)
          PROVE  crewOf'[s] = c /\ (pc'[s] \in Opened \/ out'[s] = "error")
      BY <2>1, <2>6 DEF Caller, ReleaseStep, CancelCrew, ForgetCrew, ReleaseCrew, ReleaseChannel, GiveBack, runVars
    <2> QED BY <2>3, <2>4, <2>5, <2>6 DEF Next, RunStep
  <1>3. chan[c] # None \/ \E r \in Runs : OpenChannel(r) /\ crewOf[r] = c
    BY ZenonT(40) DEF Next, Accept, RunStep, Publish, OpenChannel, Abandon, Start, RunnerReturns, FinishError, AuditFinished, StoreFinal,
           RemoveChannel, LeaveRun, Caller, CancelCrew, ForgetCrew, ReleaseCrew, ReleaseStep, ReleaseChannel, GiveBack, busVars,
           TypeOK
  <1> QED BY <1>1, <1>2, <1>3

LEMMA ShownStep ==
  ASSUME TypeOK, RunsKnowCrew, OutcomeKnown, QueuedHasEnded, EntryShown, Next
  PROVE  EntryShown'
  <1> SUFFICES ASSUME NEW c \in Crews, crews'[c] # None PROVE status'[crews'[c]] # "unmade"
    BY DEF EntryShown
  <1>1. ASSUME crews[c] # None, crews'[c] = crews[c] PROVE status'[crews[c]] # "unmade"
    <2>1. status[crews[c]] # "unmade" /\ crews[c] \in States
      BY <1>1 DEF EntryShown, TypeOK
    <2>2. ASSUME NEW r \in Runs, StoreFinal(r) PROVE status'[crews[c]] # "unmade"
      <3>1. out[r] \in Finished /\ status' = [status EXCEPT ![EndState(r)] = out[r]]
        BY <2>2 DEF StoreFinal, OutcomeKnown
      <3> QED BY <2>1, <3>1, StateNames DEF TypeOK, Finished
    <2>3. ASSUME NEW r \in Runs, Publish(r) \/ Start(r) \/ FinishError(r) PROVE status'[crews[c]] # "unmade"
      <3>1. \E st \in States \cup {None}, v \in {"pending", "running"} : status' = [status EXCEPT ![st] = v] \/ status' = status
        BY <2>3, StateNames DEF Publish, Start, FinishError, RunsKnowCrew, Entry, TypeOK
      <3> QED BY <2>1, <3>1 DEF TypeOK
    <2>4. ASSUME NEW d \in Crews, CancelCrew(d) PROVE status'[crews[c]] # "unmade"
      BY <2>1, <2>4 DEF CancelCrew, TypeOK
    <2>5. CASE status' = status
      BY <2>1, <2>5
    <2> QED
      BY <2>2, <2>3, <2>4, <2>5 DEF Next, Accept, RunStep, OpenChannel, Abandon, RunnerReturns, AuditFinished, RemoveChannel,
         LeaveRun, Caller, ForgetCrew, ReleaseCrew, ReleaseStep, ReleaseChannel, GiveBack, regVars
  <1>2. ASSUME NEW r \in Runs, Publish(r) PROVE status'[crews'[c]] # "unmade"
    <2>1. AfterEviction[c] \in {None, crews[c]} /\ DOMAIN AfterEviction = Crews
      BY EvictTakesEnded DEF AfterEviction
    <2>2. crewOf[r] \in Crews /\ crews' = [AfterEviction EXCEPT ![crewOf[r]] = RegState(r)] /\ status' = [status EXCEPT ![RegState(r)] = "pending"]
      BY <1>2 DEF Publish, RunsKnowCrew
    <2>3. CASE c = crewOf[r]
      BY <2>1, <2>2, <2>3, StateNames DEF TypeOK
    <2>4. CASE c # crewOf[r]
      BY <1>1, <2>1, <2>2, <2>4
    <2> QED BY <2>3, <2>4
  <1>3. ASSUME NEW r \in Runs, StoreFinal(r) PROVE status'[crews'[c]] # "unmade"
    <2>1. /\ out[r] \in Finished /\ status' = [status EXCEPT ![EndState(r)] = out[r]]
          /\ crewOf[r] \in Crews /\ crews' = [crews EXCEPT ![crewOf[r]] = EndState(r)]
      BY <1>3 DEF StoreFinal, OutcomeKnown, RunsKnowCrew
    <2>2. CASE c = crewOf[r]
      BY <2>1, <2>2, StateNames DEF TypeOK, Finished
    <2>3. CASE c # crewOf[r]
      BY <1>1, <2>1, <2>3 DEF TypeOK
    <2> QED BY <2>2, <2>3
  <1>4. ASSUME NEW d \in Crews, ForgetCrew(d) \/ ReleaseCrew(d) PROVE status'[crews'[c]] # "unmade"
    <2>1. crews' = [crews EXCEPT ![d] = None]
      BY <1>4 DEF ForgetCrew, ReleaseCrew
    <2> QED BY <1>1, <2>1 DEF TypeOK
  <1>5. CASE crews' = crews
    BY <1>1, <1>5
  <1> QED
    BY <1>2, <1>3, <1>4, <1>5 DEF Next, Accept, RunStep, OpenChannel, Abandon, Start, RunnerReturns, FinishError,
       AuditFinished, RemoveChannel, LeaveRun, Caller, CancelCrew, ReleaseStep, ReleaseChannel, GiveBack, regVars

LEMMA UnreturnedStep ==
  ASSUME TypeOK, Unreturned, Next
  PROVE  Unreturned'
  <1> SUFFICES ASSUME NEW s \in Runs,
                      pc'[s] \in {"idle", "accepted", "published", "ready", "running", "unstarted"}
               PROVE  out'[s] = None
    BY DEF Unreturned
  <1>1. ASSUME NEW r \in Runs, RunnerReturns(r) PROVE out'[s] = None
    BY <1>1 DEF RunnerReturns, Unreturned, TypeOK
  <1>2. ASSUME NEW r \in Runs, NEW c \in Crews, Accept(r, c) PROVE out'[s] = None
    BY <1>2 DEF Accept, Unreturned, TypeOK
  <1>3. ASSUME NEW r \in Runs, Publish(r) \/ OpenChannel(r) \/ Abandon(r) \/ Start(r) PROVE out'[s] = None
    BY <1>3 DEF Publish, OpenChannel, Abandon, Start, Unreturned, TypeOK
  <1>4. ASSUME NEW r \in Runs, FinishError(r) \/ AuditFinished(r) \/ StoreFinal(r) \/ RemoveChannel(r) \/ LeaveRun(r)
        PROVE  out'[s] = None
    BY <1>4 DEF FinishError, AuditFinished, StoreFinal, RemoveChannel, LeaveRun, Unreturned, TypeOK
  <1>5. ASSUME NEW c \in Crews, Caller(c) \/ ReleaseStep(c) PROVE out'[s] = None
    BY <1>5 DEF Caller, CancelCrew, ForgetCrew, ReleaseCrew, ReleaseStep, ReleaseChannel, GiveBack, Unreturned, runVars
  <1> QED BY <1>1, <1>2, <1>3, <1>4, <1>5 DEF Next, RunStep

LEMMA HeldStatusStep ==
  ASSUME IndInv, Reuse # "any", HeldStatus, Next
  PROVE  HeldStatus'
  <1>0. TypeOK /\ RunsKnowCrew /\ EntryOwned /\ HeldIsRegistered
    BY DEF IndInv
  <1> SUFFICES ASSUME NEW s \in Runs
               PROVE  /\ pc'[s] \in {"published", "ready"} => status'[RegState(s)] \in {"pending", "cancelled"}
                      /\ pc'[s] \in {"running", "ran", "audited"} => status'[RegState(s)] \in {"running", "cancelled"}
                      /\ pc'[s] \in Held /\ status'[RegState(s)] = "cancelled" => cancelled'[s]
    BY DEF HeldStatus
  <1> DEFINE Goal == /\ pc'[s] \in {"published", "ready"} => status'[RegState(s)] \in {"pending", "cancelled"}
                     /\ pc'[s] \in {"running", "ran", "audited"} => status'[RegState(s)] \in {"running", "cancelled"}
                     /\ pc'[s] \in Held /\ status'[RegState(s)] = "cancelled" => cancelled'[s]
  <1>1. /\ pc[s] \in {"published", "ready"} => status[RegState(s)] \in {"pending", "cancelled"}
        /\ pc[s] \in {"running", "ran", "audited"} => status[RegState(s)] \in {"running", "cancelled"}
        /\ pc[s] \in Held /\ status[RegState(s)] = "cancelled" => cancelled[s]
    BY DEF HeldStatus
  <1>2. ASSUME NEW r \in Runs, Publish(r) PROVE Goal
    <2>1. pc' = [pc EXCEPT ![r] = "published"] /\ status' = [status EXCEPT ![RegState(r)] = "pending"] /\ cancelled' = cancelled
      BY <1>2 DEF Publish
    <2> QED BY <1>0, <1>1, <2>1, StateNames DEF TypeOK, Held
  <1>3. ASSUME NEW r \in Runs, Start(r) PROVE Goal
    <2>1. crewOf[r] \in Crews /\ crews[crewOf[r]] = RegState(r)
      BY <1>0, <1>3 DEF Start, HeldIsRegistered, Held, RunsKnowCrew
    <2>2. /\ pc[r] = "ready" /\ pc' = [pc EXCEPT ![r] = "running"] /\ cancelled' = cancelled
          /\ status' = IF status[RegState(r)] = "pending" THEN [status EXCEPT ![RegState(r)] = "running"] ELSE status
      BY <1>3, <2>1, StateNames DEF Start, Entry
    <2>3. CASE s = r
      BY <1>0, <1>1, <2>2, <2>3, StateNames DEF TypeOK, Held
    <2>4. CASE s # r
      BY <1>0, <1>1, <2>2, <2>4, StateNames DEF TypeOK
    <2> QED BY <2>3, <2>4
  <1>4. ASSUME NEW r \in Runs, FinishError(r) PROVE Goal
    <2>1. crewOf[r] \in Crews /\ crews[crewOf[r]] = RegState(r)
      BY <1>0, <1>4 DEF FinishError, HeldIsRegistered, Held, RunsKnowCrew
    <2>2. /\ pc' = [pc EXCEPT ![r] = "leaving"] /\ cancelled' = cancelled
          /\ status' = IF status[RegState(r)] = "running" THEN [status EXCEPT ![RegState(r)] = "pending"] ELSE status
      BY <1>4, <2>1, StateNames DEF FinishError, Entry
    <2>3. CASE s = r
      BY <1>0, <2>2, <2>3 DEF TypeOK, Held
    <2>4. CASE s # r
      BY <1>0, <1>1, <2>2, <2>4, StateNames DEF TypeOK
    <2> QED BY <2>3, <2>4
  <1>5. ASSUME NEW r \in Runs, StoreFinal(r) PROVE Goal
    <2>1. pc' = [pc EXCEPT ![r] = "stored"] /\ status' = [status EXCEPT ![EndState(r)] = out[r]] /\ cancelled' = cancelled
      BY <1>5 DEF StoreFinal
    <2>2. status'[RegState(s)] = status[RegState(s)] /\ pc'[s] \in {pc[s], "stored"}
      BY <1>0, <2>1, StateNames DEF TypeOK
    <2> QED BY <1>1, <2>1, <2>2 DEF Held
  <1>6. ASSUME NEW c \in Crews, CancelCrew(c) PROVE Goal
    <2>1. /\ pc' = pc /\ crews[c] # None /\ crews[c] \in States /\ status' = [status EXCEPT ![crews[c]] = "cancelled"]
          /\ cancelled' = IF flag[c] = None THEN cancelled ELSE [cancelled EXCEPT ![flag[c]] = TRUE]
      BY <1>0, <1>6 DEF CancelCrew, MayCancel, Registered, Entry, TypeOK
    <2>2. cancelled[s] => cancelled'[s]
      BY <1>0, <2>1 DEF TypeOK
    <2>3. CASE RegState(s) = crews[c]
      <3>1. crewOf[s] = c
        BY <1>0, <2>1, <2>3, StateNames DEF EntryOwned
      <3>2. pc[s] \in Held => flag[c] = s
        BY <1>0, <3>1 DEF HeldIsRegistered
      <3>3. pc[s] \in Held => cancelled'[s]
        BY <1>0, <2>1, <3>2, NoneAssumption DEF TypeOK
      <3>4. status'[RegState(s)] = "cancelled"
        BY <1>0, <2>1, <2>3 DEF TypeOK
      <3> QED BY <2>1, <3>3, <3>4
    <2>4. CASE RegState(s) # crews[c]
      <3>1. status'[RegState(s)] = status[RegState(s)]
        BY <1>0, <2>1, <2>4, StateNames DEF TypeOK
      <3> QED BY <1>1, <2>1, <2>2, <3>1
    <2> QED BY <2>3, <2>4
  <1>7. ASSUME NEW r \in Runs, OpenChannel(r) \/ Abandon(r) \/ RunnerReturns(r) \/ AuditFinished(r) \/ RemoveChannel(r) \/ LeaveRun(r)
        PROVE  Goal
    BY <1>0, <1>1, <1>7 DEF OpenChannel, Abandon, RunnerReturns, AuditFinished, RemoveChannel, LeaveRun, TypeOK, Held, regVars
  <1>8. ASSUME NEW r \in Runs, NEW c \in Crews, Accept(r, c) PROVE Goal
    BY <1>0, <1>1, <1>8 DEF Accept, TypeOK, Held, regVars
  <1>9. ASSUME NEW c \in Crews, ForgetCrew(c) \/ ReleaseCrew(c) \/ ReleaseStep(c) PROVE Goal
    BY <1>1, <1>9 DEF ForgetCrew, ReleaseCrew, ReleaseStep, ReleaseChannel, GiveBack, runVars, regVars
  <1> QED
    BY <1>2, <1>3, <1>4, <1>5, <1>6, <1>7, <1>8, <1>9 DEF Next, RunStep, Caller

\* A state that is about to be queued is not queued yet: a slot that is current is one
\* of a crew that has ended and that nobody holds.
LEMMA NotYetQueued ==
  ASSUME IndInv, NEW st \in States,
         \/ \E c \in Crews : crews[c] = st /\ (flag[c] # None \/ ~IsFinished(st))
         \/ st.final /\ pc[st.run] = "audited"
  PROVE  \A e \in ended : e.st # st
  <1> SUFFICES ASSUME NEW e \in ended, e.st = st PROVE FALSE
    OBVIOUS
  <1>1. CASE \E c \in Crews : crews[c] = st /\ (flag[c] # None \/ ~IsFinished(st))
    <2>1. PICK c \in Crews : crews[c] = st /\ (flag[c] # None \/ ~IsFinished(st))
      BY <1>1
    <2>2. crewOf[st.run] = c
      BY <2>1, StateNames DEF IndInv, EntryOwned
    <2> QED BY <2>1, <2>2 DEF IndInv, QueuedHasEnded, IsCurrent
  <1>2. CASE st.final /\ pc[st.run] = "audited"
    BY <1>2 DEF IndInv, SlotMade
  <1> QED BY <1>1, <1>2

\* What a step does to the queue: it drops slots, or queues one new state.
LEMMA QueueMoves ==
  ASSUME IndInv, Next
  PROVE  \/ ended' \subseteq ended /\ tick' = tick
         \/ \E st \in States : /\ ended' \subseteq ended \cup {[pos |-> tick, st |-> st]} /\ tick' = tick + 1
                               /\ Reuse # "any" => \A e \in ended : e.st # st
  <1>0. TypeOK /\ RunsKnowCrew /\ EntryOwned /\ HeldIsRegistered
    BY DEF IndInv
  <1> DEFINE Drops == ended' \subseteq ended /\ tick' = tick
             Queues(st) == /\ ended' \subseteq ended \cup {[pos |-> tick, st |-> st]} /\ tick' = tick + 1
                           /\ Reuse # "any" => \A e \in ended : e.st # st
             Goal == Drops \/ \E st \in States : Queues(st)
  <1>1. ASSUME NEW r \in Runs, Publish(r) PROVE Goal
    BY <1>0, <1>1, EvictKeeps DEF Publish
  <1>2. ASSUME NEW r \in Runs, FinishError(r) PROVE Goal
    <2> DEFINE st == crews[crewOf[r]]
    <2>1. crewOf[r] \in Crews /\ (Reuse # "any" => st = RegState(r) /\ flag[crewOf[r]] # None)
      BY <1>0, <1>2, NoneAssumption DEF FinishError, HeldIsRegistered, Held, RunsKnowCrew
    <2>2. CASE QueuesOnError(st)
      <3>1. st \in States /\ NoteEnded(st, crews)
        BY <1>0, <1>2, <2>1, <2>2 DEF FinishError, QueuesOnError, Entry, TypeOK
      <3>2. ended' \subseteq ended \cup {[pos |-> tick, st |-> st]} /\ tick' = tick + 1
        BY <1>0, <3>1, NoteKeeps DEF NoteEnded
      <3>3. Reuse # "any" => \A e \in ended : e.st # st
        BY <2>1, <3>1, NotYetQueued
      <3> QED BY <3>1, <3>2, <3>3
    <2>3. CASE ~QueuesOnError(st)
      BY <1>2, <2>3 DEF FinishError, Entry
    <2> QED BY <2>2, <2>3
  <1>3. ASSUME NEW r \in Runs, StoreFinal(r) PROVE Goal
    <2>1. pc[r] = "audited" /\ EndState(r) \in States /\ EndState(r).run = r /\ EndState(r).final /\ NoteEnded(EndState(r), crews')
      BY <1>3, StateNames DEF StoreFinal
    <2>2. ended' \subseteq ended \cup {[pos |-> tick, st |-> EndState(r)]} /\ tick' = tick + 1
      BY <1>0, <2>1, NoteKeeps DEF NoteEnded
    <2>3. \A e \in ended : e.st # EndState(r)
      BY <2>1, NotYetQueued
    <2> QED BY <2>1, <2>2, <2>3
  <1>4. ASSUME NEW c \in Crews, CancelCrew(c) PROVE Goal
    <2> DEFINE st == crews[c]
    <2>1. st \in States /\ ~IsFinished(st)
      BY <1>0, <1>4 DEF CancelCrew, MayCancel, Registered, Entry, TypeOK
    <2>2. CASE QueuesOnCancel(c)
      <3>1. NoteEnded(st, crews)
        BY <1>4, <2>2 DEF CancelCrew, Entry
      <3>2. ended' \subseteq ended \cup {[pos |-> tick, st |-> st]} /\ tick' = tick + 1
        BY <1>0, <2>1, <3>1, NoteKeeps DEF NoteEnded
      <3>3. \A e \in ended : e.st # st
        BY <2>1, NotYetQueued
      <3> QED BY <2>1, <3>2, <3>3
    <2>3. CASE ~QueuesOnCancel(c)
      BY <1>4, <2>3 DEF CancelCrew
    <2> QED BY <2>2, <2>3
  <1>5. ASSUME NEW c \in Crews, ForgetCrew(c) PROVE Goal
    <2>1. ended' \subseteq ended
      BY <1>0, <1>5, CompactKeeps DEF ForgetCrew, TypeOK
    <2> QED BY <1>5, <2>1 DEF ForgetCrew
  <1>6. ASSUME NEW c \in Crews, ReleaseCrew(c) PROVE Goal
    <2>1. ended' \subseteq ended
      BY <1>0, <1>6, ReleaseKeeps
    <2> QED BY <1>6, <2>1 DEF ReleaseCrew
  <1>7. CASE ended' = ended /\ tick' = tick
    BY <1>7
  <1>8. \/ ended' = ended /\ tick' = tick
        \/ \E r \in Runs : Publish(r) \/ FinishError(r) \/ StoreFinal(r)
        \/ \E c \in Crews : CancelCrew(c) \/ ForgetCrew(c) \/ ReleaseCrew(c)
    BY DEF Next, Accept, RunStep, OpenChannel, Abandon, Start, RunnerReturns, AuditFinished, RemoveChannel, LeaveRun, Caller,
           ReleaseStep, ReleaseChannel, GiveBack, regVars
  <1>9. CASE \E r \in Runs : Publish(r) \/ FinishError(r) \/ StoreFinal(r)
    BY <1>1, <1>2, <1>3, <1>9
  <1>10. CASE \E c \in Crews : CancelCrew(c) \/ ForgetCrew(c) \/ ReleaseCrew(c)
    BY <1>4, <1>5, <1>6, <1>10
  <1>11. Goal
    BY <1>7, <1>8, <1>9, <1>10
  <1> QED BY <1>11

LEMMA PositionsStep ==
  ASSUME IndInv, Positions, Next
  PROVE  Positions' /\ (Reuse # "any" /\ OnceQueued => OnceQueued')
  <1>0. tick \in Nat /\ ended \subseteq Slots
    BY DEF IndInv, TypeOK
  <1>1. CASE ended' \subseteq ended /\ tick' = tick
    BY <1>1 DEF Positions, OnceQueued
  <1>2. ASSUME NEW st \in States, ended' \subseteq ended \cup {[pos |-> tick, st |-> st]}, tick' = tick + 1,
               Reuse # "any" => \A e \in ended : e.st # st
        PROVE  Positions' /\ (Reuse # "any" /\ OnceQueued => OnceQueued')
    <2>1. \A e \in ended' : e \in ended \/ e = [pos |-> tick, st |-> st]
      BY <1>2
    <2>2. \A e \in ended : e.pos \in Nat /\ e.pos < tick /\ e.pos # tick
      BY <1>0 DEF Positions, Slots
    <2>3. \A e \in ended' : e.pos < tick'
      BY <1>0, <1>2, <2>1, <2>2
    <2>4. \A e, f \in ended' : e.pos = f.pos => e = f
      BY <2>1, <2>2 DEF Positions
    <2>5. ASSUME Reuse # "any", OnceQueued PROVE \A e, f \in ended' : e.st = f.st => e = f
      BY <1>2, <2>1, <2>5 DEF OnceQueued
    <2> QED BY <2>3, <2>4, <2>5 DEF Positions, OnceQueued
  <1> QED BY <1>1, <1>2, QueueMoves

\* The ids that m has an entry for.
InMap(m) == {c \in Crews : m[c] # None}

\* Entries made by runs are finitely many, however many ids there are.
LEMMA MapFinite ==
  ASSUME NEW m, \A c \in InMap(m) : m[c] \in States /\ crewOf[m[c].run] = c
  PROVE  IsFiniteSet(InMap(m)) /\ Size(m) = Cardinality(InMap(m)) /\ Size(m) \in Nat
  <1> DEFINE f == [c \in InMap(m) |-> m[c].run]
  <1>1. \A c \in InMap(m) : m[c].run \in Runs
    BY DEF States
  <1>2. f \in Injection(InMap(m), Runs)
    BY <1>1 DEF Injection, IsInjective
  <1>3. IsFiniteSet(InMap(m))
    BY <1>2, RunsAssumption, FS_Injection
  <1>4. Size(m) = Cardinality(InMap(m))
    BY DEF Size, InMap
  <1> QED BY <1>3, <1>4, FS_CardinalityType

\* A compaction brings the queue down to one slot an entry, or was not due.
LEMMA CompactBounds ==
  ASSUME NEW q, q \subseteq Slots, IsFiniteSet(q), NEW hd \in Nat, NEW m, CompactEnded(q, hd, m),
         \A c \in InMap(m) : m[c] \in States /\ crewOf[m[c].run] = c,
         \A e \in q : crewOf[e.st.run] \in Crews, \A e, f \in q : e.st = f.st => e = f
  PROVE  Cardinality(ended') <= 2 * Size(m) + QueueSlack /\ popped' < PoppedMax
  <1>0. QueueSlack \in Nat /\ PoppedMax \in Nat /\ 0 < PoppedMax /\ Cardinality(q) \in Nat
    BY MarksAssumption, FS_CardinalityType
  <1>1. IsFiniteSet(InMap(m)) /\ Size(m) = Cardinality(InMap(m)) /\ Size(m) \in Nat
    BY MapFinite
  <1>2. CASE CompactDue(q, hd, m)
    <2>1. ended' = {e \in q : IsCurrent(m, e.st)} /\ popped' = 0
      BY <1>2 DEF CompactEnded
    <2> DEFINE K == {e \in q : IsCurrent(m, e.st)}
               f == [e \in K |-> crewOf[e.st.run]]
    <2>2. ASSUME NEW e \in K PROVE crewOf[e.st.run] \in InMap(m) /\ m[crewOf[e.st.run]] = e.st
      BY StateNames DEF IsCurrent, InMap, Slots
    <2>3. \A e, g \in K : crewOf[e.st.run] = crewOf[g.st.run] => e = g
      BY <2>2
    <2>4. f \in Injection(K, InMap(m))
      BY <2>2, <2>3 DEF Injection, IsInjective
    <2>5. IsFiniteSet(K) /\ Cardinality(K) <= Size(m)
      BY <1>1, <2>4, FS_Injection
    <2>6. Cardinality(ended') <= Size(m) /\ Cardinality(ended') \in Nat
      BY <2>1, <2>5, FS_CardinalityType
    <2> QED BY <1>0, <1>1, <2>1, <2>6
  <1>3. CASE ~CompactDue(q, hd, m)
    <2>1. ended' = q /\ popped' = hd
      BY <1>3 DEF CompactEnded
    <2> QED BY <1>0, <1>1, <1>3, <2>1 DEF CompactDue
  <1> QED BY <1>2, <1>3

\* More entries, more room.
LEMMA MapGrows ==
  ASSUME NEW m, NEW n, InMap(m) \subseteq InMap(n), IsFiniteSet(InMap(n))
  PROVE  Size(m) <= Size(n) /\ Size(m) \in Nat /\ Size(n) \in Nat
  <1>1. Size(m) = Cardinality(InMap(m)) /\ Size(n) = Cardinality(InMap(n))
    BY DEF Size, InMap
  <1> QED BY <1>1, FS_Subset, FS_CardinalityType

\* Slots are of registered ids.
LEMMA SlotsKnown ==
  ASSUME IndInv
  PROVE  /\ ended \subseteq Slots /\ IsFiniteSet(ended) /\ popped \in Nat /\ tick \in Nat
         /\ \A e \in ended : e.st \in States /\ e.st.run \in Runs /\ crewOf[e.st.run] \in Crews
         /\ \A c \in InMap(crews) : crews[c] \in States /\ crewOf[crews[c].run] = c
  BY DEF IndInv, TypeOK, Slots, States, SlotMade, RunsKnowCrew, EntryOwned, InMap

\* Noting a state that is not queued keeps the queue in bounds.
LEMMA NoteBounds ==
  ASSUME IndInv, OnceQueued, NEW st \in States, \A e \in ended : e.st # st, crewOf[st.run] \in Crews,
         NEW m, \A c \in InMap(m) : m[c] \in States /\ crewOf[m[c].run] = c, NoteEnded(st, m)
  PROVE  Cardinality(ended') <= 2 * Size(m) + QueueSlack /\ popped' < PoppedMax
  <1> DEFINE x == [pos |-> tick, st |-> st]
             q == ended \cup {x}
  <1>0. ended \subseteq Slots /\ IsFiniteSet(ended) /\ popped \in Nat /\ tick \in Nat
    BY SlotsKnown
  <1>1. q \subseteq Slots /\ IsFiniteSet(q) /\ popped \in Nat
    <2>1. x \in Slots
      BY <1>0 DEF Slots
    <2> HIDE DEF x
    <2> QED BY <1>0, <2>1, FS_AddElement
  <1>2. (\A e \in q : crewOf[e.st.run] \in Crews) /\ \A e, f \in q : e.st = f.st => e = f
    BY SlotsKnown DEF OnceQueued
  <1>3. CompactEnded(q, popped, m)
    BY DEF NoteEnded
  <1>4. \A c \in InMap(m) : m[c] \in States /\ crewOf[m[c].run] = c
    OBVIOUS
  <1> HIDE DEF q, x
  <1> QED BY ONLY <1>1, <1>2, <1>3, <1>4, CompactBounds

LEMMA BoundedStep ==
  ASSUME IndInv, IndInv', Reuse # "any", OnceQueued, QueueBounded, Next
  PROVE  QueueBounded'
  <1>0. TypeOK /\ RunsKnowCrew /\ EntryOwned /\ HeldIsRegistered
    BY DEF IndInv
  <1>1. /\ \A c \in InMap(crews) : crews[c] \in States /\ crewOf[crews[c].run] = c
        /\ \A e \in ended : e.st \in States /\ e.st.run \in Runs /\ crewOf[e.st.run] \in Crews
        /\ ended \subseteq Slots /\ IsFiniteSet(ended) /\ popped \in Nat
    BY SlotsKnown
  <1>2. \A c \in InMap(crews') : crews'[c] \in States /\ crewOf'[crews'[c].run] = c
    BY DEF IndInv, TypeOK, EntryOwned, InMap
  <1>3. ASSUME Cardinality(ended') <= 2 * Size(crews') + QueueSlack, popped' < PoppedMax PROVE QueueBounded'
    BY <1>3 DEF QueueBounded, Size
  <1>4. ASSUME NEW r \in Runs, Publish(r) PROVE QueueBounded'
    <2>1. crewOf' = crewOf /\ crewOf[r] \in Crews /\ crews' = [AfterEviction EXCEPT ![crewOf[r]] = RegState(r)] /\ EvictQueue
      BY <1>0, <1>4 DEF Publish, RunsKnowCrew
    <2>2. \A c \in Crews : AfterEviction[c] \in {None, crews[c]}
      BY <1>0, EvictTakesEnded DEF IndInv
    <2>3. DOMAIN AfterEviction = Crews
      BY DEF AfterEviction
    <2>4. InMap(AfterEviction) \subseteq InMap(crews')
      BY <2>1, <2>3, StateNames DEF InMap
    <2>5. IsFiniteSet(InMap(crews'))
      BY <1>2, <2>1, MapFinite
    <2>6. \A c \in InMap(AfterEviction) : AfterEviction[c] \in States /\ crewOf[AfterEviction[c].run] = c
      BY <1>1, <2>2 DEF InMap
    <2>7. Size(AfterEviction) <= Size(crews') /\ Size(AfterEviction) \in Nat /\ Size(crews') \in Nat
      BY <2>4, <2>5, MapGrows
    <2>8. CASE Size(crews) < MaxRetained + Size(flag)
      <3>1. ended' = ended /\ popped' = popped /\ PoppedSlots = {}
        BY <2>1, <2>8 DEF EvictQueue, PoppedSlots
      <3>2. AfterEviction = crews
        BY <1>0, <3>1 DEF AfterEviction, Evicted, Entry, TypeOK
      <3>3. Cardinality(ended) <= 2 * Size(crews) + QueueSlack /\ popped < PoppedMax
        BY DEF QueueBounded
      <3>4. Cardinality(ended) \in Nat /\ QueueSlack \in Nat
        BY <1>1, FS_CardinalityType, MarksAssumption
      <3>5. Cardinality(ended) <= 2 * Size(crews') + QueueSlack
        BY <2>7, <3>2, <3>3, <3>4
      <3> QED BY <1>3, <3>1, <3>3, <3>5
    <2>9. CASE ~(Size(crews) < MaxRetained + Size(flag))
      <3> DEFINE q == ended \ PoppedSlots
      <3>1. CompactEnded(q, popped + Cardinality(PoppedSlots), AfterEviction)
        BY <2>1, <2>9 DEF EvictQueue
      <3>2. PoppedSlots \subseteq ended
        BY <2>9 DEF PoppedSlots
      <3>3. IsFiniteSet(q) /\ q \subseteq ended /\ popped + Cardinality(PoppedSlots) \in Nat
        BY <1>1, <3>2, FS_Subset, FS_CardinalityType
      <3> HIDE DEF q
      <3>4. q \subseteq Slots /\ (\A e \in q : crewOf[e.st.run] \in Crews) /\ (\A e, f \in q : e.st = f.st => e = f)
        BY <1>1, <3>3 DEF OnceQueued
      <3>5. Cardinality(ended') <= 2 * Size(AfterEviction) + QueueSlack /\ popped' < PoppedMax
        BY <2>6, <3>1, <3>3, <3>4, CompactBounds
      <3>6. ended' \subseteq q /\ IsFiniteSet(ended')
        BY <3>1, <3>3, CompactKeeps
      <3>7. Cardinality(ended') \in Nat /\ QueueSlack \in Nat
        BY <3>6, FS_CardinalityType, MarksAssumption
      <3>8. Cardinality(ended') <= 2 * Size(crews') + QueueSlack
        BY <2>7, <3>5, <3>7
      <3> QED BY <1>3, <3>5, <3>8
    <2> QED BY <2>8, <2>9
  <1>5. ASSUME NEW r \in Runs, FinishError(r), QueuesOnError(crews[crewOf[r]]) PROVE QueueBounded'
    <2>1. crewOf[r] \in Crews /\ crews[crewOf[r]] = RegState(r) /\ flag[crewOf[r]] # None
      BY <1>0, <1>5, NoneAssumption DEF FinishError, HeldIsRegistered, Held, RunsKnowCrew
    <2>2. NoteEnded(RegState(r), crews) /\ crews' = crews
      BY <1>5, <2>1 DEF FinishError, Entry
    <2>3. \A e \in ended : e.st # RegState(r)
      BY <2>1, StateNames, NotYetQueued
    <2>4. Cardinality(ended') <= 2 * Size(crews) + QueueSlack /\ popped' < PoppedMax
      BY <1>1, <2>1, <2>2, <2>3, StateNames, NoteBounds
    <2> QED BY <1>3, <2>2, <2>4
  <1>6. ASSUME NEW r \in Runs, StoreFinal(r) PROVE QueueBounded'
    <2>1. crewOf[r] \in Crews /\ pc[r] = "audited" /\ NoteEnded(EndState(r), crews') /\ crewOf' = crewOf
      BY <1>0, <1>6 DEF StoreFinal, RunsKnowCrew
    <2>2. \A e \in ended : e.st # EndState(r)
      BY <2>1, StateNames, NotYetQueued
    <2>3. Cardinality(ended') <= 2 * Size(crews') + QueueSlack /\ popped' < PoppedMax
      BY <1>2, <2>1, <2>2, StateNames, NoteBounds
    <2> QED BY <1>3, <2>3
  <1>7. ASSUME NEW c \in Crews, CancelCrew(c), QueuesOnCancel(c) PROVE QueueBounded'
    <2>1. crews[c] \in States /\ ~IsFinished(crews[c]) /\ NoteEnded(crews[c], crews) /\ crews' = crews
      BY <1>0, <1>7 DEF CancelCrew, MayCancel, Registered, Entry, TypeOK
    <2>2. \A e \in ended : e.st # crews[c]
      BY <2>1, NotYetQueued
    <2>3. crewOf[crews[c].run] \in Crews
      BY <1>0, <2>1, StateNames DEF EntryOwned
    <2>4. Cardinality(ended') <= 2 * Size(crews) + QueueSlack /\ popped' < PoppedMax
      BY <1>1, <2>1, <2>2, <2>3, NoteBounds
    <2> QED BY <1>3, <2>1, <2>4
  <1>8. ASSUME NEW c \in Crews, ForgetCrew(c) \/ ReleaseCrew(c) PROVE QueueBounded'
    <2>1. /\ crewOf' = crewOf
          /\ \E q \in SUBSET ended : CompactEnded(q, popped, crews')
      BY <1>8 DEF ForgetCrew, ReleaseCrew, runVars
    <2>2. PICK q \in SUBSET ended : CompactEnded(q, popped, crews')
      BY <2>1
    <2>3. q \subseteq Slots /\ IsFiniteSet(q) /\ (\A e \in q : crewOf[e.st.run] \in Crews) /\ (\A e, f \in q : e.st = f.st => e = f)
      BY <1>1, FS_Subset DEF OnceQueued
    <2>4. Cardinality(ended') <= 2 * Size(crews') + QueueSlack /\ popped' < PoppedMax
      BY <1>1, <1>2, <2>1, <2>2, <2>3, CompactBounds
    <2> QED BY <1>3, <2>4
  <1>9. CASE ended' = ended /\ popped' = popped /\ crews' = crews
    BY <1>9 DEF QueueBounded, Size
  <1>10. \/ ended' = ended /\ popped' = popped /\ crews' = crews
         \/ \E r \in Runs : Publish(r) \/ (FinishError(r) /\ QueuesOnError(crews[crewOf[r]])) \/ StoreFinal(r)
         \/ \E c \in Crews : (CancelCrew(c) /\ QueuesOnCancel(c)) \/ ForgetCrew(c) \/ ReleaseCrew(c)
    BY DEF Next, Accept, RunStep, OpenChannel, Abandon, Start, RunnerReturns, FinishError, AuditFinished, RemoveChannel,
           LeaveRun, Caller, CancelCrew, ReleaseStep, ReleaseChannel, GiveBack, regVars, Entry
  <1> QED BY <1>4, <1>5, <1>6, <1>7, <1>8, <1>9, <1>10

\* A slot of an entry that stays is not lost: eviction pops the slots of the entries it
\* deletes, and a compaction or a purge drops none that is current.
LEMMA CurrentStays ==
  ASSUME IndInv, Next, NEW c \in Crews, crews[c] # None, crews'[c] = crews[c], NEW e \in ended, e.st = crews[c]
  PROVE  e \in ended'
  <1>0. TypeOK /\ RunsKnowCrew /\ EntryOwned /\ EntryMade
    BY DEF IndInv
  <1>1. crewOf[e.st.run] = c /\ IsCurrent(crews, e.st)
    BY <1>0 DEF EntryOwned, IsCurrent
  <1>2. ASSUME NEW q, e \in q, NEW hd, NEW m, m[c] = crews[c], CompactEnded(q, hd, m) PROVE e \in ended'
    BY <1>1, <1>2 DEF CompactEnded, IsCurrent
  <1>3. ASSUME NEW st, NoteEnded(st, crews) PROVE e \in ended'
    BY <1>2, <1>3 DEF NoteEnded
  <1>4. ASSUME NEW r \in Runs, Publish(r) PROVE e \in ended'
    <2>1. crews' = [AfterEviction EXCEPT ![crewOf[r]] = RegState(r)] /\ crewOf[r] \in Crews /\ pc[r] = "accepted" /\ EvictQueue
      BY <1>0, <1>4 DEF Publish, RunsKnowCrew
    <2>2. crews[c] # RegState(r)
      BY <1>0, <2>1, StateNames DEF EntryMade
    <2>3. AfterEviction[c] = crews[c] /\ AfterEviction[c] # None
      BY <2>1, <2>2 DEF AfterEviction
    <2>4. ~Evicted(c)
      BY <2>3 DEF AfterEviction
    <2>5. e \notin PoppedSlots
      BY <1>1, <2>4 DEF Evicted
    <2>6. CASE Size(crews) < MaxRetained + Size(flag)
      BY <2>1, <2>6 DEF EvictQueue
    <2>7. CASE ~(Size(crews) < MaxRetained + Size(flag))
      <3>1. CompactEnded(ended \ PoppedSlots, popped + Cardinality(PoppedSlots), AfterEviction)
        BY <2>1, <2>7 DEF EvictQueue
      <3>2. e \in ended \ PoppedSlots
        BY <2>5
      <3> QED BY <1>2, <2>3, <3>1, <3>2
    <2> QED BY <2>6, <2>7
  <1>5. ASSUME NEW r \in Runs, FinishError(r) PROVE e \in ended'
    BY <1>3, <1>5 DEF FinishError
  <1>6. ASSUME NEW r \in Runs, StoreFinal(r) PROVE e \in ended'
    <2>1. CompactEnded(ended \cup {[pos |-> tick, st |-> EndState(r)]}, popped, crews')
      BY <1>6 DEF StoreFinal, NoteEnded
    <2> QED BY <1>2, <2>1
  <1>7. ASSUME NEW d \in Crews, CancelCrew(d) PROVE e \in ended'
    BY <1>3, <1>7 DEF CancelCrew
  <1>8. ASSUME NEW d \in Crews, ForgetCrew(d) PROVE e \in ended'
    BY <1>2, <1>8 DEF ForgetCrew
  <1>9. ASSUME NEW d \in Crews, ReleaseCrew(d) PROVE e \in ended'
    <2>1. CompactEnded({f \in ended : ~InArena(d, f.st)}, popped, crews') /\ crews' = [crews EXCEPT ![d] = None]
      BY <1>9 DEF ReleaseCrew
    <2>2. d # c
      BY <1>0, <2>1 DEF TypeOK
    <2>3. e \in {f \in ended : ~InArena(d, f.st)}
      BY <1>1, <2>2 DEF InArena
    <2> QED BY <1>2, <2>1, <2>3
  <1>10. \/ ended' = ended
         \/ \E r \in Runs : Publish(r) \/ FinishError(r) \/ StoreFinal(r)
         \/ \E d \in Crews : CancelCrew(d) \/ ForgetCrew(d) \/ ReleaseCrew(d)
    BY DEF Next, Accept, RunStep, OpenChannel, Abandon, Start, RunnerReturns, AuditFinished, RemoveChannel,
           LeaveRun, Caller, ReleaseStep, ReleaseChannel, GiveBack, regVars
  <1> QED BY <1>4, <1>5, <1>6, <1>7, <1>8, <1>9, <1>10

\* What EndedIsQueued asks of an entry st: it is queued, or it was cancelled before its
\* thread failed to start.
Accounted(st) ==
    \/ \E e \in ended : e.st = st
    \/ SpawnMayFail /\ cancelled[st.run] /\ out[st.run] = None /\ ~st.final

\* An entry that was accounted for and stays an entry that nobody holds still is.
LEMMA AccountStays ==
  ASSUME IndInv, HeldIsRegistered, Reuse # "any", Next, NEW c \in Crews, crews[c] # None, crews'[c] = crews[c], flag[c] = None,
         Accounted(crews[c])
  PROVE  Accounted(crews[c])'
  <1>0. TypeOK /\ RunsKnowCrew /\ EntryOwned
    BY DEF IndInv
  <1>1. ASSUME NEW e \in ended, e.st = crews[c] PROVE Accounted(crews[c])'
    BY <1>1, CurrentStays DEF Accounted
  <1>2. ASSUME SpawnMayFail, cancelled[crews[c].run], out[crews[c].run] = None, ~crews[c].final PROVE Accounted(crews[c])'
    <2> DEFINE s == crews[c].run
    <2>1. s \in Runs /\ crewOf[s] = c /\ crews[c] \in States
      BY <1>0 DEF TypeOK, States, EntryOwned
    <2>2. pc[s] # "running"
      BY <2>1, NoneAssumption DEF HeldIsRegistered, Held
    <2>3. out'[s] = out[s]
      BY <1>0, <2>1, <2>2 DEF Next, Accept, RunStep, Publish, OpenChannel, Abandon, Start, RunnerReturns, FinishError,
         AuditFinished, StoreFinal, RemoveChannel, LeaveRun, Caller, CancelCrew, ForgetCrew, ReleaseCrew, ReleaseStep,
         ReleaseChannel, GiveBack, runVars, TypeOK
    <2>4. cancelled'[s]
      BY <1>0, <1>2, <2>1 DEF Next, Accept, RunStep, Publish, OpenChannel, Abandon, Start, RunnerReturns, FinishError,
         AuditFinished, StoreFinal, RemoveChannel, LeaveRun, Caller, CancelCrew, ForgetCrew, ReleaseCrew, ReleaseStep,
         ReleaseChannel, GiveBack, runVars, TypeOK
    <2> QED BY <1>2, <2>3, <2>4 DEF Accounted
  <1> QED BY <1>1, <1>2 DEF Accounted

LEMMA EndedQueuedStep ==
  ASSUME IndInv, IndInv', Reuse # "any", Unreturned, HeldStatus, EndedIsQueued, Next
  PROVE  EndedIsQueued'
  <1>0. TypeOK /\ RunsKnowCrew /\ EntryOwned /\ EntryMade /\ HeldIsRegistered /\ QueuedHasEnded /\ FlagOwned /\ OneHolder
    BY DEF IndInv
  <1> SUFFICES ASSUME NEW c \in Crews, crews'[c] # None, flag'[c] = None, status'[crews'[c]] \in Finished
               PROVE  Accounted(crews[c])' 
    BY DEF EndedIsQueued, Registered, Entry, IsFinished, Accounted
  <1>1. ASSUME crews'[c] = crews[c], flag[c] = None, status[crews[c]] \in Finished PROVE Accounted(crews[c])'
    <2>1. Accounted(crews[c])
      BY <1>1 DEF EndedIsQueued, Registered, Entry, IsFinished, Accounted
    <2> QED BY <1>0, <1>1, <2>1, AccountStays
  <1>2. ASSUME NEW r \in Runs, Publish(r) PROVE Accounted(crews[c])'
    <2>1. /\ crews' = [AfterEviction EXCEPT ![crewOf[r]] = RegState(r)] /\ crewOf[r] \in Crews /\ pc[r] = "accepted"
          /\ flag' = [flag EXCEPT ![crewOf[r]] = r] /\ status' = [status EXCEPT ![RegState(r)] = "pending"]
      BY <1>0, <1>2 DEF Publish, RunsKnowCrew
    <2>2. c # crewOf[r] /\ flag[c] = None
      BY <1>0, <2>1, NoneAssumption DEF TypeOK
    <2>3. AfterEviction[c] \in {None, crews[c]} /\ DOMAIN AfterEviction = Crews
      BY <1>0, EvictTakesEnded DEF AfterEviction
    <2>4. crews'[c] = crews[c] /\ crews[c] # None
      BY <2>1, <2>2, <2>3
    <2>5. crews[c] # RegState(r) /\ crews[c] \in States
      BY <1>0, <2>1, <2>4, StateNames DEF EntryMade, TypeOK
    <2>6. status'[crews[c]] = status[crews[c]]
      BY <1>0, <2>1, <2>5 DEF TypeOK
    <2> QED BY <1>1, <2>2, <2>4, <2>6
  <1>3. ASSUME NEW r \in Runs, Abandon(r) PROVE Accounted(crews[c])'
    <2>1. /\ crews' = crews /\ status' = status /\ cancelled' = cancelled /\ out' = out /\ SpawnMayFail /\ pc[r] = "ready"
          /\ flag' = [flag EXCEPT ![crewOf[r]] = None]
      BY <1>3 DEF Abandon
    <2>2. CASE c = crewOf[r]
      <3>1. crews[c] = RegState(r) /\ out[r] = None
        BY <1>0, <2>1, <2>2 DEF HeldIsRegistered, Held, Unreturned
      <3>2. status[RegState(r)] \in {"pending", "cancelled"}
        BY <2>1 DEF HeldStatus
      <3>3. status[RegState(r)] = "cancelled"
        BY <2>1, <3>1, <3>2 DEF Finished
      <3>4. cancelled[r]
        BY <2>1, <3>3 DEF HeldStatus, Held
      <3> QED BY <2>1, <3>1, <3>4, StateNames DEF Accounted
    <2>3. CASE c # crewOf[r]
      BY <1>0, <1>1, <2>1, <2>3 DEF TypeOK
    <2> QED BY <2>2, <2>3
  <1>4. ASSUME NEW r \in Runs, FinishError(r) PROVE Accounted(crews[c])'
    <2>1. crewOf[r] \in Crews /\ crews[crewOf[r]] = RegState(r)
      BY <1>0, <1>4 DEF FinishError, HeldIsRegistered, Held, RunsKnowCrew
    <2>2. /\ crews' = crews /\ flag' = [flag EXCEPT ![crewOf[r]] = None]
          /\ status' = IF status[RegState(r)] = "running" THEN [status EXCEPT ![RegState(r)] = "pending"] ELSE status
          /\ QueuesOnError(RegState(r)) => NoteEnded(RegState(r), crews)
      BY <1>4, <2>1, StateNames DEF FinishError, Entry
    <2>3. CASE c = crewOf[r]
      <3>1. status[RegState(r)] \in Finished
        BY <1>0, <2>1, <2>2, <2>3, StateNames DEF TypeOK, Finished
      <3>2. NoteEnded(RegState(r), crews)
        BY <2>2, <3>1, StateNames DEF QueuesOnError
      <3>3. IsCurrent(crews, RegState(r))
        BY <2>1, StateNames DEF IsCurrent
      <3>4. [pos |-> tick, st |-> RegState(r)] \in ended'
        BY <3>2, <3>3 DEF NoteEnded, CompactEnded
      <3> QED BY <2>1, <2>2, <2>3, <3>4 DEF Accounted
    <2>4. CASE c # crewOf[r]
      <3>1. crews[c] # RegState(r) /\ crews[c] \in States
        BY <1>0, <2>2, <2>4, StateNames DEF EntryOwned, TypeOK
      <3> QED BY <1>0, <1>1, <2>2, <2>4, <3>1 DEF TypeOK
    <2> QED BY <2>3, <2>4
  <1>5. ASSUME NEW r \in Runs, StoreFinal(r) PROVE Accounted(crews[c])'
    <2>1. /\ crewOf[r] \in Crews /\ crews' = [crews EXCEPT ![crewOf[r]] = EndState(r)] /\ flag' = [flag EXCEPT ![crewOf[r]] = None]
          /\ status' = [status EXCEPT ![EndState(r)] = out[r]] /\ NoteEnded(EndState(r), crews') /\ pc[r] = "audited"
      BY <1>0, <1>5 DEF StoreFinal, RunsKnowCrew
    <2>2. CASE c = crewOf[r]
      <3>1. crews'[c] = EndState(r)
        BY <1>0, <2>1, <2>2 DEF TypeOK
      <3>2. IsCurrent(crews', EndState(r))
        BY <2>2, <3>1, StateNames DEF IsCurrent
      <3>3. [pos |-> tick, st |-> EndState(r)] \in ended'
        BY <2>1, <3>2 DEF NoteEnded, CompactEnded
      <3> QED BY <3>1, <3>3 DEF Accounted
    <2>3. CASE c # crewOf[r]
      <3>1. crews'[c] = crews[c] /\ flag'[c] = flag[c]
        BY <1>0, <2>1, <2>3 DEF TypeOK
      <3>2. crews[c] # EndState(r) /\ crews[c] \in States
        BY <1>0, <2>1, <3>1, StateNames DEF EntryMade, TypeOK
      <3> QED BY <1>0, <1>1, <2>1, <3>1, <3>2 DEF TypeOK
    <2> QED BY <2>2, <2>3
  <1>6. ASSUME NEW d \in Crews, CancelCrew(d) PROVE Accounted(crews[c])'
    <2>1. /\ crews[d] # None /\ crews[d] \in States /\ crews' = crews /\ flag' = flag
          /\ status' = [status EXCEPT ![crews[d]] = "cancelled"]
          /\ QueuesOnCancel(d) => NoteEnded(crews[d], crews)
      BY <1>0, <1>6 DEF CancelCrew, MayCancel, Registered, Entry, TypeOK
    <2>2. CASE c = d
      <3>1. NoteEnded(crews[c], crews)
        BY <2>1, <2>2 DEF QueuesOnCancel
      <3>2. IsCurrent(crews, crews[c])
        BY <1>0, <2>1, <2>2 DEF EntryOwned, IsCurrent
      <3>3. [pos |-> tick, st |-> crews[c]] \in ended'
        BY <3>1, <3>2 DEF NoteEnded, CompactEnded
      <3> QED BY <2>1, <3>3 DEF Accounted
    <2>3. CASE c # d
      <3>1. crews[c] # crews[d] /\ crews[c] \in States
        BY <1>0, <2>1, <2>3 DEF EntryOwned, TypeOK
      <3> QED BY <1>0, <1>1, <2>1, <3>1 DEF TypeOK
    <2> QED BY <2>2, <2>3
  <1>7. ASSUME NEW d \in Crews, ForgetCrew(d) \/ ReleaseCrew(d) PROVE Accounted(crews[c])'
    <2>1. crews' = [crews EXCEPT ![d] = None] /\ flag' = flag /\ status' = status
      BY <1>7 DEF ForgetCrew, ReleaseCrew
    <2>2. crews'[c] = crews[c]
      BY <1>0, <2>1 DEF TypeOK
    <2> QED BY <1>1, <2>1, <2>2
  <1>8. ASSUME NEW r \in Runs, Start(r) PROVE Accounted(crews[c])'
    <2>1. /\ crews' = crews /\ flag' = flag
          /\ \E st \in States \cup {None} : status' = [status EXCEPT ![st] = "running"] \/ status' = status
      BY <1>0, <1>8 DEF Start, Entry, TypeOK, RunsKnowCrew
    <2>2. status'[crews[c]] = status[crews[c]] \/ status'[crews[c]] = "running"
      BY <1>0, <2>1 DEF TypeOK
    <2> QED BY <1>1, <2>1, <2>2 DEF Finished
  <1>9. CASE crews' = crews /\ flag' = flag /\ status' = status
    BY <1>1, <1>9
  <1>10. \/ crews' = crews /\ flag' = flag /\ status' = status
         \/ \E r \in Runs : Publish(r) \/ Abandon(r) \/ Start(r) \/ FinishError(r) \/ StoreFinal(r)
         \/ \E d \in Crews : CancelCrew(d) \/ ForgetCrew(d) \/ ReleaseCrew(d)
    BY DEF Next, Accept, RunStep, OpenChannel, RunnerReturns, AuditFinished, RemoveChannel,
           LeaveRun, Caller, ReleaseStep, ReleaseChannel, GiveBack, regVars
  <1> QED BY <1>2, <1>3, <1>4, <1>5, <1>6, <1>7, <1>8, <1>9, <1>10
-----------------------------------------------------------------------------
(* Eviction takes the oldest.                                              *)

\* Naturals below a bound have a largest one.
LEMMA Largest ==
  ASSUME NEW S \in SUBSET Nat, S # {}, NEW n \in Nat, \A x \in S : x < n
  PROVE  \E x \in S : \A y \in S : y <= x
  <1> DEFINE T == {k \in Nat : \A x \in S : x < k}
  <1>1. T \subseteq Nat /\ T # {}
    OBVIOUS
  <1>2. PICK k \in T : \A y \in T : ~(<<y, k>> \in OpToRel(<, Nat))
    BY <1>1, NatLessThanWellFounded, WFMin, Zenon
  <1>3. k \in Nat /\ \A x \in S : x < k
    OBVIOUS
  <1>4. k # 0 /\ k - 1 \in Nat /\ k - 1 < k
    <2>1. PICK x \in S : x \in Nat /\ x < k
      BY <1>3
    <2> HIDE DEF T
    <2> QED BY <1>3, <2>1
  <1>5. k - 1 \notin T
    <2>1. <<k - 1, k>> \in OpToRel(<, Nat)
      BY <1>3, <1>4 DEF OpToRel
    <2> QED BY <1>2, <2>1, Zenon
  <1>6. PICK x \in S : ~(x < k - 1)
    BY <1>4, <1>5
  <1> QED BY <1>3, <1>4, <1>6

\* Entries and flags are finitely many.
LEMMA MapsFinite ==
  ASSUME IndInv
  PROVE  /\ IsFiniteSet(InMap(crews)) /\ Size(crews) = Cardinality(InMap(crews)) /\ Size(crews) \in Nat
         /\ IsFiniteSet(InMap(flag)) /\ Size(flag) = Cardinality(InMap(flag)) /\ Size(flag) \in Nat
  <1>1. IsFiniteSet(InMap(crews)) /\ Size(crews) = Cardinality(InMap(crews)) /\ Size(crews) \in Nat
    BY SlotsKnown, MapFinite
  <1> DEFINE f == [c \in InMap(flag) |-> flag[c]]
  <1>2. \A c \in InMap(flag) : flag[c] \in Runs /\ crewOf[flag[c]] = c
    BY DEF IndInv, TypeOK, FlagOwned, InMap
  <1>3. f \in Injection(InMap(flag), Runs)
    BY <1>2 DEF Injection, IsInjective
  <1>4. IsFiniteSet(InMap(flag))
    BY <1>3, RunsAssumption, FS_Injection
  <1>5. Size(flag) = Cardinality(InMap(flag))
    BY DEF Size, InMap
  <1> QED BY <1>1, <1>4, <1>5, FS_CardinalityType

LEMMA BeforeFinite ==
  ASSUME IndInv, NEW e \in ended
  PROVE  IsFiniteSet(CurrentBefore(e))
  <1> DEFINE C == CurrentBefore(e)
             f == [st \in C |-> crewOf[st.run]]
  <1>1. \A st \in C : \E g \in ended : st = g.st /\ IsCurrent(crews, g.st)
    BY DEF CurrentBefore
  <1>2. \A st \in C : crewOf[st.run] \in InMap(crews) /\ crews[crewOf[st.run]] = st
    BY <1>1, SlotsKnown, StateNames DEF IsCurrent, InMap
  <1> HIDE DEF C
  <1>3. f \in Injection(C, InMap(crews))
    BY <1>2 DEF Injection, IsInjective
  <1>4. IsFiniteSet(C)
    BY <1>3, MapsFinite, FS_Injection
  <1> QED BY <1>4 DEF C

\* The slots before a slot that eviction would pop are popped too.
LEMMA PoppedBefore ==
  ASSUME IndInv, NEW e \in PoppedSlots, NEW f \in ended, f.pos < e.pos
  PROVE  f \in PoppedSlots
  <1>1. ~(Size(crews) < MaxRetained + Size(flag)) /\ e \in ended /\ Cardinality(CurrentBefore(e)) + LowWater + Size(flag) < Size(crews)
    BY DEF PoppedSlots
  <1>2. e.pos \in Nat /\ f.pos \in Nat /\ \A g \in ended : g.pos \in Nat
    BY <1>1, SlotsKnown DEF Slots
  <1>3. CurrentBefore(f) \subseteq CurrentBefore(e)
    <2> SUFFICES ASSUME NEW st \in CurrentBefore(f) PROVE st \in CurrentBefore(e)
      OBVIOUS
    <2>1. PICK g \in ended : g.pos < f.pos /\ IsCurrent(crews, g.st) /\ st = g.st
      BY DEF CurrentBefore
    <2>2. g.pos < e.pos
      BY <1>2, <2>1
    <2> QED BY <2>1, <2>2 DEF CurrentBefore
  <1>4. IsFiniteSet(CurrentBefore(e))
    BY <1>1, BeforeFinite
  <1>5. Cardinality(CurrentBefore(f)) <= Cardinality(CurrentBefore(e)) /\ Cardinality(CurrentBefore(f)) \in Nat /\ Cardinality(CurrentBefore(e)) \in Nat
    BY <1>3, <1>4, FS_Subset, FS_CardinalityType
  <1>6. Size(crews) \in Nat /\ Size(flag) \in Nat
    BY MapsFinite
  <1>7. Cardinality(CurrentBefore(f)) + LowWater + Size(flag) < Size(crews)
    BY <1>1, <1>5, <1>6, MarksAssumption
  <1> QED BY <1>1, <1>7 DEF PoppedSlots

LEMMA OrderKept ==
  ASSUME IndInv, Positions, OnceQueued, NEW r \in Runs, Publish(r),
         NEW c \in Crews, NEW e \in ended, e.st = crews[c], crews'[c] = None, NEW f \in ended', IsCurrent(crews', f.st)
  PROVE  f.pos > e.pos
  <1>0. TypeOK /\ RunsKnowCrew /\ EntryOwned /\ SlotMade
    BY DEF IndInv
  <1>1. /\ crews' = [AfterEviction EXCEPT ![crewOf[r]] = RegState(r)] /\ crewOf[r] \in Crews /\ pc[r] = "accepted"
        /\ EvictQueue
    BY <1>0 DEF Publish, RunsKnowCrew
  <1>2. crews[c] \in States /\ AfterEviction[c] = None /\ c # crewOf[r]
    BY <1>0, <1>1, StateNames, SlotsKnown DEF AfterEviction
  <1>3. PICK g \in PoppedSlots : crewOf[g.st.run] = c /\ IsCurrent(crews, g.st)
    BY <1>2, StateNames DEF AfterEviction, Evicted, Entry
  <1>4. PoppedSlots \subseteq ended /\ ~(Size(crews) < MaxRetained + Size(flag))
    BY <1>3 DEF PoppedSlots
  <1>5. g = e
    BY <1>3, <1>4 DEF IsCurrent, OnceQueued
  <1>6. ended' \subseteq ended \ PoppedSlots
    <2>1. CompactEnded(ended \ PoppedSlots, popped + Cardinality(PoppedSlots), AfterEviction)
      BY <1>1, <1>4 DEF EvictQueue
    <2> QED BY <2>1 DEF CompactEnded
  <1>7. f \in ended /\ f \notin PoppedSlots
    BY <1>6
  <1>8. ~(f.pos < e.pos)
    BY <1>3, <1>5, <1>7, PoppedBefore
  <1>9. f.pos # e.pos
    BY <1>3, <1>5, <1>7 DEF Positions
  <1>10. f.pos \in Nat /\ e.pos \in Nat
    BY <1>7, SlotsKnown DEF Slots
  <1> QED BY <1>8, <1>9, <1>10

\* Eviction leaves LowWater crews that no runner holds.
LEMMA OrderCount ==
  ASSUME IndInv, Positions, NEW r \in Runs, Publish(r),
         NEW c \in Crews, NEW e \in ended, e.st = crews[c], crews'[c] = None
  PROVE  Cardinality({d \in Crews : Registered(d) /\ flag[d] = None /\ crews'[d] # None}) >= LowWater
  <1> DEFINE K == {d \in Crews : Registered(d) /\ flag[d] = None /\ crews'[d] # None}
             V == {d \in Crews : Evicted(d)}
             C == {g \in PoppedSlots : IsCurrent(crews, g.st)}
             P == {g.pos : g \in C}
             U == InMap(crews) \ InMap(flag)
  <1>0. TypeOK /\ RunsKnowCrew /\ EntryOwned /\ SlotMade
    BY DEF IndInv
  <1>1. crews' = [AfterEviction EXCEPT ![crewOf[r]] = RegState(r)] /\ crewOf[r] \in Crews
    BY <1>0 DEF Publish, RunsKnowCrew
  <1>2. crews[c] \in States /\ AfterEviction[c] = None
    BY <1>0, <1>1, StateNames, SlotsKnown DEF AfterEviction
  <1>3. PICK g \in PoppedSlots : IsCurrent(crews, g.st)
    BY <1>2, StateNames DEF AfterEviction, Evicted, Entry
  <1>4. PoppedSlots \subseteq ended
    BY DEF PoppedSlots
  <1>5. P \subseteq Nat /\ P # {} /\ tick \in Nat /\ \A p \in P : p < tick
    BY <1>0, <1>3, <1>4, SlotsKnown DEF Positions, Slots, TypeOK
  <1>6. PICK x \in C : \A h \in C : h.pos <= x.pos
    <2>1. PICK p \in P : \A q \in P : q <= p
      <3> HIDE DEF P
      <3> QED BY ONLY <1>5, Largest
    <2> QED BY <2>1
  <1>7. x \in ended /\ Cardinality(CurrentBefore(x)) + LowWater + Size(flag) < Size(crews)
    BY <1>6 DEF PoppedSlots
  <1> DEFINE B == CurrentBefore(x) \cup {x.st}
             f == [d \in V |-> crews[d]]
  <1>8. \A d \in V : crews[d] \in B /\ crewOf[crews[d].run] = d
    <2> SUFFICES ASSUME NEW d \in Crews, Evicted(d) PROVE crews[d] \in B /\ crewOf[crews[d].run] = d
      OBVIOUS
    <2>1. PICK h \in PoppedSlots : crewOf[h.st.run] = d /\ IsCurrent(crews, h.st)
      BY DEF Evicted
    <2>2. crews[d] = h.st /\ h \in ended /\ h \in C
      BY <1>4, <2>1 DEF IsCurrent
    <2>3. h.pos <= x.pos /\ h.pos \in Nat /\ x.pos \in Nat
      BY <1>6, <1>7, <2>2, SlotsKnown DEF Slots
    <2>4. CASE h.pos < x.pos
      BY <2>1, <2>2, <2>4 DEF CurrentBefore
    <2>5. CASE h.pos = x.pos
      BY <1>7, <2>1, <2>2, <2>5 DEF Positions
    <2> QED BY <2>3, <2>4, <2>5
  <1>9. IsFiniteSet(CurrentBefore(x)) /\ Cardinality(CurrentBefore(x)) \in Nat
    BY <1>7, BeforeFinite, FS_CardinalityType
  <1>10. IsFiniteSet(B) /\ Cardinality(B) \in Nat /\ Cardinality(B) <= Cardinality(CurrentBefore(x)) + 1
    <2>1. IsFiniteSet(B) /\ Cardinality(B) = IF x.st \in CurrentBefore(x) THEN Cardinality(CurrentBefore(x)) ELSE Cardinality(CurrentBefore(x)) + 1
      BY <1>9, FS_AddElement
    <2> HIDE DEF B
    <2> QED BY <1>9, <2>1
  <1>11. IsFiniteSet(V) /\ Cardinality(V) \in Nat /\ Cardinality(V) <= Cardinality(B)
    <2> HIDE DEF V, B
    <2>1. f \in Injection(V, B)
      BY <1>8 DEF Injection, IsInjective
    <2> QED BY <1>10, <2>1, FS_Injection, FS_CardinalityType
  <1>12. /\ IsFiniteSet(InMap(crews)) /\ Size(crews) = Cardinality(InMap(crews)) /\ Size(crews) \in Nat
         /\ IsFiniteSet(InMap(flag)) /\ Size(flag) = Cardinality(InMap(flag)) /\ Size(flag) \in Nat
    BY MapsFinite
  <1>13. IsFiniteSet(U) /\ Cardinality(U) \in Nat /\ Cardinality(U) + Size(flag) >= Size(crews)
    <2>1. IsFiniteSet(U) /\ Cardinality(U) = Cardinality(InMap(crews)) - Cardinality(InMap(crews) \cap InMap(flag))
      BY <1>12, FS_Difference
    <2>2. Cardinality(InMap(crews) \cap InMap(flag)) \in Nat /\ Cardinality(InMap(crews) \cap InMap(flag)) <= Cardinality(InMap(flag))
      <3>1. InMap(crews) \cap InMap(flag) \in SUBSET InMap(flag)
        OBVIOUS
      <3> QED BY ONLY <1>12, <3>1, FS_Subset, FS_CardinalityType
    <2>3. Cardinality(U) \in Nat
      BY ONLY <2>1, FS_CardinalityType
    <2> HIDE DEF U
    <2> QED BY <1>12, <2>1, <2>2, <2>3
  <1>14. IsFiniteSet(U \ V) /\ Cardinality(U \ V) \in Nat /\ Cardinality(U \ V) + Cardinality(V) >= Cardinality(U)
    <2> HIDE DEF U, V
    <2>1. IsFiniteSet(U \ V) /\ Cardinality(U \ V) = Cardinality(U) - Cardinality(U \cap V)
      BY <1>13, FS_Difference
    <2>2. U \cap V \in SUBSET V
      OBVIOUS
    <2>3. Cardinality(U \cap V) \in Nat /\ Cardinality(U \cap V) <= Cardinality(V)
      BY ONLY <1>11, <2>2, FS_Subset, FS_CardinalityType
    <2>4. Cardinality(U \ V) \in Nat
      BY ONLY <2>1, FS_CardinalityType
    <2> QED BY <1>11, <1>13, <2>1, <2>3, <2>4
  <1>15. Cardinality(U \ V) >= LowWater
    <2> HIDE DEF U, V, B
    <2> QED BY <1>7, <1>9, <1>10, <1>11, <1>12, <1>13, <1>14, MarksAssumption
  <1>16. U \ V \subseteq K
    <2> SUFFICES ASSUME NEW d \in U \ V PROVE d \in K
      OBVIOUS
    <2>1. d \in Crews /\ crews[d] # None /\ flag[d] = None /\ ~Evicted(d)
      BY DEF InMap
    <2>2. AfterEviction[d] = crews[d] /\ DOMAIN AfterEviction = Crews
      BY <2>1 DEF AfterEviction, Entry
    <2>3. crews'[d] # None
      BY <1>1, <2>1, <2>2, StateNames
    <2> QED BY <2>1, <2>3 DEF Registered
  <1>17. IsFiniteSet(K) /\ Cardinality(K) \in Nat
    <2>1. K \in SUBSET InMap(crews)
      BY DEF Registered, InMap
    <2> HIDE DEF K
    <2> QED BY ONLY <1>12, <2>1, FS_Subset, FS_CardinalityType
  <1>18. Cardinality(U \ V) <= Cardinality(K)
    <2> HIDE DEF K, U, V
    <2> QED BY ONLY <1>16, <1>17, FS_Subset
  <1> HIDE DEF K, U, V
  <1>19. Cardinality(K) >= LowWater
    BY <1>14, <1>15, <1>17, <1>18, MarksAssumption
  <1> QED BY <1>19 DEF K
-----------------------------------------------------------------------------
(* The second layer of the invariant, and what follows from it.            *)

LEMMA ServeInit == Init => ServeInv
  <1> SUFFICES ASSUME Init PROVE ServeInv
    OBVIOUS
  <1>1. ChannelKept /\ EntryShown /\ Unreturned /\ Positions /\ OnceQueued /\ EndedIsQueued
    BY DEF Init, ChannelKept, EntryShown, Unreturned, Positions, OnceQueued, EndedIsQueued, Registered
  <1>2. HeldStatus
    BY DEF Init, HeldStatus, Held
  <1>3. InMap(crews) = {}
    BY DEF Init, InMap
  <1>4. Size(crews) = 0 /\ Cardinality(ended) = 0
    BY <1>3, FS_EmptySet DEF Size, InMap, Init
  <1>5. QueueBounded
    BY <1>4, MarksAssumption DEF QueueBounded, Init
  <1> QED BY <1>1, <1>2, <1>5 DEF ServeInv

LEMMA ServeStep == IndInv /\ IndInv' /\ ServeInv /\ [Next]_vars => ServeInv'
  <1> SUFFICES ASSUME IndInv, IndInv', ServeInv, [Next]_vars PROVE ServeInv'
    OBVIOUS
  <1>1. CASE Next
    <2>1. ChannelKept' /\ EntryShown' /\ Unreturned'
      BY <1>1, ChannelStep, ShownStep, UnreturnedStep DEF IndInv, ServeInv
    <2>2. Positions'
      BY <1>1, PositionsStep DEF ServeInv
    <2>3. ASSUME Reuse # "any" PROVE HeldStatus' /\ OnceQueued' /\ EndedIsQueued' /\ QueueBounded'
      <3>1. Positions /\ Unreturned /\ HeldStatus /\ OnceQueued /\ EndedIsQueued /\ QueueBounded
        BY <2>3 DEF ServeInv
      <3> QED BY <1>1, <2>3, <3>1, HeldStatusStep, PositionsStep, EndedQueuedStep, BoundedStep
    <2> QED BY <2>1, <2>2, <2>3 DEF ServeInv
  <1>2. CASE UNCHANGED vars
    <2>1. ChannelKept' /\ EntryShown' /\ Unreturned' /\ Positions'
      BY <1>2 DEF vars, ServeInv, ChannelKept, EntryShown, Unreturned, Positions
    <2>2. HeldStatus => HeldStatus'
      BY <1>2 DEF vars, HeldStatus
    <2>3. OnceQueued => OnceQueued'
      BY <1>2 DEF vars, OnceQueued
    <2>4. EndedIsQueued => EndedIsQueued'
      BY <1>2 DEF vars, EndedIsQueued, Registered, Entry, IsFinished
    <2>5. QueueBounded => QueueBounded'
      BY <1>2 DEF vars, QueueBounded, Size
    <2> QED BY <2>1, <2>2, <2>3, <2>4, <2>5 DEF ServeInv
  <1> QED BY <1>1, <1>2

\* The second layer holds in every behaviour of the registry, over the first.
THEOREM Serving == Spec => []ServeInv
  BY Inductive, ServeInit, ServeStep, PTL DEF Spec

\* A channel of the event bus that is open belongs to a run in flight, or to
\* one that ended in error, the arm of finish_err that does not remove it.
THEOREM ChannelsAreOwned == Spec => []ChannelHasOwner
  <1>1. ServeInv => ChannelHasOwner
    BY DEF ServeInv, ChannelKept, ChannelHasOwner, Opened, Active, Holding, Held, Leaving
  <1> QED BY <1>1, Serving, PTL

\* Without overlapping runs the ended queue serves eviction: every crew that
\* has ended and that no runner holds is queued, but for the one cancelled
\* before its thread failed to start, and the queue never outgrows twice the
\* registry and its slack, for any marks (_agnosai_orch_compact_ended_locked).
THEOREM QueueServes ==
  ASSUME Reuse # "any"
  PROVE  Spec => []QueueSound
  <1>1. ServeInv => QueueSound
    BY DEF ServeInv, QueueSound
  <1> QED BY <1>1, Serving, PTL

\* Without overlapping runs what leaves the registry leaves in order and stays
\* away: eviction takes the crews that ended longest ago and leaves LowWater
\* that no runner holds, and only a registration brings an id back.
THEOREM RetentionHolds ==
  ASSUME Reuse # "any"
  PROVE  Spec => Retention
  <1>1. IndInv /\ ServeInv /\ [Next]_vars => [EvictionOrder]_vars
    <2> SUFFICES ASSUME IndInv, ServeInv, Next PROVE EvictionOrder
      OBVIOUS
    <2> SUFFICES ASSUME NEW c \in Crews, NEW e \in ended, e.st = crews[c], crews'[c] = None, pc' # pc
                 PROVE  /\ Cardinality({d \in Crews : /\ Registered(d) /\ flag[d] = None
                                                      /\ crews'[d] # None}) >= LowWater
                        /\ \A f \in ended' : IsCurrent(crews', f.st) => f.pos > e.pos
      BY DEF EvictionOrder, Entry
    <2>1. crews[c] \in States /\ crews[c] # None
      BY SlotsKnown, StateNames
    <2>2. \E r \in Runs : Publish(r)
      <3>1. TypeOK /\ RunsKnowCrew
        BY DEF IndInv
      <3>2. ASSUME NEW r \in Runs, StoreFinal(r) PROVE FALSE
        <4>1. crewOf[r] \in Crews /\ crews' = [crews EXCEPT ![crewOf[r]] = EndState(r)]
          BY <3>1, <3>2 DEF StoreFinal, RunsKnowCrew
        <4> QED BY <2>1, <3>1, <4>1, StateNames DEF TypeOK
      <3>3. crews' # crews
        BY <2>1
      <3> QED
        BY <3>2, <3>3 DEF Next, Accept, RunStep, OpenChannel, Abandon, Start, RunnerReturns, FinishError, AuditFinished,
           RemoveChannel, LeaveRun, Caller, CancelCrew, ForgetCrew, ReleaseCrew, ReleaseStep, ReleaseChannel, GiveBack,
           regVars, runVars
    <2>3. Positions /\ OnceQueued
      BY DEF ServeInv
    <2> QED BY <2>2, <2>3, OrderCount, OrderKept
  <1>2. Spec => EvictsOldestFirst
    BY <1>1, Inductive, Serving, PTL DEF Spec, EvictsOldestFirst
  <1> QED BY <1>2, NoReturn DEF Retention
-----------------------------------------------------------------------------
(* The registry implements the lifecycle a poller is promised.             *)

\* What a step does to what a poller sees: it shows s for c, and holds by h.
Shows(c, s, h) ==
    /\ \A d \in Crews : ShownOf(d)' = IF d = c THEN s ELSE ShownOf(d)
    /\ \A d \in Crews : (flag'[d] # None) = IF d = c THEN h ELSE flag[d] # None

LEMMA MapsToSubmit ==
  ASSUME NEW c \in Crews, NEW gone \in SUBSET Crews, flag[c] = None,
         \A d \in gone : ShownOf(d) \in Finished /\ flag[d] = None,
         \A d \in Crews : ShownOf(d)' = IF d = c THEN "pending" ELSE IF d \in gone THEN "absent" ELSE ShownOf(d),
         \A d \in Crews : (flag'[d] # None) = IF d = c THEN TRUE ELSE flag[d] # None
  PROVE  Lifecycle!LNext
  <1>1. Lifecycle!Submit(c, gone)
    BY DEF Lifecycle!Submit, Lifecycle!Ended, Finished
  <1> QED BY <1>1 DEF Lifecycle!LNext

LEMMA MapsToBegin ==
  ASSUME NEW c \in Crews, flag[c] # None, ShownOf(c) = "pending", Shows(c, "running", TRUE)
  PROVE  Lifecycle!LNext
  <1>1. Lifecycle!Begin(c)
    BY DEF Lifecycle!Begin, Shows
  <1> QED BY <1>1 DEF Lifecycle!LNext

LEMMA MapsToEnd ==
  ASSUME NEW c \in Crews, NEW how \in Finished, flag[c] # None, ShownOf(c) # "pending", Shows(c, how, FALSE)
  PROVE  Lifecycle!LNext
  <1>1. Lifecycle!End(c, how) /\ how \in Lifecycle!Ended
    BY DEF Lifecycle!End, Lifecycle!Ended, Shows, Finished
  <1> QED BY <1>1 DEF Lifecycle!LNext

LEMMA MapsToLetGo ==
  ASSUME NEW c \in Crews, flag[c] # None,
         Shows(c, IF ShownOf(c) = "running" THEN "pending" ELSE ShownOf(c), FALSE)
  PROVE  Lifecycle!LNext
  <1>1. Lifecycle!LetGo(c)
    BY DEF Lifecycle!LetGo, Shows
  <1> QED BY <1>1 DEF Lifecycle!LNext

LEMMA MapsToCancel ==
  ASSUME NEW c \in Crews, ShownOf(c) \in {"pending", "running"}, Shows(c, "cancelled", flag[c] # None)
  PROVE  Lifecycle!LNext
  <1>1. Lifecycle!Cancel(c)
    BY DEF Lifecycle!Cancel, Shows
  <1> QED BY <1>1 DEF Lifecycle!LNext

LEMMA MapsToDrop ==
  ASSUME NEW c \in Crews, ShownOf(c) # "absent", flag[c] = None, Shows(c, "absent", FALSE)
  PROVE  Lifecycle!LNext
  <1>1. Lifecycle!Drop(c)
    BY DEF Lifecycle!Drop, Shows
  <1> QED BY <1>1 DEF Lifecycle!LNext

LEMMA MapsToStutter ==
  ASSUME \A d \in Crews : ShownOf(d)' = ShownOf(d), flag' = flag
  PROVE  UNCHANGED Lifecycle!lvars
  BY DEF Lifecycle!lvars

\* An id whose entry, and whose entry's status, a step leaves alone shows the same.
LEMMA SameShown ==
  ASSUME NEW d \in Crews, crews'[d] = crews[d], crews[d] # None => status'[crews[d]] = status[crews[d]]
  PROVE  ShownOf(d)' = ShownOf(d)
  BY DEF ShownOf

\* A run that holds its crew has the flag, and the crew shows its own state.
LEMMA HolderShown ==
  ASSUME IndInv, Reuse # "any", NEW r \in Runs, pc[r] \in Held
  PROVE  /\ crewOf[r] \in Crews /\ flag[crewOf[r]] = r /\ r # None
         /\ crews[crewOf[r]] = RegState(r) /\ ShownOf(crewOf[r]) = status[RegState(r)]
         /\ \A d \in Crews : d # crewOf[r] => crews[d] # RegState(r)
  <1>1. crewOf[r] \in Crews /\ flag[crewOf[r]] = r /\ crews[crewOf[r]] = RegState(r) /\ r # None
    BY NoneAssumption DEF IndInv, RunsKnowCrew, HeldIsRegistered, Held
  <1>2. ShownOf(crewOf[r]) = status[RegState(r)]
    BY <1>1, StateNames DEF ShownOf
  <1>3. \A d \in Crews : d # crewOf[r] => crews[d] # RegState(r)
    BY StateNames DEF IndInv, EntryOwned
  <1> QED BY <1>1, <1>2, <1>3

LEMMA SubmitStep ==
  ASSUME IndInv, Reuse # "any", NEW r \in Runs, Publish(r)
  PROVE  Lifecycle!LNext
  <1> DEFINE c == crewOf[r]
             gone == {d \in Crews : Evicted(d)}
  <1>0. TypeOK /\ RunsKnowCrew /\ EntryMade /\ FlagOwned /\ OneHolder /\ QueuedHasEnded
    BY DEF IndInv
  <1>1. /\ pc[r] = "accepted" /\ c \in Crews
        /\ crews' = [AfterEviction EXCEPT ![c] = RegState(r)]
        /\ flag' = [flag EXCEPT ![c] = r] /\ status' = [status EXCEPT ![RegState(r)] = "pending"]
    BY <1>0 DEF Publish, RunsKnowCrew
  <1>2. flag[c] = None
    <2> SUFFICES ASSUME flag[c] # None PROVE FALSE
      OBVIOUS
    <2>1. flag[c] \in Runs /\ crewOf[flag[c]] = c /\ pc[flag[c]] \in Held
      BY <1>0, <1>1 DEF FlagOwned, TypeOK
    <2>2. flag[c] = r
      BY <1>0, <1>1, <2>1 DEF OneHolder, Holding
    <2> QED BY <1>1, <2>1, <2>2 DEF Held
  <1>3. \A d \in gone : ShownOf(d) \in Finished /\ flag[d] = None
    <2> SUFFICES ASSUME NEW d \in Crews, Evicted(d) PROVE ShownOf(d) \in Finished /\ flag[d] = None
      OBVIOUS
    <2>1. PICK g \in PoppedSlots : crewOf[g.st.run] = d /\ IsCurrent(crews, g.st)
      BY DEF Evicted
    <2>2. g \in ended /\ crews[d] = g.st
      BY <2>1 DEF PoppedSlots, IsCurrent
    <2>3. g.st \in States /\ status[g.st] \in Finished /\ flag[d] = None
      BY <1>0, <2>1, <2>2, SlotsKnown DEF QueuedHasEnded, IsFinished
    <2> QED BY <2>2, <2>3, StateNames DEF ShownOf
  <1>4. ASSUME NEW d \in Crews
        PROVE  ShownOf(d)' = IF d = c THEN "pending" ELSE IF d \in gone THEN "absent" ELSE ShownOf(d)
    <2>1. AfterEviction[d] = (IF Evicted(d) THEN None ELSE crews[d]) /\ DOMAIN AfterEviction = Crews
      BY DEF AfterEviction, Entry
    <2>2. CASE d = c
      <3>1. crews'[d] = RegState(r) /\ status'[RegState(r)] = "pending"
        BY <1>0, <1>1, <2>1, <2>2, StateNames DEF TypeOK
      <3> QED BY <2>2, <3>1, StateNames DEF ShownOf
    <2>3. CASE d # c /\ d \in gone
      <3>1. crews'[d] = None
        BY <1>1, <2>1, <2>3
      <3> QED BY <2>3, <3>1 DEF ShownOf
    <2>4. CASE d # c /\ d \notin gone
      <3>1. crews'[d] = crews[d]
        BY <1>1, <2>1, <2>4
      <3>2. crews[d] # RegState(r)
        BY <1>0, <1>1, StateNames DEF EntryMade
      <3>3. crews[d] # None => status'[crews[d]] = status[crews[d]]
        BY <1>0, <1>1, <3>2 DEF TypeOK
      <3>4. ShownOf(d)' = ShownOf(d)
        BY ONLY <3>1, <3>3, SameShown
      <3> QED BY <2>4, <3>4
    <2> QED BY <2>2, <2>3, <2>4
  <1>5. \A d \in Crews : (flag'[d] # None) = IF d = c THEN TRUE ELSE flag[d] # None
    BY <1>0, <1>1, NoneAssumption DEF TypeOK
  <1>6. gone \in SUBSET Crews
    OBVIOUS
  <1> HIDE DEF c, gone
  <1> QED BY ONLY <1>1, <1>2, <1>3, <1>4, <1>5, <1>6, MapsToSubmit

LEMMA RunnerSteps ==
  ASSUME IndInv, ServeInv, Reuse # "any", NEW r \in Runs, Start(r) \/ Abandon(r) \/ FinishError(r) \/ StoreFinal(r)
  PROVE  [Lifecycle!LNext]_Lifecycle!lvars
  <1> DEFINE c == crewOf[r]
  <1>0. TypeOK /\ RunsKnowCrew /\ EntryMade /\ OutcomeKnown /\ HeldStatus
    BY DEF IndInv, ServeInv
  <1>1. pc[r] \in Held
    BY DEF Start, Abandon, FinishError, StoreFinal, Held
  <1>2. /\ c \in Crews /\ flag[c] = r /\ r # None /\ crews[c] = RegState(r) /\ ShownOf(c) = status[RegState(r)]
        /\ \A d \in Crews : d # c => crews[d] # RegState(r)
    BY <1>1, HolderShown
  <1>3. ASSUME NEW v, status' = [status EXCEPT ![RegState(r)] = v], crews' = crews
        PROVE  \A d \in Crews : ShownOf(d)' = IF d = c THEN v ELSE ShownOf(d)
    <2> SUFFICES ASSUME NEW d \in Crews PROVE ShownOf(d)' = IF d = c THEN v ELSE ShownOf(d)
      OBVIOUS
    <2>1. status'[RegState(r)] = v
      BY <1>0, <1>3, StateNames DEF TypeOK
    <2>2. CASE d = c
      BY <1>2, <1>3, <2>1, <2>2, StateNames DEF ShownOf
    <2>3. CASE d # c
      <3>1. crews[d] # None => status'[crews[d]] = status[crews[d]]
        BY <1>0, <1>2, <1>3, <2>3 DEF TypeOK
      <3>2. ShownOf(d)' = ShownOf(d)
        BY <1>3, <3>1, SameShown
      <3> QED BY <2>3, <3>2
    <2> QED BY <2>2, <2>3
  <1>4. ASSUME status' = status, crews' = crews PROVE \A d \in Crews : ShownOf(d)' = ShownOf(d)
    BY <1>4 DEF ShownOf
  <1>5. ASSUME flag' = [flag EXCEPT ![c] = None]
        PROVE  \A d \in Crews : (flag'[d] # None) = IF d = c THEN FALSE ELSE flag[d] # None
    BY <1>0, <1>2, <1>5 DEF TypeOK
  <1>6. CASE Start(r)
    <2>1. /\ crews' = crews /\ flag' = flag
          /\ status' = IF status[RegState(r)] = "pending" THEN [status EXCEPT ![RegState(r)] = "running"] ELSE status
      BY <1>2, <1>6, StateNames DEF Start, Entry
    <2>2. CASE status[RegState(r)] = "pending"
      <3>1. \A d \in Crews : ShownOf(d)' = IF d = c THEN "running" ELSE ShownOf(d)
        BY <1>3, <2>1, <2>2
      <3>2. Shows(c, "running", TRUE)
        BY <1>2, <2>1, <3>1 DEF Shows
      <3> QED BY <1>2, <2>2, <3>2, MapsToBegin
    <2>3. CASE status[RegState(r)] # "pending"
      BY <1>4, <2>1, <2>3, MapsToStutter
    <2> QED BY <2>2, <2>3
  <1>7. CASE Abandon(r)
    <2>1. crews' = crews /\ status' = status /\ flag' = [flag EXCEPT ![c] = None] /\ pc[r] = "ready"
      BY <1>7 DEF Abandon
    <2>2. ShownOf(c) # "running"
      BY <1>0, <1>2, <2>1 DEF HeldStatus
    <2>3. Shows(c, IF ShownOf(c) = "running" THEN "pending" ELSE ShownOf(c), FALSE)
      BY <1>4, <1>5, <2>1, <2>2 DEF Shows
    <2> QED BY <1>2, <2>3, MapsToLetGo
  <1>8. CASE FinishError(r)
    <2>1. /\ crews' = crews /\ flag' = [flag EXCEPT ![c] = None]
          /\ status' = IF status[RegState(r)] = "running" THEN [status EXCEPT ![RegState(r)] = "pending"] ELSE status
      BY <1>2, <1>8, StateNames DEF FinishError, Entry
    <2>2. \A d \in Crews : ShownOf(d)' = IF d = c THEN (IF ShownOf(c) = "running" THEN "pending" ELSE ShownOf(c)) ELSE ShownOf(d)
      <3>1. CASE status[RegState(r)] = "running"
        <4>1. \A d \in Crews : ShownOf(d)' = IF d = c THEN "pending" ELSE ShownOf(d)
          BY <1>3, <2>1, <3>1
        <4> QED BY <1>2, <3>1, <4>1
      <3>2. CASE status[RegState(r)] # "running"
        <4>1. \A d \in Crews : ShownOf(d)' = ShownOf(d)
          BY <1>4, <2>1, <3>2
        <4> QED BY <1>2, <3>2, <4>1
      <3> QED BY <3>1, <3>2
    <2>3. Shows(c, IF ShownOf(c) = "running" THEN "pending" ELSE ShownOf(c), FALSE)
      BY <1>5, <2>1, <2>2 DEF Shows
    <2> QED BY <1>2, <2>3, MapsToLetGo
  <1>9. CASE StoreFinal(r)
    <2>1. /\ pc[r] = "audited" /\ out[r] \in Finished
          /\ crews' = [crews EXCEPT ![c] = EndState(r)] /\ flag' = [flag EXCEPT ![c] = None]
          /\ status' = [status EXCEPT ![EndState(r)] = out[r]]
      BY <1>0, <1>9 DEF StoreFinal, OutcomeKnown
    <2>2. ShownOf(c) # "pending"
      BY <1>0, <1>2, <2>1 DEF HeldStatus
    <2>3. ASSUME NEW d \in Crews PROVE ShownOf(d)' = IF d = c THEN out[r] ELSE ShownOf(d)
      <3>1. CASE d = c
        <4>1. crews'[d] = EndState(r) /\ status'[EndState(r)] = out[r]
          BY <1>0, <1>2, <2>1, <3>1, StateNames DEF TypeOK
        <4> QED BY <3>1, <4>1, StateNames DEF ShownOf
      <3>2. CASE d # c
        <4>1. crews'[d] = crews[d]
          BY <1>0, <2>1, <3>2 DEF TypeOK
        <4>2. crews[d] # EndState(r)
          BY <1>0, <2>1, StateNames DEF EntryMade
        <4>3. crews[d] # None => status'[crews[d]] = status[crews[d]]
          BY <1>0, <2>1, <4>2 DEF TypeOK
        <4>4. ShownOf(d)' = ShownOf(d)
          BY ONLY <4>1, <4>3, SameShown
        <4> QED BY <3>2, <4>4
      <3> QED BY <3>1, <3>2
    <2>4. Shows(c, out[r], FALSE)
      BY <1>5, <2>1, <2>3 DEF Shows
    <2> QED BY <1>2, <2>1, <2>2, <2>4, MapsToEnd
  <1> QED BY <1>6, <1>7, <1>8, <1>9

LEMMA CallerSteps ==
  ASSUME IndInv, ServeInv, NEW c \in Crews, Caller(c)
  PROVE  [Lifecycle!LNext]_Lifecycle!lvars
  <1>0. TypeOK /\ EntryOwned /\ EntryShown
    BY DEF IndInv, ServeInv
  <1>1. CASE CancelCrew(c)
    <2>1. /\ crews[c] # None /\ status[crews[c]] \notin Finished /\ crews' = crews /\ flag' = flag
          /\ status' = [status EXCEPT ![crews[c]] = "cancelled"]
      BY <1>1 DEF CancelCrew, MayCancel, Registered, IsFinished, Entry
    <2>2. crews[c] \in States /\ status[crews[c]] \in {"pending", "running"}
      BY <1>0, <2>1 DEF EntryShown, TypeOK, Status
    <2>3. ASSUME NEW d \in Crews PROVE ShownOf(d)' = IF d = c THEN "cancelled" ELSE ShownOf(d)
      <3>1. CASE d = c
        <4>1. status'[crews[c]] = "cancelled"
          BY <1>0, <2>1, <2>2 DEF TypeOK
        <4> QED BY <2>1, <3>1, <4>1 DEF ShownOf
      <3>2. CASE d # c
        <4>1. crews[d] # None => crews[d] # crews[c]
          BY <1>0, <2>1, <3>2 DEF EntryOwned
        <4>2. crews[d] # None => status'[crews[d]] = status[crews[d]]
          BY <1>0, <2>1, <4>1 DEF TypeOK
        <4>3. ShownOf(d)' = ShownOf(d)
          BY <2>1, <4>2, SameShown
        <4> QED BY <3>2, <4>3
      <3> QED BY <3>1, <3>2
    <2>4. Shows(c, "cancelled", flag[c] # None)
      BY <2>1, <2>3 DEF Shows
    <2>5. ShownOf(c) \in {"pending", "running"}
      BY <2>1, <2>2 DEF ShownOf
    <2> QED BY <2>4, <2>5, MapsToCancel
  <1>2. CASE ForgetCrew(c) \/ ReleaseCrew(c)
    <2>1. flag[c] = None /\ flag' = flag /\ status' = status /\ crews' = [crews EXCEPT ![c] = None]
      BY <1>2 DEF ForgetCrew, MayForget, ReleaseCrew, MayRelease
    <2>2. \A d \in Crews : ShownOf(d)' = IF d = c THEN "absent" ELSE ShownOf(d)
      BY <1>0, <2>1 DEF ShownOf, TypeOK
    <2>3. CASE crews[c] = None
      <3>1. \A d \in Crews : ShownOf(d)' = ShownOf(d)
        BY <2>2, <2>3 DEF ShownOf
      <3> QED BY <2>1, <3>1, MapsToStutter
    <2>4. CASE crews[c] # None
      <3>1. ShownOf(c) # "absent"
        BY <1>0, <2>4 DEF ShownOf, TypeOK, Status, Finished
      <3>2. Shows(c, "absent", FALSE)
        BY <2>1, <2>2 DEF Shows
      <3> QED BY <2>1, <3>1, <3>2, MapsToDrop
    <2> QED BY <2>3, <2>4
  <1> QED BY <1>1, <1>2 DEF Caller

\* The registry implements the lifecycle a poller is promised, while no two runs
\* of an id overlap: registering shows `pending` and may drop only ended crews
\* no runner holds, `running` comes from `pending` and goes back to it only when
\* the run is let go with nothing to store, a cancel moves only a crew that has
\* not ended, and what has ended and is let go is never relabelled.
THEOREM LifecycleImplemented ==
  ASSUME Reuse # "any"
  PROVE  Spec => ImplementsLifecycle
  <1>1. Init => Lifecycle!LInit
    BY DEF Init, Lifecycle!LInit, ShownOf
  <1>2. IndInv /\ ServeInv /\ [Next]_vars => [Lifecycle!LNext]_Lifecycle!lvars
    <2> SUFFICES ASSUME IndInv, ServeInv, [Next]_vars PROVE [Lifecycle!LNext]_Lifecycle!lvars
      OBVIOUS
    <2>1. CASE crews' = crews /\ status' = status /\ flag' = flag
      BY <2>1 DEF Lifecycle!lvars, ShownOf
    <2>2. \/ crews' = crews /\ status' = status /\ flag' = flag
          \/ \E r \in Runs : Publish(r)
          \/ \E r \in Runs : Start(r) \/ Abandon(r) \/ FinishError(r) \/ StoreFinal(r)
          \/ \E c \in Crews : Caller(c)
      BY DEF Next, Accept, RunStep, OpenChannel, RunnerReturns, AuditFinished, RemoveChannel,
             LeaveRun, ReleaseStep, ReleaseChannel, GiveBack, regVars, vars
    <2> QED BY <2>1, <2>2, SubmitStep, RunnerSteps, CallerSteps
  <1> QED BY <1>1, <1>2, Inductive, Serving, PTL DEF Spec, ImplementsLifecycle, Lifecycle!LSpec
=============================================================================
