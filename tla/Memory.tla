------------------------------- MODULE Memory --------------------------------
(***************************************************************************)
(* rust-old/src/orchestrator/plan_cache.rs: plans of crews, found again by *)
(* a key made of the agents, the tasks and the mode, forgotten after a     *)
(* time and, at capacity, by least recent use.                             *)
(*                                                                         *)
(* The key hashes the sorted agents, the sorted tasks and the mode one     *)
(* after the other, with nothing between the two lists: hashing is taken   *)
(* to be injective on that sequence, which crews may share.                *)
(***************************************************************************)
EXTENDS Integers, Sequences, FiniteSets, SequencesExt

CONSTANTS
    CrewShapes,     \* crews: records of agents and tasks, sequences of numbers
    MaxCachedPlans, \* MAX_CACHED_PLANS
    PlanTTL,        \* the time a plan is good for
    MaxPlanClock    \* readings of the clock, a bound

ASSUME PlanCacheAssumption == MaxCachedPlans \in Nat \ {0} /\ {PlanTTL, MaxPlanClock} \subseteq Nat

VARIABLES
    plans,      \* entries: key, plan, created_at, last_accessed
    planClock,
    planAnswer, \* what get answered last, and of which crew it was asked
    lastPlan    \* the plan inserted last under each key, and when

planVars == <<plans, planClock, planAnswer, lastPlan>>

\* PlanKey::from_crew
PlanKey(c) == SortSeq(c.agents, <) \o SortSeq(c.tasks, <)
PlanKeys == {PlanKey(c) : c \in CrewShapes}
NoPlan == [of |-> <<>>, at |-> 0]

PlanInit ==
    /\ plans = {} /\ planClock = 1
    /\ planAnswer = [asked |-> <<>>, got |-> <<>>]
    /\ lastPlan = [k \in PlanKeys |-> NoPlan]

\* Wrong variant: an entry is as old as its last use.
Expired_ByUse(e) == planClock - e.accessed > PlanTTL

Expired(e) == planClock - e.created > PlanTTL

Under(k) == {e \in plans : e.key = k}

\* get: an expired entry is removed, any other is marked as used.
GetPlan(c) ==
    LET found == Under(PlanKey(c)) IN
    LET fresh == {e \in found : ~Expired(e)} IN
      /\ plans' = (plans \ found) \cup {[e EXCEPT !.accessed = planClock] : e \in fresh}
      /\ planAnswer' = [asked |-> <<c>>, got |-> IF fresh = {} THEN <<>>
                                                ELSE <<(CHOOSE e \in fresh : TRUE).plan>>]
      /\ UNCHANGED <<planClock, lastPlan>>

\* evict_lru, one of the least recently used; then the insertion.  At capacity
\* it evicts even if the key is there already.
InsertPlan(c) ==
    LET k == PlanKey(c) IN
    LET new == [key |-> k, plan |-> c, created |-> planClock, accessed |-> planClock] IN
      /\ \E out \in IF Cardinality(plans) < MaxCachedPlans THEN {{}}
                    ELSE {{e} : e \in {x \in plans : \A y \in plans : x.accessed <= y.accessed}} :
           plans' = {e \in plans \ out : e.key # k} \cup {new}
      /\ lastPlan' = [lastPlan EXCEPT ![k] = [of |-> c, at |-> planClock]]
      /\ UNCHANGED <<planClock, planAnswer>>

PlanTick ==
    /\ planClock < MaxPlanClock
    /\ planClock' = planClock + 1
    /\ UNCHANGED <<plans, planAnswer, lastPlan>>

PlanNext == PlanTick \/ \E c \in CrewShapes : GetPlan(c) \/ InsertPlan(c)
-----------------------------------------------------------------------------
\* The cache never outgrows its capacity, holds one plan per key, and that the
\* latest; and what get has just answered was inserted under the key it asked
\* for no longer ago than a plan is good for, however often it was used since.
PlansSound ==
    /\ Cardinality(plans) <= MaxCachedPlans
    /\ \A e \in plans : Cardinality(Under(e.key)) = 1 /\ lastPlan[e.key].of = e.plan
    /\ \A e \in plans : planAnswer.got = <<e.plan>> /\ e.accessed = planClock /\ e.created < planClock =>
         planClock - lastPlan[e.key].at <= PlanTTL
-----------------------------------------------------------------------------
(***************************************************************************)
(* rust-old/src/orchestrator/memory.rs: the messages of one agent over the *)
(* turns of a task, trimmed after every push by one of three strategies.   *)
(* A message is its number.  The buffer has one owner (&mut self).         *)
(***************************************************************************)
CONSTANTS
    Windows,        \* max_messages, for the strategies that have one
    MaxTurns        \* messages pushed in all, a bound

ASSUME ConversationAssumption == Windows \subseteq Nat /\ MaxTurns \in Nat

VARIABLES
    strategy, window,   \* MemoryStrategy and max_messages (0: no limit)
    messages,
    spoken,             \* all that was pushed since the buffer was last cleared
    turns

talkVars == <<strategy, window, messages, spoken, turns>>

\* new, with_sliding_window, with_head_tail
TalkInit ==
    /\ \/ strategy = "full" /\ window = 0
       \/ strategy \in {"sliding", "headtail"} /\ window \in Windows
    /\ messages = <<>> /\ spoken = <<>> /\ turns = 0

LastOf(s, n) == SubSeq(s, Len(s) - n + 1, Len(s))

\* Wrong variant: the tail is as long as the whole window.
TrimHeadTail_LongTail(s) ==
    IF Len(s) - window > 1 THEN <<s[1]>> \o LastOf(s, window) ELSE s

\* A window of one is the last message alone.
TrimHeadTail(s) ==
    IF window = 1 THEN LastOf(s, 1)
    ELSE IF Len(s) - (window - 1) > 1 THEN <<s[1]>> \o LastOf(s, window - 1) ELSE s

Trim(s) ==
    IF window = 0 \/ Len(s) <= window THEN s
    ELSE CASE strategy = "full" -> s
           [] strategy = "sliding" -> LastOf(s, window)
           [] strategy = "headtail" -> TrimHeadTail(s)

Push ==
    /\ turns < MaxTurns /\ turns' = turns + 1
    /\ messages' = Trim(Append(messages, turns'))
    /\ spoken' = Append(spoken, turns')
    /\ UNCHANGED <<strategy, window>>

Clear ==
    /\ messages # <<>>
    /\ messages' = <<>> /\ spoken' = <<>>
    /\ UNCHANGED <<strategy, window, turns>>

TalkNext == Push \/ Clear
-----------------------------------------------------------------------------
\* However long the conversation, the buffer is what its strategy says of the
\* whole of it, although it was trimmed turn by turn: everything, the last
\* messages, or the first and the last ones.  The window counts messages, the first
\* one included, as memory.rs:34 says; :18 speaks of message pairs, and :20 of the
\* system message and the first one beside the last N.
BufferExact ==
    messages = IF window = 0 \/ Len(spoken) <= window THEN spoken
               ELSE IF strategy = "sliding" \/ window = 1 THEN LastOf(spoken, window)
               ELSE <<spoken[1]>> \o LastOf(spoken, window - 1)
=============================================================================
