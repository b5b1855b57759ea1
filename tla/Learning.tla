------------------------------ MODULE Learning ------------------------------
(***************************************************************************)
(* rust-old/src/learning/: the replay buffer, capability scores with their *)
(* trend, performance records, tabular Q-learning and the UCB1 bandit.     *)
(* Each has one owner (&mut self); what makes them hard is what a long     *)
(* history leaves behind.                                                  *)
(*                                                                         *)
(* Rates are kept as counts and compared by cross-multiplication.  Q       *)
(* values are exact: the learning rate and the discount are a half, and a  *)
(* value is a number of QScale-ths, fine enough for MaxLearned updates.    *)
(* The bandit's logarithm and square root are left out: an arm it may pick *)
(* is one that no other beats in both mean reward and rarity.              *)
(***************************************************************************)
EXTENDS Integers, Sequences, FiniteSets, FiniteSetsExt

CONSTANTS
    MaxExperiences, \* ReplayBuffer::max_size
    ExpPriorities,  \* priorities of experiences
    MaxRecent,      \* CapabilityScore::MAX_RECENT
    TrendWindow,    \* its window
    MaxActionRecords,     \* MAX_RECORDS_PER_AGENT
    QStates, QActions, QRewards,
    QScale,         \* parts of a Q value
    Arms,           \* 1..n, in the order given to Ucb1::new
    MaxLearned      \* events recorded in all, a bound

ASSUME LearningAssumption ==
    /\ {MaxExperiences, MaxRecent, MaxLearned} \subseteq Nat /\ MaxActionRecords \in Nat \ {0}
    /\ TrendWindow \in 1..MaxRecent /\ ExpPriorities \subseteq Nat
    /\ QScale \in Nat \ {0} /\ QScale % (4 ^ MaxLearned) = 0
    /\ QRewards \subseteq Int /\ IsFiniteSet(QRewards) /\ IsFiniteSet(QActions)
    /\ Arms \subseteq Nat

VARIABLES
    experiences,    \* the buffer: sequence of <<number, priority>>
    dropped,        \* experiences that were not admitted, or evicted
    successes, failures, recent,    \* CapabilityScore
    outcomes,       \* all that was recorded of the capability
    records,        \* an agent's ActionRecords: success and duration
    q,              \* q_table
    pulls, rewards, \* ArmStats
    learned

learnVars == <<experiences, dropped, successes, failures, recent, outcomes, records, q,
               pulls, rewards, learned>>

LearnInit ==
    /\ experiences = <<>> /\ dropped = {}
    /\ successes = 0 /\ failures = 0 /\ recent = <<>> /\ outcomes = <<>>
    /\ records = <<>>
    /\ q = [s \in QStates |-> [a \in QActions |-> 0]]
    /\ pulls = [a \in Arms |-> 0] /\ rewards = [a \in Arms |-> 0]
    /\ learned = 0

Learns == learned < MaxLearned /\ learned' = learned + 1
-----------------------------------------------------------------------------
(* replay.rs                                                               *)

Lowest == CHOOSE i \in DOMAIN experiences :
    \A j \in DOMAIN experiences : \/ experiences[i][2] < experiences[j][2]
                                  \/ experiences[i][2] = experiences[j][2] /\ i <= j

SwapRemove(s, i) == SubSeq([s EXCEPT ![i] = s[Len(s)]], 1, Len(s) - 1)

\* Wrong variant: the newest of equals is admitted, the lowest always evicted.
Admits_Always(p) == TRUE

\* At capacity only what is better than the worst gets in.
Admits(p) == p > experiences[Lowest][2]

PushExperience(p) ==
    LET new == <<learned + 1, p>> IN
      /\ Learns
      /\ IF Len(experiences) < MaxExperiences
         THEN experiences' = Append(experiences, new) /\ UNCHANGED dropped
         ELSE IF experiences # <<>> /\ Admits(p)
         THEN /\ experiences' = Append(SwapRemove(experiences, Lowest), new)
              /\ dropped' = dropped \cup {experiences[Lowest]}
         ELSE dropped' = dropped \cup {new} /\ UNCHANGED experiences
      /\ UNCHANGED <<successes, failures, recent, outcomes, records, q, pulls, rewards>>

\* sample(n): any n different experiences with a priority; once none of those
\* is left (the priorities sum to nothing), the others from the front.
Samples(n) ==
    LET size == IF n < Len(experiences) THEN n ELSE Len(experiences) IN
    LET weighted == {i \in DOMAIN experiences : experiences[i][2] > 0} IN
      {S \in SUBSET DOMAIN experiences :
         /\ Cardinality(S) = size
         /\ S \subseteq weighted
            \/ (weighted \subseteq S /\ \A i \in S \ weighted, j \in DOMAIN experiences \ S : i < j)}
-----------------------------------------------------------------------------
(* capability.rs and profile.rs                                            *)

Recent(s, n) == IF Len(s) <= n THEN s ELSE SubSeq(s, Len(s) - n + 1, Len(s))
Hits(s) == Cardinality({i \in DOMAIN s : s[i]})

\* record_success, record_failure
RecordOutcome(ok) ==
    /\ Learns
    /\ successes' = successes + (IF ok THEN 1 ELSE 0)
    /\ failures' = failures + (IF ok THEN 0 ELSE 1)
    /\ recent' = Recent(Append(recent, ok), MaxRecent)
    /\ outcomes' = Append(outcomes, ok)
    /\ UNCHANGED <<experiences, dropped, records, q, pulls, rewards>>

\* update_trend: the rate of the last window against the rate of all, 0.1 apart.
Trend ==
    LET total == successes + failures IN
    LET diff == 10 * (Hits(Recent(recent, TrendWindow)) * total - successes * TrendWindow) IN
      IF Len(recent) < TrendWindow THEN "stable"
      ELSE IF diff > TrendWindow * total THEN "improving"
      ELSE IF diff < -TrendWindow * total THEN "declining"
      ELSE "stable"

\* PerformanceProfile::record: at the cap the oldest records go.
RecordAction(ok, d) ==
    /\ Learns
    /\ records' = Append(Recent(records, MaxActionRecords - 1), [ok |-> ok, ms |-> d])
    /\ UNCHANGED <<experiences, dropped, successes, failures, recent, outcomes, q, pulls, rewards>>

\* success_rate, as a pair, and avg_duration, rounded down; neither of nobody.
SuccessRate(rs) == <<Cardinality({i \in DOMAIN rs : rs[i].ok}), Len(rs)>>
AvgDuration(rs) == MapThenSumSet(LAMBDA i : rs[i].ms, DOMAIN rs) \div Len(rs)
-----------------------------------------------------------------------------
(* optimizer.rs and strategy.rs                                            *)

\* Wrong variant: the next state is worth what its best action is, good or bad.
NextValue_Signed(s) == Max({q[s][a] : a \in QActions})

\* The fold starts at 0: a next state is never worth less than nothing.
NextValue(s) == Max({q[s][a] : a \in QActions} \cup {0})

\* QLearner::update, with all actions open in the next state.
UpdateQ(s, a, r, next) ==
    /\ Learns
    /\ q' = [q EXCEPT ![s][a] = @ + ((r * QScale + NextValue(next) \div 2) - @) \div 2]
    /\ UNCHANGED <<experiences, dropped, successes, failures, recent, outcomes, records, pulls, rewards>>

\* best_action: the last of those with the highest value.
BestActions(s) == {a \in QActions : q[s][a] = Max({q[s][b] : b \in QActions})}

\* Wrong variant: an arm nobody pulled competes by its mean of nothing.
Fresh_None == {}

Fresh == {a \in Arms : pulls[a] = 0}

\* The mean of a is at least that of b.
NoWorse(a, b) == rewards[a] * pulls[b] >= rewards[b] * pulls[a]

\* select: the first arm never pulled; then one not beaten in both respects.
Selected ==
    IF Fresh # {} THEN {Min(Fresh)}
    ELSE {a \in Arms : \A b \in Arms : NoWorse(a, b) \/ pulls[a] <= pulls[b]}

PullArm(a, r) ==
    /\ a \in Selected /\ Learns
    /\ pulls' = [pulls EXCEPT ![a] = @ + 1] /\ rewards' = [rewards EXCEPT ![a] = @ + r]
    /\ UNCHANGED <<experiences, dropped, successes, failures, recent, outcomes, records, q>>

ReplayNext == \E p \in ExpPriorities : PushExperience(p)
ScoreNext == \E ok \in BOOLEAN : RecordOutcome(ok) \/ \E d \in 1..2 : RecordAction(ok, d)
QNext == \E s, next \in QStates, a \in QActions, r \in QRewards : UpdateQ(s, a, r, next)
BanditNext == \E a \in Arms, r \in {0, 1} : PullArm(a, r)
-----------------------------------------------------------------------------
\* The buffer holds the best of all experiences it was given, and sampling
\* takes each at most once; a trend compares the last window with the whole
\* history although only the last outcomes are kept, and is stable as long as
\* the window is the history; a record of an agent says only what its newest
\* actions did; a Q value stays within the rewards' geometric sum; and no arm is
\* pulled twice before every arm was pulled.  The best next value is never below
\* zero (optimizer.rs:83-86), where the formula at :73 has the maximum: rewards that
\* are all negative are not discounted into the past.
LearningSound ==
    /\ Len(experiences) <= MaxExperiences
    /\ \A i \in DOMAIN experiences, d \in dropped : experiences[i][2] >= d[2]
    /\ \A n \in 0..(MaxExperiences + 1) : Samples(n) # {}
    /\ successes = Hits(outcomes) /\ recent = Recent(outcomes, MaxRecent)
    /\ Len(outcomes) <= TrendWindow => Trend = "stable"
    /\ Trend = "improving" => FALSE \in {outcomes[i] : i \in DOMAIN outcomes}
    /\ Len(records) <= MaxActionRecords
    /\ records # <<>> => AvgDuration(records) \in 1..2 /\ SuccessRate(records)[1] <= Len(records)
    /\ \A s \in QStates, a \in QActions :
         q[s][a] \in (Min(QRewards \cup {0}) * QScale)..(2 * Max(QRewards \cup {0}) * QScale)
    /\ \A a, b \in Arms : pulls[a] > 1 => pulls[b] > 0
=============================================================================
