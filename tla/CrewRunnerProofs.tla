--------------------------- MODULE CrewRunnerProofs ---------------------------
(***************************************************************************)
(* What a run does to its tasks and what it reports, for any number of     *)
(* tasks, any dependency graph and any limit: Spec => []RunnerSound,       *)
(* Spec => []OutcomeExact, Spec => []StreamPairs and Spec => CancelStops.  *)
(*                                                                         *)
(* None of the three invariants is inductive.  RunInv adds where a task is *)
(* at every moment: still to come (todo, remaining), with a worker         *)
(* (batch), or in the result list, and otherwise dropped by a wave that a  *)
(* cancel or the deadline cut short; that what is remaining stands in the  *)
(* order of the sort; and what a failure, a drop or a stranded dependency  *)
(* leaves behind for the outcome to name.                                  *)
(***************************************************************************)
EXTENDS CrewRunner, FiniteSetTheorems, WellFoundedInduction, TLAPS

\* A sequence without repetitions.
Distinct(s) == \A i, j \in DOMAIN s : i # j => s[i] # s[j]

Todo == Range(todo)
Batch == Range(batch)
Rest == Range(remaining)
Wave == Range(wave)

Results == [task : Tasks, status : {"completed", "failed"}]
TaskEvents == {"task_started", "token", "task_completed"}
EventSet == [type : TaskEvents, task : Tasks] \cup [type : {"crew_started"}, task : {Ghost}]
              \cup [type : {"crew_completed"}, task : {Ghost}, status : {"completed", "failed", "cancelled"}, count : Nat]
Told(type, t) == \E i \in DOMAIN events : events[i].type = type /\ events[i].task = t

Typed ==
    /\ kind \in Kinds /\ deps \in Graphs \cup {NoDeps}
    /\ pc \in Places /\ spawned \in 0..N
    /\ completed \subseteq Tasks /\ anyFailed \in BOOLEAN
    /\ job \in [Tasks -> JobStates] /\ res \in [Tasks -> {"none", "completed", "failed"}]
    /\ tstat \in [Tasks -> Statuses]
    /\ cancelled \in BOOLEAN /\ expired \in BOOLEAN /\ timedOut \in BOOLEAN /\ watched \in BOOLEAN /\ wants \in BOOLEAN
    /\ counted \subseteq Tasks /\ outcome \in {"none", "completed", "failed", "cancelled", "error"}

Lists ==
    /\ todo \in Seq(Tasks) /\ Distinct(todo) /\ batch \in Seq(Tasks) /\ Distinct(batch)
    /\ remaining \in Seq(Tasks) /\ Distinct(remaining) /\ wave \in Seq(Tasks) /\ audited \in Seq(Tasks)
    /\ \A i, j \in DOMAIN remaining : remaining[i] \in deps[remaining[j]] => i < j

Reports ==
    /\ results \in Seq(Results) /\ \A i, j \in DOMAIN results : i # j => results[i].task # results[j].task
    /\ pc # "over" => \A i \in DOMAIN results : results[i].status = res[results[i].task]

Seqs == {"sequential", "hierarchical"}

\* Where the runner is, and what goes with it.
Phases ==
    /\ pc \in {"begin", "mode"} =>
         /\ \A t \in Tasks : job[t] = "none"
         /\ todo = <<>> /\ remaining = <<>> /\ wave = <<>> /\ ~timedOut /\ ~anyFailed /\ results = <<>>
    /\ pc \in {"seqHead", "seqTask"} => kind \in Seqs
    /\ pc \in {"dispatch", "inline", "join", "batchHead"} => kind \in {"parallel", "dag"}
    /\ pc \in {"dagHead", "waveOver"} => kind = "dag"
    /\ kind # "dag" => remaining = <<>> /\ wave = <<>> /\ ~anyFailed
    /\ pc \notin {"seqTask", "dispatch", "inline", "join"} => batch = <<>>
    /\ pc = "seqTask" => Len(batch) = 1
    /\ pc = "dagHead" => todo = <<>> /\ wave = <<>>
    /\ timedOut => expired
    /\ gauge = (IF pc \in {"begin", "over"} THEN 0 ELSE 1)
    /\ pc # "over" => outcome = "none"

\* The workers of a batch are counted.
Counts ==
    /\ pc \in {"dispatch", "inline"} => spawned = Len(batch)
    /\ pc = "join" => Len(batch) <= spawned
    /\ pc \in {"dispatch", "inline", "join"} => spawned <= BatchLimit

\* Where a task is.
Dropped == kind = "dag" /\ (cancelled \/ timedOut)
Where ==
    /\ \A t \in Tasks : res[t] # "none" <=> job[t] = "done"
    /\ \A t \in Todo : job[t] = "none"
    /\ \A t \in Rest : job[t] = "none" /\ t \notin Todo
    /\ \A t \in Batch : job[t] # "none" /\ t \notin ResultTasks
    /\ pc # "over" => \A t \in ResultTasks : job[t] = "done"
    /\ pc # "over" => \A t \in Tasks : job[t] # "none" => t \in Batch \/ t \in ResultTasks
    /\ pc \notin {"begin", "mode", "over"} => \A t \in Tasks : job[t] = "none" => t \in Todo \/ t \in Rest \/ Dropped
    /\ pc = "over" => \A t \in Tasks : job[t] \in {"none", "done"}

\* A failure leaves its mark: in the flag once its wave is over, and in the list.
FailedResult == \E i \in DOMAIN results : results[i].status = "failed"
Waves ==
    /\ kind = "dag" /\ pc # "over" =>
         /\ \A t \in Todo \cup Batch : t \in Wave
         /\ \A t \in Wave : t \in Todo \/ t \in Batch \/ t \in ResultTasks
         /\ \A t \in Tasks : res[t] = "failed" /\ t \notin Wave => anyFailed
         /\ \A t \in Tasks : res[t] = "completed" /\ t \notin Wave => t \in completed
    /\ \A t \in Wave : deps[t] \subseteq completed
    /\ \A t \in completed : res[t] = "completed"
    /\ kind = "dag" => \A t \in Tasks : job[t] # "none" => deps[t] \subseteq completed
    /\ anyFailed /\ pc # "over" => cancelled \/ timedOut \/ FailedResult

Stranded(t) == kind = "dag" /\ \E d \in deps[t] : d = Ghost \/ res[d] # "completed"

\* What is left undone when the loops are over has a cause.
Left ==
    /\ pc \in {"waveOver", "end"} /\ todo # <<>> => cancelled \/ timedOut
    /\ pc = "end" => \/ cancelled \/ timedOut
                     \/ \A t \in Rest : Stranded(t)
    /\ pc = "end" /\ remaining # <<>> => cancelled \/ timedOut \/ FailedResult

Over == pc = "over" =>
    /\ CompletedMeansAll /\ FailureHasCause /\ ShortRunExplained
    /\ TimeoutOutranks /\ ErrorMeansBadSpec /\ RanIsCounted

\* What has been sent.
Ordered ==
    /\ events \in Seq(EventSet)
    /\ \A i \in Sent("task_completed") : Before("task_started", i)
    /\ \A i \in Sent("token") : ~Before("task_completed", i)

Stream ==
    /\ Ordered
    /\ \A t \in Tasks : Told("task_started", t) => job[t] # "none"
    /\ \A t \in Tasks : Told("task_completed", t) => job[t] = "done"
    /\ \A t \in Batch : ~Told("task_completed", t) /\ (wants <=> Told("task_started", t))
    /\ \A t \in Tasks : Told("task_started", t) => t \in Batch \/ Told("task_completed", t)

RunInv ==
    /\ Typed /\ Lists /\ Reports /\ Phases /\ Counts /\ Where /\ Waves /\ Left /\ Over /\ Stream
-----------------------------------------------------------------------------
(* Induction over the naturals, from a set that contains 0 and each        *)
(* successor; and what the partition loop pushes.                          *)

LEMMA SetInduction ==
  ASSUME NEW S, 0 \in S, \A n \in Nat : n \in S => n + 1 \in S
  PROVE  Nat \subseteq S
  <1> DEFINE T == Nat \ S
  <1>1. SUFFICES ASSUME T # {} PROVE FALSE
    OBVIOUS
  <1>2. PICK x \in T : \A y \in T : ~(<<y, x>> \in OpToRel(<, Nat))
    BY <1>1, NatLessThanWellFounded, WFMin, Zenon
  <1>3. x \in Nat /\ x \notin S
    OBVIOUS
  <1>4. x # 0 /\ x - 1 \in Nat /\ x - 1 < x /\ (x - 1) + 1 = x
    BY <1>3
  <1>5. x - 1 \in T
    BY <1>3, <1>4
  <1>6. <<x - 1, x>> \in OpToRel(<, Nat)
    BY <1>3, <1>4 DEF OpToRel
  <1> QED BY <1>2, <1>5, <1>6, Zenon

\* f is the loop's history: f[j] is what it has pushed after j turns.
History(s, S, f) ==
    f = [j \in 0..Len(s) |-> IF j = 0 THEN <<>> ELSE IF s[j] \in S THEN Append(f[j - 1], s[j]) ELSE f[j - 1]]

LEMMA HistoryExists ==
  ASSUME NEW X, NEW s \in Seq(X), NEW S
  PROVE  \E f \in [0..Len(s) -> Seq(X)] : History(s, S, f)
  <1>0. <<>> \in Seq(X)
    OBVIOUS
  <1> DEFINE Turn(n, g) == IF n = 0 THEN <<>> ELSE IF s[n] \in S THEN Append(g[n - 1], s[n]) ELSE g[n - 1]
             G(n) == {g \in [0..n -> Seq(X)] : \A i \in 0..n : g[i] = Turn(i, g)}
             W == {n \in Nat : n <= Len(s) => G(n) # {}}
  <1>1. 0 \in W
    <2> DEFINE g == [i \in 0..0 |-> <<>>]
    <2>1. g \in [0..0 -> Seq(X)] /\ \A i \in 0..0 : i = 0
      BY <1>0
    <2>2. g \in G(0)
      BY <2>1
    <2> QED BY <2>2
  <1> HIDE DEF G
  <1>2. ASSUME NEW n \in Nat, n \in W PROVE n + 1 \in W
    <2> SUFFICES ASSUME n + 1 <= Len(s) PROVE G(n + 1) # {}
      OBVIOUS
    <2>0. G(n) # {}
      BY <1>2
    <2>1. PICK g \in [0..n -> Seq(X)] : \A i \in 0..n : g[i] = Turn(i, g)
      <3> HIDE DEF Turn, W
      <3> QED BY <2>0 DEF G
    <2> DEFINE h == [i \in 0..(n + 1) |-> IF i = n + 1 THEN Turn(n + 1, g) ELSE g[i]]
    <2>2. s[n + 1] \in X /\ g[n] \in Seq(X) /\ (n + 1) - 1 = n
      BY <2>1
    <2>3. Turn(n + 1, g) \in Seq(X)
      BY <2>2
    <2>4. h \in [0..(n + 1) -> Seq(X)]
      BY <2>3, <2>1
    <2>5. ASSUME NEW i \in 0..(n + 1) PROVE h[i] = Turn(i, h)
      <3>1. CASE i = n + 1
        <4>1. h[i] = Turn(n + 1, g) /\ h[n] = g[n]
          BY <3>1
        <4> QED BY <2>2, <3>1, <4>1
      <3>2. CASE i \in 0..n
        <4>1. i # 0 => i - 1 \in 0..n
          BY <3>2
        <4>2. h[i] = g[i] /\ (i # 0 => h[i - 1] = g[i - 1])
          BY <3>2, <4>1
        <4>3. g[i] = Turn(i, g)
          BY <2>1, <3>2
        <4> QED BY <4>2, <4>3
      <3> QED BY <3>1, <3>2
    <2> HIDE DEF h, Turn
    <2> QED BY <2>4, <2>5 DEF G
  <1> HIDE DEF W
  <1>3. Len(s) \in W
    BY <1>1, <1>2, SetInduction
  <1>4. PICK g \in [0..Len(s) -> Seq(X)] : \A i \in 0..Len(s) : g[i] = Turn(i, g)
    BY <1>3 DEF W, G
  <1>5. g = [i \in 0..Len(s) |-> g[i]]
    BY <1>4
  <1>6. History(s, S, g)
    BY <1>4 DEF History
  <1> QED BY <1>4, <1>6

LEMMA PushedIs ==
  ASSUME NEW X, NEW s \in Seq(X), NEW S
  PROVE  \E f : History(s, S, f) /\ Pushed(s, S) = f[Len(s)]
  <1> DEFINE f == CHOOSE f : History(s, S, f)
  <1>1. \E g : History(s, S, g)
    BY HistoryExists
  <1>2. History(s, S, f)
    BY <1>1, Zenon
  <1>3. Pushed(s, S) = f[Len(s)]
    BY DEF Pushed, History
  <1> QED BY <1>2, <1>3

\* r is the first n items of s without what is not in S: e says where in s each of
\* its items stands.
PartOf(r, s, n, S, e) ==
    /\ e \in [1..Len(r) -> 1..n] /\ \A i, j \in 1..Len(r) : i < j => e[i] < e[j]
    /\ \A i \in 1..Len(r) : r[i] = s[e[i]] /\ s[e[i]] \in S
    /\ \A j \in 1..n : s[j] \in S => \E i \in 1..Len(r) : e[i] = j

LEMMA PushedPart ==
  ASSUME NEW X, NEW s \in Seq(X), NEW S
  PROVE  Pushed(s, S) \in Seq(X) /\ \E e : PartOf(Pushed(s, S), s, Len(s), S, e)
  <1>1. PICK f : History(s, S, f) /\ Pushed(s, S) = f[Len(s)]
    BY PushedIs
  <1>0. /\ f[0] = <<>>
        /\ \A n \in Nat : n + 1 <= Len(s) =>
             f[n + 1] = IF s[n + 1] \in S THEN Append(f[n], s[n + 1]) ELSE f[n]
    <2>1. f[0] = <<>>
      BY <1>1 DEF History
    <2>2. ASSUME NEW n \in Nat, n + 1 <= Len(s)
          PROVE  f[n + 1] = IF s[n + 1] \in S THEN Append(f[n], s[n + 1]) ELSE f[n]
      <3>1. n + 1 \in 0..Len(s) /\ n + 1 # 0 /\ (n + 1) - 1 = n
        BY <2>2
      <3> QED BY <1>1, <3>1 DEF History
    <2> QED BY <2>1, <2>2
  <1> DEFINE W == {n \in Nat : n <= Len(s) => f[n] \in Seq(X) /\ \E e : PartOf(f[n], s, n, S, e)}
  <1>2. 0 \in W
    <2> DEFINE e == [i \in 1..0 |-> i]
    <2>1. PartOf(<<>>, s, 0, S, e)
      BY DEF PartOf
    <2>2. <<>> \in Seq(X)
      OBVIOUS
    <2> HIDE DEF e
    <2>3. f[0] \in Seq(X) /\ \E g : PartOf(f[0], s, 0, S, g)
      BY <1>0, <2>1, <2>2
    <2> QED BY <2>3
  <1>3. ASSUME NEW n \in Nat, n \in W PROVE n + 1 \in W
    <2> SUFFICES ASSUME n + 1 <= Len(s)
                 PROVE  f[n + 1] \in Seq(X) /\ \E e : PartOf(f[n + 1], s, n + 1, S, e)
      OBVIOUS
    <2> DEFINE r == f[n]  x == s[n + 1]
    <2>1. r \in Seq(X) /\ (\E e : PartOf(r, s, n, S, e)) /\ x \in X
      BY <1>3
    <2>2. PICK e : PartOf(r, s, n, S, e)
      BY <2>1
    <2>3. f[n + 1] = IF x \in S THEN Append(r, x) ELSE r
      BY <1>0
    <2> HIDE DEF r, x
    <2>4. Len(r) \in Nat /\ \A i \in 1..Len(r) : e[i] \in 1..n
      BY <2>1, <2>2 DEF PartOf
    <2>5. CASE x \notin S
      <3>1. PartOf(r, s, n + 1, S, e)
        <4>1. e \in [1..Len(r) -> 1..(n + 1)]
          BY <2>2, <2>4 DEF PartOf
        <4>2. \A j \in 1..(n + 1) : s[j] \in S => j \in 1..n
          BY <2>5 DEF x
        <4> QED BY <2>2, <4>1, <4>2 DEF PartOf
      <3> QED BY <2>1, <2>3, <2>5, <3>1
    <2>6. CASE x \in S
      <3> DEFINE t == Append(r, x)  e2 == [i \in 1..(Len(r) + 1) |-> IF i = Len(r) + 1 THEN n + 1 ELSE e[i]]
      <3>1. /\ t \in Seq(X) /\ Len(t) = Len(r) + 1 /\ t[Len(r) + 1] = x
            /\ \A i \in 1..Len(r) : t[i] = r[i]
        BY <2>1
      <3>2. /\ e2 \in [1..(Len(r) + 1) -> 1..(n + 1)] /\ e2[Len(r) + 1] = n + 1
            /\ \A i \in 1..Len(r) : e2[i] = e[i] /\ e2[i] \in 1..n
        BY <2>4
      <3> HIDE DEF t, e2
      <3>3. \A i, j \in 1..(Len(r) + 1) : i < j => e2[i] < e2[j]
        <4> SUFFICES ASSUME NEW i \in 1..(Len(r) + 1), NEW j \in 1..(Len(r) + 1), i < j PROVE e2[i] < e2[j]
          OBVIOUS
        <4>1. i \in 1..Len(r) /\ e2[i] = e[i] /\ e2[i] \in 1..n
          BY <2>4, <3>2
        <4>2. CASE j = Len(r) + 1
          BY <3>2, <4>1, <4>2
        <4>3. CASE j \in 1..Len(r)
          BY <2>2, <3>2, <4>1, <4>3 DEF PartOf
        <4>4. j = Len(r) + 1 \/ j \in 1..Len(r)
          BY <2>4
        <4> QED BY <4>2, <4>3, <4>4
      <3>4. \A i \in 1..(Len(r) + 1) : t[i] = s[e2[i]] /\ s[e2[i]] \in S
        <4> SUFFICES ASSUME NEW i \in 1..(Len(r) + 1) PROVE t[i] = s[e2[i]] /\ s[e2[i]] \in S
          OBVIOUS
        <4>1. CASE i = Len(r) + 1
          BY <2>6, <3>1, <3>2, <4>1 DEF x
        <4>2. CASE i \in 1..Len(r)
          BY <2>2, <3>1, <3>2, <4>2 DEF PartOf
        <4> QED BY <2>4, <4>1, <4>2
      <3>5. ASSUME NEW j \in 1..(n + 1), s[j] \in S PROVE \E i \in 1..(Len(r) + 1) : e2[i] = j
        <4>1. CASE j = n + 1
          <5>1. Len(r) + 1 \in 1..(Len(r) + 1)
            BY <2>4
          <5> QED BY <3>2, <4>1, <5>1
        <4>2. CASE j \in 1..n
          <5>1. PICK i \in 1..Len(r) : e[i] = j
            BY <2>2, <3>5, <4>2 DEF PartOf
          <5>2. i \in 1..(Len(r) + 1)
            BY <2>4
          <5> QED BY <3>2, <5>1, <5>2
        <4> QED BY <4>1, <4>2
      <3>6. PartOf(t, s, n + 1, S, e2)
        BY <3>1, <3>2, <3>3, <3>4, <3>5 DEF PartOf
      <3> QED BY <2>3, <2>6, <3>1, <3>6 DEF t
    <2> QED BY <2>5, <2>6
  <1> HIDE DEF W
  <1>4. Len(s) \in W
    BY <1>2, <1>3, SetInduction
  <1> QED BY <1>1, <1>4 DEF W
-----------------------------------------------------------------------------
(* Lists without repetitions.                                              *)

LEMMA EmptyList == <<>> \in Seq(Tasks) /\ Distinct(<<>>) /\ Range(<<>>) = {} /\ Len(<<>>) = 0
  BY DEF Distinct, Range

LEMMA NoneIn == ASSUME NEW s \in Seq(Tasks), Range(s) = {} PROVE s = <<>>
  <1>1. Len(s) \in Nat /\ DOMAIN s = 1..Len(s)
    OBVIOUS
  <1>2. CASE Len(s) > 0
    <2>1. 1 \in DOMAIN s
      BY <1>1, <1>2
    <2>2. s[1] \in Range(s)
      BY <2>1 DEF Range
    <2> QED BY <2>2
  <1>3. CASE Len(s) = 0
    BY <1>3
  <1> QED BY <1>1, <1>2, <1>3

LEMMA TakeOne ==
  ASSUME NEW s \in Seq(Tasks), Distinct(s), s # <<>>
  PROVE  /\ Head(s) \in Tasks /\ Head(s) \in Range(s) /\ Tail(s) \in Seq(Tasks) /\ Distinct(Tail(s))
         /\ Range(Tail(s)) = Range(s) \ {Head(s)} /\ Len(Tail(s)) = Len(s) - 1
  <1>0. Len(s) \in Nat \ {0} /\ DOMAIN s = 1..Len(s) /\ s[1] \in Tasks
    OBVIOUS
  <1>1. /\ Tail(s) \in Seq(Tasks) /\ Len(Tail(s)) = Len(s) - 1 /\ DOMAIN Tail(s) = 1..(Len(s) - 1)
        /\ \A i \in 1..(Len(s) - 1) : Tail(s)[i] = s[i + 1]
        /\ Head(s) = s[1]
    BY <1>0
  <1>2. \A i, j \in 1..Len(s) : i # j => s[i] # s[j]
    BY <1>0 DEF Distinct
  <1>3. ASSUME NEW i \in 1..(Len(s) - 1), NEW j \in 1..(Len(s) - 1), i # j PROVE Tail(s)[i] # Tail(s)[j]
    <2>1. i + 1 \in 1..Len(s) /\ j + 1 \in 1..Len(s) /\ i + 1 # j + 1
      BY <1>0, <1>3
    <2> QED BY <1>1, <1>2, <2>1
  <1>4. ASSUME NEW t \in Range(Tail(s)) PROVE t \in Range(s) \ {Head(s)}
    <2>1. PICK i \in 1..(Len(s) - 1) : t = Tail(s)[i]
      BY <1>1 DEF Range
    <2>2. i + 1 \in 1..Len(s) /\ i + 1 # 1 /\ 1 \in 1..Len(s)
      BY <1>0
    <2> QED BY <1>0, <1>1, <1>2, <2>1, <2>2 DEF Range
  <1>5. ASSUME NEW t \in Range(s), t # Head(s) PROVE t \in Range(Tail(s))
    <2>1. PICK i \in 1..Len(s) : t = s[i]
      BY <1>0 DEF Range
    <2>2. i - 1 \in 1..(Len(s) - 1) /\ (i - 1) + 1 = i
      BY <1>0, <1>1, <1>5, <2>1
    <2> QED BY <1>1, <2>1, <2>2 DEF Range
  <1>6. Head(s) \in Range(s)
    BY <1>0, <1>1 DEF Range
  <1>7. Distinct(Tail(s))
    BY <1>1, <1>3 DEF Distinct
  <1> QED BY <1>0, <1>1, <1>4, <1>5, <1>6, <1>7

LEMMA AddOne ==
  ASSUME NEW s \in Seq(Tasks), NEW t \in Tasks
  PROVE  /\ Append(s, t) \in Seq(Tasks) /\ Range(Append(s, t)) = Range(s) \cup {t} /\ Len(Append(s, t)) = Len(s) + 1
         /\ Distinct(s) /\ t \notin Range(s) => Distinct(Append(s, t))
  <1> DEFINE r == Append(s, t)
  <1>0. Len(s) \in Nat /\ DOMAIN s = 1..Len(s)
    OBVIOUS
  <1>1. /\ r \in Seq(Tasks) /\ Len(r) = Len(s) + 1 /\ DOMAIN r = 1..(Len(s) + 1)
        /\ (\A i \in 1..Len(s) : r[i] = s[i]) /\ r[Len(s) + 1] = t
    BY <1>0
  <1> HIDE DEF r
  <1>2. \A i \in 1..(Len(s) + 1) : i = Len(s) + 1 \/ i \in 1..Len(s)
    BY <1>0
  <1>3. Len(s) + 1 \in 1..(Len(s) + 1) /\ \A i \in 1..Len(s) : i \in 1..(Len(s) + 1)
    BY <1>0
  <1>4. Range(r) = Range(s) \cup {t}
    <2>1. ASSUME NEW x \in Range(r) PROVE x \in Range(s) \cup {t}
      BY <1>0, <1>1, <1>2 DEF Range
    <2>2. ASSUME NEW x \in Range(s) PROVE x \in Range(r)
      BY <1>0, <1>1, <1>3 DEF Range
    <2>3. t \in Range(r)
      BY <1>1, <1>3 DEF Range
    <2> QED BY <2>1, <2>2, <2>3
  <1>5. ASSUME Distinct(s), t \notin Range(s) PROVE Distinct(r)
    <2>1. \A i \in 1..Len(s) : s[i] # t
      BY <1>0, <1>5 DEF Range
    <2>2. ASSUME NEW i \in 1..(Len(s) + 1), NEW j \in 1..(Len(s) + 1), i # j PROVE r[i] # r[j]
      <3>1. CASE i \in 1..Len(s) /\ j \in 1..Len(s)
        BY <1>0, <1>1, <1>5, <2>2, <3>1 DEF Distinct
      <3>2. CASE i = Len(s) + 1
        BY <1>1, <1>2, <2>1, <2>2, <3>2
      <3>3. CASE j = Len(s) + 1
        BY <1>1, <1>2, <2>1, <2>2, <3>3
      <3> QED BY <1>2, <3>1, <3>2, <3>3
    <2> QED BY <1>1, <2>2 DEF Distinct
  <1> QED BY <1>1, <1>4, <1>5 DEF r

\* Distinct tasks are no more than there are; when they are as many, they are all.
LEMMA Fits ==
  ASSUME NEW n \in Nat, NEW f \in [1..n -> Tasks], \A i, j \in 1..n : i # j => f[i] # f[j]
  PROVE  /\ n <= N /\ IsFiniteSet(Range(f)) /\ Cardinality(Range(f)) = n
         /\ n = N <=> Range(f) = Tasks
  <1>1. IsFiniteSet(Tasks) /\ Cardinality(Tasks) = N /\ IsFiniteSet(1..n) /\ Cardinality(1..n) = n
    BY FS_Interval, NAssumption DEF Tasks
  <1>2. Range(f) \subseteq Tasks /\ f \in Surjection(1..n, Range(f))
    BY DEF Range, Surjection
  <1>3. f \in Injection(1..n, Range(f))
    BY <1>2 DEF Injection, IsInjective, Surjection
  <1>5. IsFiniteSet(Range(f)) /\ Cardinality(Range(f)) <= N /\ (Cardinality(Range(f)) = N => Range(f) = Tasks)
    BY <1>1, <1>2, FS_Subset
  <1>6. Cardinality(Range(f)) = n
    BY <1>1, <1>2, <1>3, FS_Surjection
  <1> QED BY <1>1, <1>5, <1>6, NAssumption

\* The two parts of what remains: they split it, and each keeps its order.
LEMMA Parts ==
  ASSUME NEW s \in Seq(Tasks), Distinct(s), NEW S,
         \A i, j \in DOMAIN s : s[i] \in deps[s[j]] => i < j
  PROVE  LET r == Pushed(s, S) IN
         /\ r \in Seq(Tasks) /\ Distinct(r) /\ Range(r) = Range(s) \cap S
         /\ \A i, j \in DOMAIN r : r[i] \in deps[r[j]] => i < j
  <1> DEFINE r == Pushed(s, S)
  <1>1. r \in Seq(Tasks) /\ \E e : PartOf(r, s, Len(s), S, e)
    BY PushedPart
  <1>2. PICK e : PartOf(r, s, Len(s), S, e)
    BY <1>1
  <1> HIDE DEF r
  <1>3. Len(r) \in Nat /\ DOMAIN r = 1..Len(r) /\ Len(s) \in Nat /\ DOMAIN s = 1..Len(s)
    BY <1>1
  <1>4. /\ \A i \in 1..Len(r) : e[i] \in 1..Len(s) /\ e[i] \in Nat /\ r[i] = s[e[i]] /\ r[i] \in S
        /\ \A i, j \in 1..Len(r) : i < j => e[i] < e[j]
        /\ \A j \in 1..Len(s) : s[j] \in S => \E i \in 1..Len(r) : e[i] = j
    BY <1>2, <1>3 DEF PartOf
  <1>5. \A i, j \in 1..Len(r) : i # j => e[i] # e[j]
    <2> SUFFICES ASSUME NEW i \in 1..Len(r), NEW j \in 1..Len(r), i # j PROVE e[i] # e[j]
      OBVIOUS
    <2>1. i < j \/ j < i
      BY <1>3
    <2> QED BY <1>4, <2>1
  <1>6. Distinct(r)
    BY <1>3, <1>4, <1>5 DEF Distinct
  <1>7. Range(r) = Range(s) \cap S
    <2>1. ASSUME NEW x \in Range(r) PROVE x \in Range(s) \cap S
      BY <1>3, <1>4 DEF Range
    <2>2. ASSUME NEW x \in Range(s), x \in S PROVE x \in Range(r)
      <3>1. PICK j \in 1..Len(s) : s[j] = x
        BY <1>3 DEF Range
      <3>2. PICK i \in 1..Len(r) : e[i] = j
        BY <1>4, <2>2, <3>1
      <3> QED BY <1>3, <1>4, <3>1, <3>2 DEF Range
    <2> QED BY <2>1, <2>2
  <1>8. ASSUME NEW i \in 1..Len(r), NEW j \in 1..Len(r), r[i] \in deps[r[j]] PROVE i < j
    <2>1. e[i] < e[j] /\ e[i] \in Nat /\ e[j] \in Nat
      BY <1>3, <1>4, <1>8
    <2>2. CASE i = j
      BY <2>1, <2>2
    <2>3. CASE j < i
      <3>1. e[j] < e[i]
        BY <1>4, <2>3
      <3> QED BY <2>1, <3>1
    <2> QED BY <1>3, <2>2, <2>3
  <1> QED BY <1>1, <1>3, <1>6, <1>7, <1>8 DEF r

-----------------------------------------------------------------------------
(* The result list and the stream.                                         *)

LEMMA ReportOne ==
  ASSUME results \in Seq(Results), \A i, j \in DOMAIN results : i # j => results[i].task # results[j].task,
         NEW x \in Results, x.task \notin ResultTasks, results' = Append(results, x)
  PROVE  /\ results' \in Seq(Results) /\ \A i, j \in DOMAIN results' : i # j => results'[i].task # results'[j].task
         /\ ResultTasks' = ResultTasks \cup {x.task}
         /\ \A i \in DOMAIN results : i \in DOMAIN results' /\ results'[i] = results[i]
         /\ \A i \in DOMAIN results' : \/ i \in DOMAIN results /\ results'[i] = results[i]
                                       \/ results'[i].task = x.task /\ results'[i].status = x.status
         /\ \E i \in DOMAIN results' : results'[i].task = x.task /\ results'[i].status = x.status
  <1> DEFINE t == x.task  st == x.status
  <1> HIDE DEF t, st
  <1>0. x \in Results /\ x.task = t /\ x.status = st /\ t \notin ResultTasks
    BY DEF t, st
  <1>1. Len(results) \in Nat /\ DOMAIN results = 1..Len(results) 
    OBVIOUS
  <1>2. /\ results' \in Seq(Results) /\ DOMAIN results' = 1..(Len(results) + 1)
        /\ (\A i \in 1..Len(results) : results'[i] = results[i]) /\ results'[Len(results) + 1] = x
    BY <1>0, <1>1
  <1>3. \A i \in 1..(Len(results) + 1) : i = Len(results) + 1 \/ i \in 1..Len(results)
    BY <1>1
  <1>4. Len(results) + 1 \in 1..(Len(results) + 1) /\ \A i \in 1..Len(results) : i \in 1..(Len(results) + 1)
    BY <1>1
  <1>5. \A i \in 1..Len(results) : results[i].task # t
    BY <1>0, <1>1 DEF ResultTasks
  <1>6. ASSUME NEW i \in 1..(Len(results) + 1), NEW j \in 1..(Len(results) + 1), i # j
        PROVE  results'[i].task # results'[j].task
    <2>1. CASE i \in 1..Len(results) /\ j \in 1..Len(results)
      BY <1>1, <1>2, <1>6, <2>1
    <2>2. CASE i = Len(results) + 1
      BY <1>0, <1>2, <1>3, <1>5, <1>6, <2>2
    <2>3. CASE j = Len(results) + 1
      BY <1>0, <1>2, <1>3, <1>5, <1>6, <2>3
    <2> QED BY <1>3, <2>1, <2>2, <2>3
  <1>7. ResultTasks' = ResultTasks \cup {t}
    <2>1. ASSUME NEW u \in ResultTasks' PROVE u \in ResultTasks \cup {t}
      BY <1>0, <1>1, <1>2, <1>3 DEF ResultTasks
    <2>2. ASSUME NEW u \in ResultTasks PROVE u \in ResultTasks'
      BY <1>1, <1>2, <1>4 DEF ResultTasks
    <2>3. t \in ResultTasks'
      BY <1>0, <1>2, <1>4 DEF ResultTasks
    <2> QED BY <2>1, <2>2, <2>3
  <1>8. \A i \in DOMAIN results' : \/ i \in DOMAIN results /\ results'[i] = results[i]
                                   \/ results'[i].task = t /\ results'[i].status = st
    BY <1>0, <1>1, <1>2, <1>3
  <1>9. \E i \in DOMAIN results' : results'[i].task = t /\ results'[i].status = st
    BY <1>0, <1>2, <1>4
  <1> QED BY <1>1, <1>2, <1>4, <1>6, <1>7, <1>8, <1>9 DEF t, st

\* One more event keeps the order, when it follows what it must.
LEMMA TellOne ==
  ASSUME Ordered, NEW e \in EventSet, NEW on, events' = Emit(on, e),
         on /\ e.type = "task_completed" => Told("task_started", e.task),
         on /\ e.type = "token" => ~Told("task_completed", e.task)
  PROVE  /\ Ordered'
         /\ \A type, t : Told(type, t)' <=> Told(type, t) \/ (on /\ e.type = type /\ e.task = t)
  <1>1. CASE ~on
    <2>1. events' = events
      BY <1>1 DEF Emit
    <2> QED BY <1>1, <2>1 DEF Ordered, Told, Sent, Before
  <1>2. CASE on
    <2>1. events' = Append(events, e) /\ events \in Seq(EventSet) /\ Len(events) \in Nat /\ DOMAIN events = 1..Len(events)
      BY <1>2 DEF Emit, Ordered
    <2>2. /\ events' \in Seq(EventSet) /\ DOMAIN events' = 1..(Len(events) + 1)
          /\ (\A i \in 1..Len(events) : events'[i] = events[i]) /\ events'[Len(events) + 1] = e
      BY <2>1
    <2>3. \A i \in 1..(Len(events) + 1) : i = Len(events) + 1 \/ i \in 1..Len(events)
      BY <2>1
    <2>4. Len(events) + 1 \in 1..(Len(events) + 1) /\ \A i \in 1..Len(events) : i \in 1..(Len(events) + 1) /\ i < Len(events) + 1
      BY <2>1
    <2>5. ASSUME NEW type, NEW t
          PROVE  Told(type, t)' <=> Told(type, t) \/ (e.type = type /\ e.task = t)
      <3>1. ASSUME Told(type, t)' PROVE Told(type, t) \/ (e.type = type /\ e.task = t)
        BY <2>1, <2>2, <2>3, <3>1 DEF Told
      <3>2. ASSUME Told(type, t) PROVE Told(type, t)'
        BY <2>1, <2>2, <2>4, <3>2 DEF Told
      <3>3. ASSUME e.type = type, e.task = t PROVE Told(type, t)'
        BY <2>2, <2>4, <3>3 DEF Told
      <3> QED BY <3>1, <3>2, <3>3
    <2>6. ASSUME NEW i \in 1..(Len(events) + 1), events'[i].type = "task_completed"
          PROVE  \E j \in 1..(Len(events) + 1) : events'[j].type = "task_started" /\ j < i /\ events'[j].task = events'[i].task
      <3>1. CASE i \in 1..Len(events)
        <4>1. PICK j \in 1..Len(events) : events[j].type = "task_started" /\ j < i /\ events[j].task = events[i].task
          BY <2>1, <2>2, <2>6, <3>1 DEF Ordered, Sent, Before
        <4> QED BY <2>2, <2>4, <3>1, <4>1
      <3>2. CASE i = Len(events) + 1
        <4>1. PICK j \in 1..Len(events) : events[j].type = "task_started" /\ events[j].task = e.task
          BY <1>2, <2>1, <2>2, <2>6, <3>2 DEF Told
        <4> QED BY <2>2, <2>4, <3>2, <4>1
      <3> QED BY <2>3, <3>1, <3>2
    <2>7. ASSUME NEW i \in 1..(Len(events) + 1), events'[i].type = "token", NEW j \in 1..(Len(events) + 1),
                 events'[j].type = "task_completed", j < i, events'[j].task = events'[i].task
          PROVE  FALSE
      <3>0. j \in 1..Len(events)
        BY <2>1, <2>7
      <3>1. CASE i \in 1..Len(events)
        BY <2>1, <2>2, <2>7, <3>0, <3>1 DEF Ordered, Sent, Before
      <3>2. CASE i = Len(events) + 1
        BY <1>2, <2>1, <2>2, <2>7, <3>0, <3>2 DEF Told
      <3> QED BY <2>3, <3>1, <3>2
    <2>8. Ordered'
      BY <2>2, <2>6, <2>7 DEF Ordered, Sent, Before
    <2> QED BY <1>2, <2>5, <2>8
  <1> QED BY <1>1, <1>2

LEMMA AllTasks ==
  ASSUME NEW s, s = [i \in Tasks |-> i]
  PROVE  s \in Seq(Tasks) /\ Distinct(s) /\ Range(s) = Tasks
  <1>1. s \in [1..N -> Tasks] /\ \A i \in 1..N : s[i] = i
    BY DEF Tasks
  <1>2. DOMAIN s = 1..N /\ s \in Seq(Tasks)
    BY <1>1, NAssumption
  <1> QED BY <1>1, <1>2 DEF Distinct, Range, Tasks

LEMMA Within ==
  ASSUME Lists, Reports
  PROVE  Todo \subseteq Tasks /\ Batch \subseteq Tasks /\ Rest \subseteq Tasks /\ Wave \subseteq Tasks /\ ResultTasks \subseteq Tasks
  <1>1. Todo \subseteq Tasks /\ Batch \subseteq Tasks /\ Rest \subseteq Tasks /\ Wave \subseteq Tasks
    BY DEF Lists, Todo, Batch, Rest, Wave, Range
  <1>2. ASSUME NEW i \in DOMAIN results PROVE results[i].task \in Tasks
    <2>1. results[i] \in Results
      BY DEF Reports
    <2> QED BY <2>1 DEF Results
  <1> QED BY <1>1, <1>2 DEF ResultTasks

\* Before its mode is chosen a run has nothing, and outside a batch it has no worker.
LEMMA AtFirst ==
  ASSUME Phases, pc \in {"begin", "mode"}
  PROVE  Todo = {} /\ Batch = {} /\ Rest = {} /\ Wave = {} /\ ResultTasks = {} /\ ~FailedResult
  BY EmptyList DEF Phases, Todo, Batch, Rest, Wave, ResultTasks, FailedResult, Range

LEMMA NoBatch ==
  ASSUME Phases, pc \notin {"seqTask", "dispatch", "inline", "join"}
  PROVE  Batch = {}
  BY EmptyList DEF Phases, Batch

LEMMA OneItem ==
  ASSUME NEW t \in Tasks
  PROVE  <<t>> \in Seq(Tasks) /\ Distinct(<<t>>) /\ Range(<<t>>) = {t} /\ Len(<<t>>) = 1
  BY DEF Distinct, Range

LEMMA OnlyItem ==
  ASSUME NEW s \in Seq(Tasks), Len(s) = 1
  PROVE  Head(s) \in Tasks /\ Range(s) = {Head(s)}
  BY DEF Range

\* A loop head that stops has a reason, unless the loop was over.
LEMMA LoopHead ==
  ASSUME Typed, Phases, NEW over \in BOOLEAN, over \/ Stopped,
         timedOut' = IF over THEN timedOut ELSE TimedOutAtHead
  PROVE  /\ timedOut' \in BOOLEAN /\ (timedOut => timedOut') /\ (timedOut' => expired)
         /\ ~over => cancelled \/ timedOut'
  BY DEF Typed, Phases, Stopped, TimedOutAtHead

\* A worker at work is one of the batch, and its task has not been reported.
LEMMA AtWork ==
  ASSUME Typed, Lists, Reports, Phases, Where, NEW t \in Tasks, job[t] \in Alive
  PROVE  /\ t \in Batch /\ t \notin ResultTasks /\ res[t] = "none"
         /\ pc \in {"seqTask", "dispatch", "inline", "join"}
  <1>1. job[t] # "none" /\ job[t] # "done" /\ pc # "over"
    BY DEF Where, Alive
  <1>2. t \in Batch /\ t \notin ResultTasks /\ res[t] = "none"
    BY <1>1 DEF Where
  <1> QED BY <1>2, NoBatch

LEMMA DepsTyped ==
  ASSUME Typed, NEW t \in Tasks, NEW d \in deps[t]
  PROVE  d \in Tasks \/ d = Ghost
  <1>1. deps \in [Tasks -> SUBSET (Tasks \cup {Ghost})]
    BY GraphsAssumption DEF Typed, NoDeps, Tasks
  <1> QED BY <1>1

\* With no ready task in front, each of the rest misses a dependency.
LEMMA NoneReady ==
  ASSUME Typed, Lists, Reports, Where, Waves, pc = "dagHead", kind = "dag", Wave = {}, ReadyPart(remaining) = <<>>, NEW t \in Rest
  PROVE  \E d \in deps[t] : d \notin completed /\ (d = Ghost \/ res[d] # "completed")
  <1> DEFINE Ready == {u \in Tasks : deps[u] \subseteq completed}
  <1>1. ReadyPart(remaining) = Pushed(remaining, Ready)
    BY DEF ReadyPart, DepsReady
  <1>2. t \in Tasks
    BY Within
  <1>3. t \in Ready => t \in Range(<<>>)
    <2> HIDE DEF Ready
    <2> QED BY <1>1, Parts DEF Lists, Rest
  <1>4. t \notin Ready
    BY <1>3, EmptyList
  <1>5. PICK d \in deps[t] : d \notin completed
    BY <1>2, <1>4
  <1>6. d \in Tasks \/ d = Ghost
    BY <1>2, DepsTyped
  <1> QED BY <1>5, <1>6 DEF Waves

-----------------------------------------------------------------------------
(* The steps.                                                              *)

LEMMA CancelStep ==
  ASSUME RunInv, Cancel
  PROVE  RunInv'
  <1>0. /\ Typed /\ Lists /\ Reports /\ Phases /\ Counts /\ Where /\ Waves /\ Left /\ Over /\ Stream
    BY DEF RunInv
  <1>1. /\ pc # "over"
        /\ cancelled' = TRUE
        /\ UNCHANGED <<kind, deps, pc, todo, batch, spawned, remaining, wave, completed, anyFailed, job, res, tstat, results, expired, timedOut, watched, wants, events, audited, gauge, counted, outcome>>
    BY DEF Cancel, specVars, dagVars, jobVars, envVars, endVars
  <1>t. Todo \subseteq Tasks /\ Batch \subseteq Tasks /\ Rest \subseteq Tasks /\ Wave \subseteq Tasks /\ ResultTasks \subseteq Tasks
    BY <1>0, Within
  <1>2. Todo' = Todo /\ Batch' = Batch /\ Rest' = Rest /\ Wave' = Wave /\ ResultTasks' = ResultTasks /\ (FailedResult' <=> FailedResult) /\ BatchLimit' = BatchLimit
    BY <1>1 DEF Todo, Batch, Rest, Wave, BatchLimit, ResultTasks, FailedResult
  <1>3. Ordered' /\ \A type, u : Told(type, u)' <=> Told(type, u)
    BY <1>0, <1>1 DEF Stream, Ordered, Told, Sent, Before
  <1>10. Typed'
    BY <1>0, <1>1, <1>2 DEF Typed, Places
  <1>11. Lists'
    BY <1>0, <1>1, <1>2 DEF Lists
  <1>12. Reports'
    BY <1>0, <1>1, <1>2 DEF Reports
  <1>13. Phases'
    BY <1>0, <1>1, <1>2 DEF Phases
  <1>14. Counts'
    BY <1>0, <1>1, <1>2 DEF Counts
  <1>15. Where'
    BY <1>0, <1>1, <1>2, <1>t DEF Where, Dropped
  <1>16. Waves'
    BY <1>0, <1>1, <1>2, <1>t DEF Waves
  <1>17. Left'
    BY <1>0, <1>1, <1>2, <1>t DEF Left, Stranded
  <1>18. Over'
    BY <1>0, <1>1, <1>2 DEF Over
  <1>19. Stream'
    BY <1>0, <1>1, <1>2, <1>t, <1>3 DEF Stream
  <1> QED BY <1>10, <1>11, <1>12, <1>13, <1>14, <1>15, <1>16, <1>17, <1>18, <1>19 DEF RunInv


LEMMA ExpireStep ==
  ASSUME RunInv, Expire
  PROVE  RunInv'
  <1>0. /\ Typed /\ Lists /\ Reports /\ Phases /\ Counts /\ Where /\ Waves /\ Left /\ Over /\ Stream
    BY DEF RunInv
  <1>1. /\ pc # "over"
        /\ expired' = TRUE
        /\ UNCHANGED <<kind, deps, pc, todo, batch, spawned, remaining, wave, completed, anyFailed, job, res, tstat, results, cancelled, timedOut, watched, wants, events, audited, gauge, counted, outcome>>
    BY DEF Expire, specVars, dagVars, jobVars, envVars, endVars
  <1>t. Todo \subseteq Tasks /\ Batch \subseteq Tasks /\ Rest \subseteq Tasks /\ Wave \subseteq Tasks /\ ResultTasks \subseteq Tasks
    BY <1>0, Within
  <1>2. Todo' = Todo /\ Batch' = Batch /\ Rest' = Rest /\ Wave' = Wave /\ ResultTasks' = ResultTasks /\ (FailedResult' <=> FailedResult) /\ BatchLimit' = BatchLimit
    BY <1>1 DEF Todo, Batch, Rest, Wave, BatchLimit, ResultTasks, FailedResult
  <1>3. Ordered' /\ \A type, u : Told(type, u)' <=> Told(type, u)
    BY <1>0, <1>1 DEF Stream, Ordered, Told, Sent, Before
  <1>10. Typed'
    BY <1>0, <1>1, <1>2 DEF Typed, Places
  <1>11. Lists'
    BY <1>0, <1>1, <1>2 DEF Lists
  <1>12. Reports'
    BY <1>0, <1>1, <1>2 DEF Reports
  <1>13. Phases'
    BY <1>0, <1>1, <1>2 DEF Phases
  <1>14. Counts'
    BY <1>0, <1>1, <1>2 DEF Counts
  <1>15. Where'
    BY <1>0, <1>1, <1>2, <1>t DEF Where, Dropped
  <1>16. Waves'
    BY <1>0, <1>1, <1>2, <1>t DEF Waves
  <1>17. Left'
    BY <1>0, <1>1, <1>2, <1>t DEF Left, Stranded
  <1>18. Over'
    BY <1>0, <1>1, <1>2 DEF Over
  <1>19. Stream'
    BY <1>0, <1>1, <1>2, <1>t, <1>3 DEF Stream
  <1> QED BY <1>10, <1>11, <1>12, <1>13, <1>14, <1>15, <1>16, <1>17, <1>18, <1>19 DEF RunInv


LEMMA WatchStep ==
  ASSUME RunInv, Watch
  PROVE  RunInv'
  <1>0. /\ Typed /\ Lists /\ Reports /\ Phases /\ Counts /\ Where /\ Waves /\ Left /\ Over /\ Stream
    BY DEF RunInv
  <1>1. /\ pc # "over"
        /\ watched' = ~watched
        /\ UNCHANGED <<kind, deps, pc, todo, batch, spawned, remaining, wave, completed, anyFailed, job, res, tstat, results, cancelled, expired, timedOut, wants, events, audited, gauge, counted, outcome>>
    BY DEF Watch, specVars, dagVars, jobVars, envVars, endVars
  <1>t. Todo \subseteq Tasks /\ Batch \subseteq Tasks /\ Rest \subseteq Tasks /\ Wave \subseteq Tasks /\ ResultTasks \subseteq Tasks
    BY <1>0, Within
  <1>2. Todo' = Todo /\ Batch' = Batch /\ Rest' = Rest /\ Wave' = Wave /\ ResultTasks' = ResultTasks /\ (FailedResult' <=> FailedResult) /\ BatchLimit' = BatchLimit
    BY <1>1 DEF Todo, Batch, Rest, Wave, BatchLimit, ResultTasks, FailedResult
  <1>3. Ordered' /\ \A type, u : Told(type, u)' <=> Told(type, u)
    BY <1>0, <1>1 DEF Stream, Ordered, Told, Sent, Before
  <1>10. Typed'
    BY <1>0, <1>1, <1>2 DEF Typed, Places
  <1>11. Lists'
    BY <1>0, <1>1, <1>2 DEF Lists
  <1>12. Reports'
    BY <1>0, <1>1, <1>2 DEF Reports
  <1>13. Phases'
    BY <1>0, <1>1, <1>2 DEF Phases
  <1>14. Counts'
    BY <1>0, <1>1, <1>2 DEF Counts
  <1>15. Where'
    BY <1>0, <1>1, <1>2, <1>t DEF Where, Dropped
  <1>16. Waves'
    BY <1>0, <1>1, <1>2, <1>t DEF Waves
  <1>17. Left'
    BY <1>0, <1>1, <1>2, <1>t DEF Left, Stranded
  <1>18. Over'
    BY <1>0, <1>1, <1>2 DEF Over
  <1>19. Stream'
    BY <1>0, <1>1, <1>2, <1>t, <1>3 DEF Stream
  <1> QED BY <1>10, <1>11, <1>12, <1>13, <1>14, <1>15, <1>16, <1>17, <1>18, <1>19 DEF RunInv


LEMMA BeginStep ==
  ASSUME RunInv, Begin
  PROVE  RunInv'
  <1>0. /\ Typed /\ Lists /\ Reports /\ Phases /\ Counts /\ Where /\ Waves /\ Left /\ Over /\ Stream
    BY DEF RunInv
  <1>1. /\ pc = "begin"
        /\ pc' = "mode"
        /\ events' = Emit(watched, Ev("crew_started", Ghost))
        /\ gauge' = gauge + 1
        /\ UNCHANGED <<kind, deps, todo, batch, spawned, remaining, wave, completed, anyFailed, job, res, tstat, results, cancelled, expired, timedOut, watched, wants, audited, counted, outcome>>
    BY DEF Begin, specVars, dagVars, jobVars, envVars, endVars
  <1>t. Todo \subseteq Tasks /\ Batch \subseteq Tasks /\ Rest \subseteq Tasks /\ Wave \subseteq Tasks /\ ResultTasks \subseteq Tasks
    BY <1>0, Within
  <1>2. Todo' = Todo /\ Batch' = Batch /\ Rest' = Rest /\ Wave' = Wave /\ ResultTasks' = ResultTasks /\ (FailedResult' <=> FailedResult) /\ BatchLimit' = BatchLimit
    BY <1>1 DEF Todo, Batch, Rest, Wave, BatchLimit, ResultTasks, FailedResult
  <1>3. Ordered' /\ \A type, t : t \in Tasks => (Told(type, t)' <=> Told(type, t))
    <2> DEFINE e == Ev("crew_started", Ghost)
    <2>1. e \in EventSet /\ e.type = "crew_started" /\ e.task = Ghost
      BY DEF Ev, EventSet
    <2>2. Ordered
      BY <1>0 DEF Stream
    <2> HIDE DEF e
    <2>3. Ordered' /\ \A type, t : Told(type, t)' <=> Told(type, t) \/ (watched /\ e.type = type /\ e.task = t)
      BY <1>1, <2>1, <2>2, TellOne DEF e
    <2> QED BY <2>1, <2>3, GhostAssumption DEF Tasks
  <1>10. Typed'
    BY <1>0, <1>1, <1>2 DEF Typed, Places
  <1>11. Lists'
    BY <1>0, <1>1, <1>2 DEF Lists
  <1>12. Reports'
    BY <1>0, <1>1, <1>2 DEF Reports
  <1>13. Phases'
    BY <1>0, <1>1, <1>2 DEF Phases
  <1>14. Counts'
    BY <1>0, <1>1, <1>2 DEF Counts
  <1>15. Where'
    BY <1>0, <1>1, <1>2, <1>t DEF Where, Dropped
  <1>16. Waves'
    BY <1>0, <1>1, <1>2, <1>t DEF Waves
  <1>17. Left'
    BY <1>0, <1>1, <1>2, <1>t DEF Left, Stranded
  <1>18. Over'
    BY <1>0, <1>1, <1>2 DEF Over
  <1>19. Stream'
    BY <1>0, <1>1, <1>2, <1>t, <1>3 DEF Stream
  <1> QED BY <1>10, <1>11, <1>12, <1>13, <1>14, <1>15, <1>16, <1>17, <1>18, <1>19 DEF RunInv


LEMMA RunSequentialStep ==
  ASSUME RunInv, RunSequential
  PROVE  RunInv'
  <1>0. /\ Typed /\ Lists /\ Reports /\ Phases /\ Counts /\ Where /\ Waves /\ Left /\ Over /\ Stream
    BY DEF RunInv
  <1>1. /\ pc = "mode"
        /\ kind \in Seqs
        /\ pc' = "seqHead"
        /\ todo' = [i \in Tasks |-> i]
        /\ wants' = watched
        /\ UNCHANGED <<kind, deps, batch, spawned, remaining, wave, completed, anyFailed, job, res, tstat, results, cancelled, expired, timedOut, watched, events, audited, gauge, counted, outcome>>
    BY DEF RunSequential, Seqs, specVars, dagVars, jobVars, envVars, endVars
  <1>t. Todo \subseteq Tasks /\ Batch \subseteq Tasks /\ Rest \subseteq Tasks /\ Wave \subseteq Tasks /\ ResultTasks \subseteq Tasks
    BY <1>0, Within
  <1>4. todo' \in Seq(Tasks) /\ Distinct(todo') /\ Range(todo') = Tasks
    BY <1>1, AllTasks
  <1>5. Todo = {} /\ Batch = {} /\ Rest = {} /\ Wave = {} /\ ResultTasks = {} /\ ~FailedResult /\ (\A t \in Tasks : job[t] = "none")
    BY <1>0, <1>1, AtFirst DEF Phases
  <1>2. Todo' = Tasks /\ Batch' = Batch /\ Rest' = Rest /\ Wave' = Wave /\ ResultTasks' = ResultTasks /\ (FailedResult' <=> FailedResult) /\ BatchLimit' = BatchLimit
    BY <1>1, <1>4 DEF Todo, Batch, Rest, Wave, BatchLimit, ResultTasks, FailedResult
  <1>3. Ordered' /\ \A type, u : Told(type, u)' <=> Told(type, u)
    BY <1>0, <1>1 DEF Stream, Ordered, Told, Sent, Before
  <1>10. Typed'
    BY <1>0, <1>1, <1>2 DEF Typed, Places
  <1>11. Lists'
    BY <1>0, <1>1, <1>2, <1>4 DEF Lists
  <1>12. Reports'
    BY <1>0, <1>1, <1>2 DEF Reports
  <1>13. Phases'
    BY <1>0, <1>1, <1>2 DEF Phases, Seqs
  <1>14. Counts'
    BY <1>0, <1>1, <1>2 DEF Counts
  <1>15. Where'
    BY <1>0, <1>1, <1>2, <1>t, <1>5 DEF Where, Dropped
  <1>16. Waves'
    BY <1>0, <1>1, <1>2, <1>t, <1>5 DEF Waves, Seqs
  <1>17. Left'
    BY <1>0, <1>1, <1>2, <1>t DEF Left, Stranded
  <1>18. Over'
    BY <1>0, <1>1, <1>2 DEF Over
  <1>19. Stream'
    BY <1>0, <1>1, <1>2, <1>t, <1>3, <1>5 DEF Stream
  <1> QED BY <1>10, <1>11, <1>12, <1>13, <1>14, <1>15, <1>16, <1>17, <1>18, <1>19 DEF RunInv


LEMMA RunParallelStep ==
  ASSUME RunInv, RunParallel
  PROVE  RunInv'
  <1>0. /\ Typed /\ Lists /\ Reports /\ Phases /\ Counts /\ Where /\ Waves /\ Left /\ Over /\ Stream
    BY DEF RunInv
  <1>1. /\ pc = "mode"
        /\ kind = "parallel"
        /\ pc' = "batchHead"
        /\ todo' = [i \in Tasks |-> i]
        /\ wants' = watched
        /\ tstat' = [t \in Tasks |-> IF t \in Range([i \in Tasks |-> i]) THEN "queued" ELSE tstat[t]]
        /\ UNCHANGED <<kind, deps, batch, spawned, remaining, wave, completed, anyFailed, job, res, results, cancelled, expired, timedOut, watched, events, audited, gauge, counted, outcome>>
    BY DEF RunParallel, StartWave, specVars, dagVars, jobVars, envVars, endVars
  <1>t. Todo \subseteq Tasks /\ Batch \subseteq Tasks /\ Rest \subseteq Tasks /\ Wave \subseteq Tasks /\ ResultTasks \subseteq Tasks
    BY <1>0, Within
  <1>4. todo' \in Seq(Tasks) /\ Distinct(todo') /\ Range(todo') = Tasks
    BY <1>1, AllTasks
  <1>5. Todo = {} /\ Batch = {} /\ Rest = {} /\ Wave = {} /\ ResultTasks = {} /\ ~FailedResult /\ (\A t \in Tasks : job[t] = "none")
    BY <1>0, <1>1, AtFirst DEF Phases
  <1>2. Todo' = Tasks /\ Batch' = Batch /\ Rest' = Rest /\ Wave' = Wave /\ ResultTasks' = ResultTasks /\ (FailedResult' <=> FailedResult) /\ BatchLimit' = BatchLimit
    BY <1>1, <1>4 DEF Todo, Batch, Rest, Wave, BatchLimit, ResultTasks, FailedResult
  <1>3. Ordered' /\ \A type, u : Told(type, u)' <=> Told(type, u)
    BY <1>0, <1>1 DEF Stream, Ordered, Told, Sent, Before
  <1>10. Typed'
    BY <1>0, <1>1, <1>2 DEF Typed, Places, Statuses
  <1>11. Lists'
    BY <1>0, <1>1, <1>2, <1>4 DEF Lists
  <1>12. Reports'
    BY <1>0, <1>1, <1>2 DEF Reports
  <1>13. Phases'
    BY <1>0, <1>1, <1>2 DEF Phases, Seqs
  <1>14. Counts'
    BY <1>0, <1>1, <1>2 DEF Counts
  <1>15. Where'
    BY <1>0, <1>1, <1>2, <1>t, <1>5 DEF Where, Dropped
  <1>16. Waves'
    BY <1>0, <1>1, <1>2, <1>t, <1>5 DEF Waves
  <1>17. Left'
    BY <1>0, <1>1, <1>2, <1>t DEF Left, Stranded
  <1>18. Over'
    BY <1>0, <1>1, <1>2 DEF Over
  <1>19. Stream'
    BY <1>0, <1>1, <1>2, <1>t, <1>3, <1>5 DEF Stream
  <1> QED BY <1>10, <1>11, <1>12, <1>13, <1>14, <1>15, <1>16, <1>17, <1>18, <1>19 DEF RunInv


LEMMA RunDagStep ==
  ASSUME RunInv, RunDag
  PROVE  RunInv'
  <1>0. /\ Typed /\ Lists /\ Reports /\ Phases /\ Counts /\ Where /\ Waves /\ Left /\ Over /\ Stream
    BY DEF RunInv
  <1>1. /\ pc = "mode"
        /\ kind = "dag"
        /\ pc' = "dagHead"
        /\ remaining' \in SortedOrders
        /\ UNCHANGED <<kind, deps, todo, batch, spawned, wave, completed, anyFailed, job, res, tstat, results, cancelled, expired, timedOut, watched, wants, events, audited, gauge, counted, outcome>>
    BY DEF RunDag, specVars, dagVars, jobVars, envVars, endVars
  <1>t. Todo \subseteq Tasks /\ Batch \subseteq Tasks /\ Rest \subseteq Tasks /\ Wave \subseteq Tasks /\ ResultTasks \subseteq Tasks
    BY <1>0, Within
  <1>4. /\ remaining' \in Seq(Tasks) /\ Distinct(remaining') /\ Range(remaining') = Tasks
        /\ \A i, j \in DOMAIN remaining' : remaining'[i] \in deps[remaining'[j]] => i < j
    <2>1. /\ remaining' \in [1..N -> Tasks] /\ \A i, j \in 1..N : i # j => remaining'[i] # remaining'[j]
          /\ \A i, j \in 1..N : remaining'[i] \in deps[remaining'[j]] => i < j
      BY <1>1 DEF SortedOrders, Tasks
    <2>2. Range(remaining') = Tasks
      BY <2>1, Fits, NAssumption
    <2>3. DOMAIN remaining' = 1..N /\ remaining' \in Seq(Tasks)
      BY <2>1, NAssumption
    <2> QED BY <2>1, <2>2, <2>3 DEF Distinct
  <1>5. Todo = {} /\ Batch = {} /\ Rest = {} /\ Wave = {} /\ ResultTasks = {} /\ ~FailedResult /\ (\A t \in Tasks : job[t] = "none")
    BY <1>0, <1>1, AtFirst DEF Phases
  <1>2. Todo' = Todo /\ Batch' = Batch /\ Rest' = Tasks /\ Wave' = Wave /\ ResultTasks' = ResultTasks /\ (FailedResult' <=> FailedResult) /\ BatchLimit' = BatchLimit
    BY <1>1, <1>4 DEF Todo, Batch, Rest, Wave, BatchLimit, ResultTasks, FailedResult
  <1>3. Ordered' /\ \A type, u : Told(type, u)' <=> Told(type, u)
    BY <1>0, <1>1 DEF Stream, Ordered, Told, Sent, Before
  <1>10. Typed'
    BY <1>0, <1>1, <1>2 DEF Typed, Places
  <1>11. Lists'
    BY <1>0, <1>1, <1>2, <1>4 DEF Lists
  <1>12. Reports'
    BY <1>0, <1>1, <1>2 DEF Reports
  <1>13. Phases'
    BY <1>0, <1>1, <1>2 DEF Phases, Seqs
  <1>14. Counts'
    BY <1>0, <1>1, <1>2 DEF Counts
  <1>15. Where'
    BY <1>0, <1>1, <1>2, <1>t, <1>5 DEF Where, Dropped
  <1>16. Waves'
    BY <1>0, <1>1, <1>2, <1>t, <1>5 DEF Waves
  <1>17. Left'
    BY <1>0, <1>1, <1>2, <1>t DEF Left, Stranded
  <1>18. Over'
    BY <1>0, <1>1, <1>2 DEF Over
  <1>19. Stream'
    BY <1>0, <1>1, <1>2, <1>t, <1>3 DEF Stream
  <1> QED BY <1>10, <1>11, <1>12, <1>13, <1>14, <1>15, <1>16, <1>17, <1>18, <1>19 DEF RunInv


LEMMA RefuseCycleStep ==
  ASSUME RunInv, RefuseCycle
  PROVE  RunInv'
  <1>0. /\ Typed /\ Lists /\ Reports /\ Phases /\ Counts /\ Where /\ Waves /\ Left /\ Over /\ Stream
    BY DEF RunInv
  <1>1. /\ pc = "mode"
        /\ kind = "dag"
        /\ SortedOrders = {}
        /\ pc' = "over"
        /\ outcome' = "error"
        /\ gauge' = gauge - 1
        /\ UNCHANGED <<kind, deps, todo, batch, spawned, remaining, wave, completed, anyFailed, job, res, tstat, results, cancelled, expired, timedOut, watched, wants, events, audited, counted>>
    BY DEF RefuseCycle, ErrorOut, specVars, dagVars, jobVars, envVars, endVars
  <1>t. Todo \subseteq Tasks /\ Batch \subseteq Tasks /\ Rest \subseteq Tasks /\ Wave \subseteq Tasks /\ ResultTasks \subseteq Tasks
    BY <1>0, Within
  <1>5. Todo = {} /\ Batch = {} /\ Rest = {} /\ Wave = {} /\ ResultTasks = {} /\ ~FailedResult /\ (\A t \in Tasks : job[t] = "none")
    BY <1>0, <1>1, AtFirst DEF Phases
  <1>2. Todo' = Todo /\ Batch' = Batch /\ Rest' = Rest /\ Wave' = Wave /\ ResultTasks' = ResultTasks /\ (FailedResult' <=> FailedResult) /\ BatchLimit' = BatchLimit
    BY <1>1 DEF Todo, Batch, Rest, Wave, BatchLimit, ResultTasks, FailedResult
  <1>3. Ordered' /\ \A type, u : Told(type, u)' <=> Told(type, u)
    BY <1>0, <1>1 DEF Stream, Ordered, Told, Sent, Before
  <1>10. Typed'
    BY <1>0, <1>1, <1>2 DEF Typed, Places
  <1>11. Lists'
    BY <1>0, <1>1, <1>2 DEF Lists
  <1>12. Reports'
    BY <1>0, <1>1, <1>2 DEF Reports
  <1>13. Phases'
    BY <1>0, <1>1, <1>2 DEF Phases
  <1>14. Counts'
    BY <1>0, <1>1, <1>2 DEF Counts
  <1>15. Where'
    BY <1>0, <1>1, <1>2, <1>t, <1>5 DEF Where, Dropped
  <1>16. Waves'
    BY <1>0, <1>1, <1>2, <1>t, <1>5 DEF Waves
  <1>17. Left'
    BY <1>0, <1>1, <1>2, <1>t DEF Left, Stranded
  <1>18. Over'
    BY <1>0, <1>1, <1>2 DEF Over, CompletedMeansAll, FailureHasCause, ShortRunExplained, TimeoutOutranks, ErrorMeansBadSpec, RanIsCounted, Phases, SortedOrders
  <1>19. Stream'
    BY <1>0, <1>1, <1>2, <1>t, <1>3 DEF Stream
  <1> QED BY <1>10, <1>11, <1>12, <1>13, <1>14, <1>15, <1>16, <1>17, <1>18, <1>19 DEF RunInv


LEMMA SeqStopStep ==
  ASSUME RunInv, SeqHead, todo = <<>> \/ Stopped
  PROVE  RunInv'
  <1>0. /\ Typed /\ Lists /\ Reports /\ Phases /\ Counts /\ Where /\ Waves /\ Left /\ Over /\ Stream
    BY DEF RunInv
  <1>1. /\ pc = "seqHead"
        /\ pc' = "end"
        /\ timedOut' = IF todo = <<>> THEN timedOut ELSE TimedOutAtHead
        /\ todo = <<>> \/ Stopped
        /\ UNCHANGED <<kind, deps, todo, batch, spawned, remaining, wave, completed, anyFailed, job, res, tstat, results, cancelled, expired, watched, wants, events, audited, gauge, counted, outcome>>
    BY DEF SeqHead, specVars, dagVars, jobVars, envVars, endVars
  <1>t. Todo \subseteq Tasks /\ Batch \subseteq Tasks /\ Rest \subseteq Tasks /\ Wave \subseteq Tasks /\ ResultTasks \subseteq Tasks
    BY <1>0, Within
  <1>4. /\ timedOut' \in BOOLEAN /\ (timedOut => timedOut') /\ (timedOut' => expired)
        /\ todo # <<>> => cancelled \/ timedOut'
    BY <1>0, <1>1, LoopHead
  <1>5. kind # "dag" /\ remaining = <<>> /\ Rest = {}
    BY <1>0, <1>1, EmptyList DEF Phases, Seqs, Rest
  <1>2. Todo' = Todo /\ Batch' = Batch /\ Rest' = Rest /\ Wave' = Wave /\ ResultTasks' = ResultTasks /\ (FailedResult' <=> FailedResult) /\ BatchLimit' = BatchLimit
    BY <1>1 DEF Todo, Batch, Rest, Wave, BatchLimit, ResultTasks, FailedResult
  <1>3. Ordered' /\ \A type, u : Told(type, u)' <=> Told(type, u)
    BY <1>0, <1>1 DEF Stream, Ordered, Told, Sent, Before
  <1>10. Typed'
    BY <1>0, <1>1, <1>2, <1>4 DEF Typed, Places
  <1>11. Lists'
    BY <1>0, <1>1, <1>2 DEF Lists
  <1>12. Reports'
    BY <1>0, <1>1, <1>2 DEF Reports
  <1>13. Phases'
    BY <1>0, <1>1, <1>2, <1>4, <1>5 DEF Phases
  <1>14. Counts'
    BY <1>0, <1>1, <1>2 DEF Counts
  <1>15. Where'
    BY <1>0, <1>1, <1>2, <1>t, <1>4, <1>5 DEF Where, Dropped
  <1>16. Waves'
    BY <1>0, <1>1, <1>2, <1>t, <1>4, <1>5 DEF Waves
  <1>17. Left'
    BY <1>0, <1>1, <1>2, <1>t, <1>4, <1>5 DEF Left, Stranded
  <1>18. Over'
    BY <1>0, <1>1, <1>2 DEF Over
  <1>19. Stream'
    BY <1>0, <1>1, <1>2, <1>t, <1>3 DEF Stream
  <1> QED BY <1>10, <1>11, <1>12, <1>13, <1>14, <1>15, <1>16, <1>17, <1>18, <1>19 DEF RunInv


LEMMA SeqTakeStep ==
  ASSUME RunInv, SeqHead, ~(todo = <<>> \/ Stopped)
  PROVE  RunInv'
  <1>0. /\ Typed /\ Lists /\ Reports /\ Phases /\ Counts /\ Where /\ Waves /\ Left /\ Over /\ Stream
    BY DEF RunInv
  <1>1. /\ pc = "seqHead"
        /\ pc' = "seqTask"
        /\ todo # <<>>
        /\ batch' = <<Head(todo)>>
        /\ todo' = Tail(todo)
        /\ tstat' = [tstat EXCEPT ![Head(todo)] = "running"]
        /\ events' = Emit(wants, Ev("task_started", Head(todo)))
        /\ job' = [job EXCEPT ![Head(todo)] = "working"]
        /\ UNCHANGED <<kind, deps, spawned, remaining, wave, completed, anyFailed, res, results, cancelled, expired, timedOut, watched, wants, audited, gauge, counted, outcome>>
    BY DEF SeqHead, Notes, specVars, dagVars, jobVars, envVars, endVars
  <1>t. Todo \subseteq Tasks /\ Batch \subseteq Tasks /\ Rest \subseteq Tasks /\ Wave \subseteq Tasks /\ ResultTasks \subseteq Tasks
    BY <1>0, Within
  <1>4. /\ Head(todo) \in Tasks /\ Head(todo) \in Todo /\ todo' \in Seq(Tasks) /\ Distinct(todo')
        /\ Range(todo') = Todo \ {Head(todo)} /\ job[Head(todo)] = "none" /\ res[Head(todo)] = "none"
        /\ kind \in Seqs /\ kind # "dag" /\ wants \in BOOLEAN
    <2>1. /\ Head(todo) \in Tasks /\ Head(todo) \in Todo /\ todo' \in Seq(Tasks) /\ Distinct(todo')
          /\ Range(todo') = Todo \ {Head(todo)}
      BY <1>0, <1>1, TakeOne DEF Lists, Todo
    <2> QED BY <1>0, <1>1, <2>1 DEF Where, Phases, Seqs, Typed
  <1>5. batch' \in Seq(Tasks) /\ Distinct(batch') /\ Range(batch') = {Head(todo)} /\ Len(batch') = 1
    BY <1>1, <1>4, OneItem
  <1>6. Batch = {} /\ (\A t \in Tasks : job'[t] = IF t = Head(todo) THEN "working" ELSE job[t])
    BY <1>0, <1>1, NoBatch DEF Typed
  <1>2. Todo' = Todo \ {Head(todo)} /\ Batch' = {Head(todo)} /\ Rest' = Rest /\ Wave' = Wave /\ ResultTasks' = ResultTasks /\ (FailedResult' <=> FailedResult) /\ BatchLimit' = BatchLimit
    BY <1>1, <1>4, <1>5 DEF Todo, Batch, Rest, Wave, BatchLimit, ResultTasks, FailedResult
  <1>3. Ordered' /\ \A type, u : Told(type, u)' <=> Told(type, u) \/ (wants /\ type = "task_started" /\ u = Head(todo))
    <2> DEFINE e == Ev("task_started", Head(todo))
    <2>1. e \in EventSet /\ e.type = "task_started" /\ e.task = Head(todo)
      BY <1>4 DEF Ev, EventSet, TaskEvents
    <2>2. Ordered
      BY <1>0 DEF Stream
    <2> HIDE DEF e
    <2>3. events' = Emit(wants, e)
      BY <1>1, <1>4 DEF e
    <2>4. wants => TRUE
      BY <1>0, <1>4 DEF Stream
    <2>5. Ordered' /\ \A type, u : Told(type, u)' <=> Told(type, u) \/ (wants /\ e.type = type /\ e.task = u)
      BY <2>1, <2>2, <2>3, <2>4, TellOne
    <2> QED BY <2>1, <2>5
  <1>10. Typed'
    BY <1>0, <1>1, <1>2, <1>4 DEF Typed, Places, JobStates, Statuses
  <1>11. Lists'
    BY <1>0, <1>1, <1>2, <1>4, <1>5 DEF Lists
  <1>12. Reports'
    BY <1>0, <1>1, <1>2 DEF Reports
  <1>13. Phases'
    BY <1>0, <1>1, <1>2, <1>4, <1>5 DEF Phases
  <1>14. Counts'
    BY <1>0, <1>1, <1>2 DEF Counts
  <1>15. Where'
    BY <1>0, <1>1, <1>2, <1>t, <1>4, <1>6 DEF Where, Dropped
  <1>16. Waves'
    BY <1>0, <1>1, <1>2, <1>t, <1>4, <1>6 DEF Waves
  <1>17. Left'
    BY <1>0, <1>1, <1>2, <1>t DEF Left, Stranded
  <1>18. Over'
    BY <1>0, <1>1, <1>2 DEF Over
  <1>19. Stream'
    BY <1>0, <1>1, <1>2, <1>t, <1>3, <1>4, <1>6 DEF Stream
  <1> QED BY <1>10, <1>11, <1>12, <1>13, <1>14, <1>15, <1>16, <1>17, <1>18, <1>19 DEF RunInv


LEMMA SeqReportStep ==
  ASSUME RunInv, SeqReport
  PROVE  RunInv'
  <1>0. /\ Typed /\ Lists /\ Reports /\ Phases /\ Counts /\ Where /\ Waves /\ Left /\ Over /\ Stream
    BY DEF RunInv
  <1>1. /\ pc = "seqTask"
        /\ pc' = "seqHead"
        /\ job[Head(batch)] = "done"
        /\ tstat' = [tstat EXCEPT ![Head(batch)] = res[Head(batch)]]
        /\ results' = Append(results, [task |-> Head(batch), status |-> res[Head(batch)]])
        /\ events' = Emit(wants, Ev("task_completed", Head(batch)))
        /\ audited' = Append(audited, Head(batch))
        /\ batch' = <<>>
        /\ UNCHANGED <<kind, deps, todo, spawned, remaining, wave, completed, anyFailed, job, res, cancelled, expired, timedOut, watched, wants, gauge, counted, outcome>>
    BY DEF SeqReport, Notes, specVars, dagVars, jobVars, envVars, endVars
  <1>t. Todo \subseteq Tasks /\ Batch \subseteq Tasks /\ Rest \subseteq Tasks /\ Wave \subseteq Tasks /\ ResultTasks \subseteq Tasks
    BY <1>0, Within
  <1>4. /\ Head(batch) \in Tasks /\ Batch = {Head(batch)} /\ Head(batch) \in Batch /\ Head(batch) \notin ResultTasks
        /\ res[Head(batch)] \in {"completed", "failed"} /\ kind \in Seqs /\ kind # "dag" /\ wants \in BOOLEAN
    <2>1. Head(batch) \in Tasks /\ Batch = {Head(batch)}
      BY <1>0, <1>1, OnlyItem DEF Lists, Phases, Batch
    <2> QED BY <1>0, <1>1, <2>1 DEF Where, Phases, Seqs, Typed
  <1> DEFINE t == Head(batch)  st == res[t]
  <1>5. /\ results' \in Seq(Results) /\ \A i, j \in DOMAIN results' : i # j => results'[i].task # results'[j].task
        /\ ResultTasks' = ResultTasks \cup {t}
        /\ \A i \in DOMAIN results : i \in DOMAIN results' /\ results'[i] = results[i]
        /\ \A i \in DOMAIN results' : \/ i \in DOMAIN results /\ results'[i] = results[i]
                                      \/ results'[i].task = t /\ results'[i].status = st
    <2>1. results \in Seq(Results) /\ \A i, j \in DOMAIN results : i # j => results[i].task # results[j].task
      BY <1>0 DEF Reports
    <2>2. results' = Append(results, [task |-> t, status |-> st])
      BY <1>1, <1>4
    <2> DEFINE x == [task |-> t, status |-> st]
    <2>3. x \in Results /\ x.task = t /\ x.status = st /\ x.task \notin ResultTasks
      BY <1>4 DEF Results
    <2>4. results' = Append(results, x)
      BY <2>2
    <2> HIDE DEF x, t, st
    <2> QED BY <2>1, <2>3, <2>4, ReportOne
  <1>6. FailedResult => FailedResult'
    BY <1>5 DEF FailedResult
  <1>7. audited' \in Seq(Tasks)
    BY <1>0, <1>1, <1>4, AddOne DEF Lists
  <1>2. Todo' = Todo /\ Batch' = {} /\ Rest' = Rest /\ Wave' = Wave /\ BatchLimit' = BatchLimit
    BY <1>1, EmptyList DEF Todo, Batch, Rest, Wave, BatchLimit
  <1>3. Ordered' /\ \A type, u : Told(type, u)' <=> Told(type, u) \/ (wants /\ type = "task_completed" /\ u = Head(batch))
    <2> DEFINE e == Ev("task_completed", Head(batch))
    <2>1. e \in EventSet /\ e.type = "task_completed" /\ e.task = Head(batch)
      BY <1>4 DEF Ev, EventSet, TaskEvents
    <2>2. Ordered
      BY <1>0 DEF Stream
    <2> HIDE DEF e
    <2>3. events' = Emit(wants, e)
      BY <1>1, <1>4 DEF e
    <2>4. wants => Told("task_started", Head(batch))
      BY <1>0, <1>4 DEF Stream
    <2>5. Ordered' /\ \A type, u : Told(type, u)' <=> Told(type, u) \/ (wants /\ e.type = type /\ e.task = u)
      BY <2>1, <2>2, <2>3, <2>4, TellOne
    <2> QED BY <2>1, <2>5
  <1>10. Typed'
    BY <1>0, <1>1, <1>2, <1>4 DEF Typed, Places, Statuses
  <1>11. Lists'
    BY <1>0, <1>1, <1>2, <1>7, EmptyList DEF Lists
  <1>12. Reports'
    BY <1>0, <1>1, <1>2, <1>5 DEF Reports
  <1>13. Phases'
    BY <1>0, <1>1, <1>2, <1>4 DEF Phases
  <1>14. Counts'
    BY <1>0, <1>1, <1>2 DEF Counts
  <1>15. Where'
    BY <1>0, <1>1, <1>2, <1>t, <1>4, <1>5 DEF Where, Dropped
  <1>16. Waves'
    BY <1>0, <1>1, <1>2, <1>t, <1>4, <1>5, <1>6 DEF Waves
  <1>17. Left'
    BY <1>0, <1>1, <1>2, <1>t, <1>6 DEF Left, Stranded
  <1>18. Over'
    BY <1>0, <1>1, <1>2 DEF Over
  <1>19. Stream'
    BY <1>0, <1>1, <1>2, <1>t, <1>3, <1>4 DEF Stream
  <1> QED BY <1>10, <1>11, <1>12, <1>13, <1>14, <1>15, <1>16, <1>17, <1>18, <1>19 DEF RunInv


LEMMA WaveStopStep ==
  ASSUME RunInv, BatchHead, todo = <<>> \/ Stopped
  PROVE  RunInv'
  <1>0. /\ Typed /\ Lists /\ Reports /\ Phases /\ Counts /\ Where /\ Waves /\ Left /\ Over /\ Stream
    BY DEF RunInv
  <1>1. /\ pc = "batchHead"
        /\ pc' = (IF kind = "dag" THEN "waveOver" ELSE "end")
        /\ spawned' = 0
        /\ timedOut' = IF todo = <<>> THEN timedOut ELSE TimedOutAtHead
        /\ todo = <<>> \/ Stopped
        /\ UNCHANGED <<kind, deps, todo, batch, remaining, wave, completed, anyFailed, job, res, tstat, results, cancelled, expired, watched, wants, events, audited, gauge, counted, outcome>>
    BY DEF BatchHead, specVars, dagVars, jobVars, envVars, endVars
  <1>t. Todo \subseteq Tasks /\ Batch \subseteq Tasks /\ Rest \subseteq Tasks /\ Wave \subseteq Tasks /\ ResultTasks \subseteq Tasks
    BY <1>0, Within
  <1>4. /\ timedOut' \in BOOLEAN /\ (timedOut => timedOut') /\ (timedOut' => expired)
        /\ todo # <<>> => cancelled \/ timedOut'
    BY <1>0, <1>1, LoopHead
  <1>5. kind # "dag" => remaining = <<>> /\ Rest = {}
    BY <1>0, <1>1, EmptyList DEF Phases, Rest
  <1>2. Todo' = Todo /\ Batch' = Batch /\ Rest' = Rest /\ Wave' = Wave /\ ResultTasks' = ResultTasks /\ (FailedResult' <=> FailedResult) /\ BatchLimit' = BatchLimit
    BY <1>1 DEF Todo, Batch, Rest, Wave, BatchLimit, ResultTasks, FailedResult
  <1>3. Ordered' /\ \A type, u : Told(type, u)' <=> Told(type, u)
    BY <1>0, <1>1 DEF Stream, Ordered, Told, Sent, Before
  <1>10. Typed'
    BY <1>0, <1>1, <1>2, <1>4, NAssumption DEF Typed, Places
  <1>11. Lists'
    BY <1>0, <1>1, <1>2 DEF Lists
  <1>12. Reports'
    BY <1>0, <1>1, <1>2 DEF Reports
  <1>13. Phases'
    BY <1>0, <1>1, <1>2, <1>4, <1>5 DEF Phases
  <1>14. Counts'
    BY <1>0, <1>1, <1>2 DEF Counts
  <1>15. Where'
    BY <1>0, <1>1, <1>2, <1>t, <1>4, <1>5 DEF Where, Dropped
  <1>16. Waves'
    BY <1>0, <1>1, <1>2, <1>t, <1>4, <1>5 DEF Waves
  <1>17. Left'
    BY <1>0, <1>1, <1>2, <1>t, <1>4, <1>5 DEF Left, Stranded
  <1>18. Over'
    BY <1>0, <1>1, <1>2 DEF Over
  <1>19. Stream'
    BY <1>0, <1>1, <1>2, <1>t, <1>3 DEF Stream
  <1> QED BY <1>10, <1>11, <1>12, <1>13, <1>14, <1>15, <1>16, <1>17, <1>18, <1>19 DEF RunInv


LEMMA BatchOpenStep ==
  ASSUME RunInv, BatchHead, ~(todo = <<>> \/ Stopped)
  PROVE  RunInv'
  <1>0. /\ Typed /\ Lists /\ Reports /\ Phases /\ Counts /\ Where /\ Waves /\ Left /\ Over /\ Stream
    BY DEF RunInv
  <1>1. /\ pc = "batchHead"
        /\ pc' = "dispatch"
        /\ spawned' = 0
        /\ UNCHANGED <<kind, deps, todo, batch, remaining, wave, completed, anyFailed, job, res, tstat, results, cancelled, expired, timedOut, watched, wants, events, audited, gauge, counted, outcome>>
    BY DEF BatchHead, specVars, dagVars, jobVars, envVars, endVars
  <1>t. Todo \subseteq Tasks /\ Batch \subseteq Tasks /\ Rest \subseteq Tasks /\ Wave \subseteq Tasks /\ ResultTasks \subseteq Tasks
    BY <1>0, Within
  <1>4. BatchLimit \in Nat /\ batch = <<>> /\ Len(batch) = 0
    BY <1>0, <1>1, NAssumption, EmptyList DEF BatchLimit, Phases
  <1>2. Todo' = Todo /\ Batch' = Batch /\ Rest' = Rest /\ Wave' = Wave /\ ResultTasks' = ResultTasks /\ (FailedResult' <=> FailedResult) /\ BatchLimit' = BatchLimit
    BY <1>1 DEF Todo, Batch, Rest, Wave, BatchLimit, ResultTasks, FailedResult
  <1>3. Ordered' /\ \A type, u : Told(type, u)' <=> Told(type, u)
    BY <1>0, <1>1 DEF Stream, Ordered, Told, Sent, Before
  <1>10. Typed'
    BY <1>0, <1>1, <1>2, NAssumption DEF Typed, Places
  <1>11. Lists'
    BY <1>0, <1>1, <1>2 DEF Lists
  <1>12. Reports'
    BY <1>0, <1>1, <1>2 DEF Reports
  <1>13. Phases'
    BY <1>0, <1>1, <1>2 DEF Phases
  <1>14. Counts'
    BY <1>0, <1>1, <1>2, <1>4 DEF Counts
  <1>15. Where'
    BY <1>0, <1>1, <1>2, <1>t DEF Where, Dropped
  <1>16. Waves'
    BY <1>0, <1>1, <1>2, <1>t DEF Waves
  <1>17. Left'
    BY <1>0, <1>1, <1>2, <1>t DEF Left, Stranded
  <1>18. Over'
    BY <1>0, <1>1, <1>2 DEF Over
  <1>19. Stream'
    BY <1>0, <1>1, <1>2, <1>t, <1>3 DEF Stream
  <1> QED BY <1>10, <1>11, <1>12, <1>13, <1>14, <1>15, <1>16, <1>17, <1>18, <1>19 DEF RunInv


LEMMA DispatchStep ==
  ASSUME RunInv, Dispatch
  PROVE  RunInv'
  <1>0. /\ Typed /\ Lists /\ Reports /\ Phases /\ Counts /\ Where /\ Waves /\ Left /\ Over /\ Stream
    BY DEF RunInv
  <1>1. /\ pc = "dispatch"
        /\ todo # <<>>
        /\ spawned < BatchLimit \/ ~(spawned >= BatchLimit)
        /\ events' = Emit(wants, Ev("task_started", Head(todo)))
        /\ batch' = Append(batch, Head(todo))
        /\ todo' = Tail(todo)
        /\ spawned' = spawned + 1
        /\ \/ job' = [job EXCEPT ![Head(todo)] = "spawned"] /\ pc' = "dispatch"
           \/ job' = [job EXCEPT ![Head(todo)] = "inline"] /\ pc' = "inline"
        /\ UNCHANGED <<kind, deps, remaining, wave, completed, anyFailed, res, tstat, results, cancelled, expired, timedOut, watched, wants, audited, gauge, counted, outcome>>
    BY DEF Dispatch, BatchFull, Notes, specVars, dagVars, jobVars, envVars, endVars
  <1>t. Todo \subseteq Tasks /\ Batch \subseteq Tasks /\ Rest \subseteq Tasks /\ Wave \subseteq Tasks /\ ResultTasks \subseteq Tasks
    BY <1>0, Within
  <1>4. /\ Head(todo) \in Tasks /\ Head(todo) \in Todo /\ todo' \in Seq(Tasks) /\ Distinct(todo')
        /\ Range(todo') = Todo \ {Head(todo)} /\ job[Head(todo)] = "none" /\ res[Head(todo)] = "none"
        /\ Head(todo) \notin Batch /\ Head(todo) \notin ResultTasks /\ wants \in BOOLEAN
    <2>1. /\ Head(todo) \in Tasks /\ Head(todo) \in Todo /\ todo' \in Seq(Tasks) /\ Distinct(todo')
          /\ Range(todo') = Todo \ {Head(todo)}
      BY <1>0, <1>1, TakeOne DEF Lists, Todo
    <2> QED BY <1>0, <1>1, <2>1 DEF Where, Typed
  <1>5. batch' \in Seq(Tasks) /\ Distinct(batch') /\ Range(batch') = Batch \cup {Head(todo)} /\ Len(batch') = Len(batch) + 1
    BY <1>0, <1>1, <1>4, AddOne DEF Lists, Batch
  <1>6. /\ job' \in [Tasks -> JobStates] /\ job'[Head(todo)] \in {"spawned", "inline"} /\ pc' \in {"dispatch", "inline"}
        /\ \A t \in Tasks : t # Head(todo) => job'[t] = job[t]
    BY <1>0, <1>1, <1>4 DEF Typed, JobStates
  <1>7. spawned' = Len(batch') /\ spawned' \in 0..N /\ spawned' <= BatchLimit
    <2>1. spawned = Len(batch) /\ spawned \in Nat /\ BatchLimit \in Nat
      BY <1>0, <1>1, NAssumption DEF Counts, Typed, BatchLimit
    <2>2. Len(batch') \in Nat /\ batch' \in [1..Len(batch') -> Tasks] /\ \A i, j \in 1..Len(batch') : i # j => batch'[i] # batch'[j]
      BY <1>5 DEF Distinct
    <2>3. Len(batch') <= N
      BY <2>2, Fits
    <2> QED BY <1>1, <1>5, <2>1, <2>2, <2>3, NAssumption
  <1>2. Todo' = Todo \ {Head(todo)} /\ Batch' = Batch \cup {Head(todo)} /\ Rest' = Rest /\ Wave' = Wave /\ ResultTasks' = ResultTasks /\ (FailedResult' <=> FailedResult) /\ BatchLimit' = BatchLimit
    BY <1>1, <1>4, <1>5 DEF Todo, Batch, Rest, Wave, BatchLimit, ResultTasks, FailedResult
  <1>3. Ordered' /\ \A type, u : Told(type, u)' <=> Told(type, u) \/ (wants /\ type = "task_started" /\ u = Head(todo))
    <2> DEFINE e == Ev("task_started", Head(todo))
    <2>1. e \in EventSet /\ e.type = "task_started" /\ e.task = Head(todo)
      BY <1>4 DEF Ev, EventSet, TaskEvents
    <2>2. Ordered
      BY <1>0 DEF Stream
    <2> HIDE DEF e
    <2>3. events' = Emit(wants, e)
      BY <1>1, <1>4 DEF e
    <2>4. wants => TRUE
      BY <1>0, <1>4 DEF Stream
    <2>5. Ordered' /\ \A type, u : Told(type, u)' <=> Told(type, u) \/ (wants /\ e.type = type /\ e.task = u)
      BY <2>1, <2>2, <2>3, <2>4, TellOne
    <2> QED BY <2>1, <2>5
  <1>10. Typed'
    BY <1>0, <1>1, <1>2, <1>6, <1>7 DEF Typed, Places
  <1>11. Lists'
    BY <1>0, <1>1, <1>2, <1>4, <1>5 DEF Lists
  <1>12. Reports'
    BY <1>0, <1>1, <1>2, <1>6 DEF Reports
  <1>13. Phases'
    BY <1>0, <1>1, <1>2, <1>6 DEF Phases
  <1>14. Counts'
    BY <1>0, <1>1, <1>2, <1>6, <1>7 DEF Counts
  <1>15. Where'
    BY <1>0, <1>1, <1>2, <1>t, <1>4, <1>6 DEF Where, Dropped
  <1>16. Waves'
    BY <1>0, <1>1, <1>2, <1>t, <1>4, <1>6 DEF Waves
  <1>17. Left'
    BY <1>0, <1>1, <1>2, <1>t, <1>6 DEF Left, Stranded
  <1>18. Over'
    BY <1>0, <1>1, <1>2, <1>6 DEF Over
  <1>19. Stream'
    <2>1. ~Told("task_started", Head(todo)) /\ ~Told("task_completed", Head(todo))
      BY <1>0, <1>4 DEF Stream
    <2>2. \A t \in Tasks : job[t] # "none" => job'[t] = job[t]
      BY <1>4, <1>6
    <2>3. \A t \in Tasks : Told("task_started", t)' => job'[t] # "none"
      BY <1>0, <1>3, <1>4, <1>6, <2>2 DEF Stream
    <2>4. \A t \in Tasks : Told("task_completed", t)' => job'[t] = "done"
      BY <1>0, <1>3, <2>2 DEF Stream
    <2>5. \A t \in Batch' : ~Told("task_completed", t)' /\ (wants <=> Told("task_started", t)')
      BY <1>0, <1>2, <1>3, <1>4, <2>1 DEF Stream
    <2> QED BY <1>0, <1>1, <1>2, <1>3, <2>3, <2>4, <2>5 DEF Stream
  <1> QED BY <1>10, <1>11, <1>12, <1>13, <1>14, <1>15, <1>16, <1>17, <1>18, <1>19 DEF RunInv


LEMMA InlineDoneStep ==
  ASSUME RunInv, InlineDone
  PROVE  RunInv'
  <1>0. /\ Typed /\ Lists /\ Reports /\ Phases /\ Counts /\ Where /\ Waves /\ Left /\ Over /\ Stream
    BY DEF RunInv
  <1>1. /\ pc = "inline"
        /\ pc' = "dispatch"
        /\ UNCHANGED <<kind, deps, todo, batch, spawned, remaining, wave, completed, anyFailed, job, res, tstat, results, cancelled, expired, timedOut, watched, wants, events, audited, gauge, counted, outcome>>
    BY DEF InlineDone, specVars, dagVars, jobVars, envVars, endVars
  <1>t. Todo \subseteq Tasks /\ Batch \subseteq Tasks /\ Rest \subseteq Tasks /\ Wave \subseteq Tasks /\ ResultTasks \subseteq Tasks
    BY <1>0, Within
  <1>2. Todo' = Todo /\ Batch' = Batch /\ Rest' = Rest /\ Wave' = Wave /\ ResultTasks' = ResultTasks /\ (FailedResult' <=> FailedResult) /\ BatchLimit' = BatchLimit
    BY <1>1 DEF Todo, Batch, Rest, Wave, BatchLimit, ResultTasks, FailedResult
  <1>3. Ordered' /\ \A type, u : Told(type, u)' <=> Told(type, u)
    BY <1>0, <1>1 DEF Stream, Ordered, Told, Sent, Before
  <1>10. Typed'
    BY <1>0, <1>1, <1>2 DEF Typed, Places
  <1>11. Lists'
    BY <1>0, <1>1, <1>2 DEF Lists
  <1>12. Reports'
    BY <1>0, <1>1, <1>2 DEF Reports
  <1>13. Phases'
    BY <1>0, <1>1, <1>2 DEF Phases
  <1>14. Counts'
    BY <1>0, <1>1, <1>2 DEF Counts
  <1>15. Where'
    BY <1>0, <1>1, <1>2, <1>t DEF Where, Dropped
  <1>16. Waves'
    BY <1>0, <1>1, <1>2, <1>t DEF Waves
  <1>17. Left'
    BY <1>0, <1>1, <1>2, <1>t DEF Left, Stranded
  <1>18. Over'
    BY <1>0, <1>1, <1>2 DEF Over
  <1>19. Stream'
    BY <1>0, <1>1, <1>2, <1>t, <1>3 DEF Stream
  <1> QED BY <1>10, <1>11, <1>12, <1>13, <1>14, <1>15, <1>16, <1>17, <1>18, <1>19 DEF RunInv


LEMMA BatchSentStep ==
  ASSUME RunInv, BatchSent
  PROVE  RunInv'
  <1>0. /\ Typed /\ Lists /\ Reports /\ Phases /\ Counts /\ Where /\ Waves /\ Left /\ Over /\ Stream
    BY DEF RunInv
  <1>1. /\ pc = "dispatch"
        /\ pc' = "join"
        /\ UNCHANGED <<kind, deps, todo, batch, spawned, remaining, wave, completed, anyFailed, job, res, tstat, results, cancelled, expired, timedOut, watched, wants, events, audited, gauge, counted, outcome>>
    BY DEF BatchSent, specVars, dagVars, jobVars, envVars, endVars
  <1>t. Todo \subseteq Tasks /\ Batch \subseteq Tasks /\ Rest \subseteq Tasks /\ Wave \subseteq Tasks /\ ResultTasks \subseteq Tasks
    BY <1>0, Within
  <1>4. spawned \in Nat /\ (spawned = Len(batch) => Len(batch) <= spawned)
    BY <1>0 DEF Typed
  <1>2. Todo' = Todo /\ Batch' = Batch /\ Rest' = Rest /\ Wave' = Wave /\ ResultTasks' = ResultTasks /\ (FailedResult' <=> FailedResult) /\ BatchLimit' = BatchLimit
    BY <1>1 DEF Todo, Batch, Rest, Wave, BatchLimit, ResultTasks, FailedResult
  <1>3. Ordered' /\ \A type, u : Told(type, u)' <=> Told(type, u)
    BY <1>0, <1>1 DEF Stream, Ordered, Told, Sent, Before
  <1>10. Typed'
    BY <1>0, <1>1, <1>2 DEF Typed, Places
  <1>11. Lists'
    BY <1>0, <1>1, <1>2 DEF Lists
  <1>12. Reports'
    BY <1>0, <1>1, <1>2 DEF Reports
  <1>13. Phases'
    BY <1>0, <1>1, <1>2 DEF Phases
  <1>14. Counts'
    BY <1>0, <1>1, <1>2, <1>4 DEF Counts
  <1>15. Where'
    BY <1>0, <1>1, <1>2, <1>t DEF Where, Dropped
  <1>16. Waves'
    BY <1>0, <1>1, <1>2, <1>t DEF Waves
  <1>17. Left'
    BY <1>0, <1>1, <1>2, <1>t DEF Left, Stranded
  <1>18. Over'
    BY <1>0, <1>1, <1>2 DEF Over
  <1>19. Stream'
    BY <1>0, <1>1, <1>2, <1>t, <1>3 DEF Stream
  <1> QED BY <1>10, <1>11, <1>12, <1>13, <1>14, <1>15, <1>16, <1>17, <1>18, <1>19 DEF RunInv


LEMMA JoinStep ==
  ASSUME RunInv, Join
  PROVE  RunInv'
  <1>0. /\ Typed /\ Lists /\ Reports /\ Phases /\ Counts /\ Where /\ Waves /\ Left /\ Over /\ Stream
    BY DEF RunInv
  <1>1. /\ pc = "join"
        /\ batch # <<>>
        /\ job[Head(batch)] = "done"
        /\ batch' = Tail(batch)
        /\ res[Head(batch)] # "none" =>
             /\ tstat' = [tstat EXCEPT ![Head(batch)] = res[Head(batch)]]
             /\ results' = Append(results, [task |-> Head(batch), status |-> res[Head(batch)]])
             /\ events' = Emit(wants, Ev("task_completed", Head(batch)))
        /\ UNCHANGED <<kind, deps, pc, todo, spawned, remaining, wave, completed, anyFailed, job, res, cancelled, expired, timedOut, watched, wants, audited, gauge, counted, outcome>>
    BY DEF Join, Joinable, Notes, specVars, dagVars, jobVars, envVars, endVars
  <1>t. Todo \subseteq Tasks /\ Batch \subseteq Tasks /\ Rest \subseteq Tasks /\ Wave \subseteq Tasks /\ ResultTasks \subseteq Tasks
    BY <1>0, Within
  <1>4. /\ Head(batch) \in Tasks /\ Head(batch) \in Batch /\ Head(batch) \notin ResultTasks /\ wants \in BOOLEAN
        /\ batch' \in Seq(Tasks) /\ Distinct(batch') /\ Range(batch') = Batch \ {Head(batch)} /\ Len(batch') = Len(batch) - 1
        /\ Len(batch) \in Nat /\ res[Head(batch)] \in {"completed", "failed"} /\ res[Head(batch)] # "none"
    <2>1. /\ Head(batch) \in Tasks /\ Head(batch) \in Batch /\ Len(batch) \in Nat
          /\ batch' \in Seq(Tasks) /\ Distinct(batch') /\ Range(batch') = Batch \ {Head(batch)} /\ Len(batch') = Len(batch) - 1
      BY <1>0, <1>1, TakeOne DEF Lists, Batch
    <2> QED BY <1>0, <1>1, <2>1 DEF Where, Typed
  <1> DEFINE t == Head(batch)  st == res[t]
  <1>5. /\ results' \in Seq(Results) /\ \A i, j \in DOMAIN results' : i # j => results'[i].task # results'[j].task
        /\ ResultTasks' = ResultTasks \cup {t}
        /\ \A i \in DOMAIN results : i \in DOMAIN results' /\ results'[i] = results[i]
        /\ \A i \in DOMAIN results' : \/ i \in DOMAIN results /\ results'[i] = results[i]
                                      \/ results'[i].task = t /\ results'[i].status = st
    <2>1. results \in Seq(Results) /\ \A i, j \in DOMAIN results : i # j => results[i].task # results[j].task
      BY <1>0 DEF Reports
    <2>2. results' = Append(results, [task |-> t, status |-> st])
      BY <1>1, <1>4
    <2> DEFINE x == [task |-> t, status |-> st]
    <2>3. x \in Results /\ x.task = t /\ x.status = st /\ x.task \notin ResultTasks
      BY <1>4 DEF Results
    <2>4. results' = Append(results, x)
      BY <2>2
    <2> HIDE DEF x, t, st
    <2> QED BY <2>1, <2>3, <2>4, ReportOne
  <1>6. FailedResult => FailedResult'
    BY <1>5 DEF FailedResult
  <1>2. Todo' = Todo /\ Batch' = Batch \ {Head(batch)} /\ Rest' = Rest /\ Wave' = Wave /\ BatchLimit' = BatchLimit
    BY <1>1, <1>4 DEF Todo, Batch, Rest, Wave, BatchLimit
  <1>3. Ordered' /\ \A type, u : Told(type, u)' <=> Told(type, u) \/ (wants /\ type = "task_completed" /\ u = Head(batch))
    <2> DEFINE e == Ev("task_completed", Head(batch))
    <2>1. e \in EventSet /\ e.type = "task_completed" /\ e.task = Head(batch)
      BY <1>4 DEF Ev, EventSet, TaskEvents
    <2>2. Ordered
      BY <1>0 DEF Stream
    <2> HIDE DEF e
    <2>3. events' = Emit(wants, e)
      BY <1>1, <1>4 DEF e
    <2>4. wants => Told("task_started", Head(batch))
      BY <1>0, <1>4 DEF Stream
    <2>5. Ordered' /\ \A type, u : Told(type, u)' <=> Told(type, u) \/ (wants /\ e.type = type /\ e.task = u)
      BY <2>1, <2>2, <2>3, <2>4, TellOne
    <2> QED BY <2>1, <2>5
  <1>10. Typed'
    BY <1>0, <1>1, <1>2, <1>4 DEF Typed, Places, Statuses
  <1>11. Lists'
    BY <1>0, <1>1, <1>2, <1>4 DEF Lists
  <1>12. Reports'
    BY <1>0, <1>1, <1>2, <1>5 DEF Reports
  <1>13. Phases'
    BY <1>0, <1>1, <1>2, <1>4 DEF Phases
  <1>14. Counts'
    <2>1. Len(batch) <= spawned /\ spawned \in Nat /\ Len(batch') <= Len(batch)
      BY <1>0, <1>1, <1>4 DEF Counts, Typed
    <2>2. Len(batch') <= spawned
      BY <1>4, <2>1
    <2> QED BY <1>0, <1>1, <1>2, <2>2 DEF Counts
  <1>15. Where'
    BY <1>0, <1>1, <1>2, <1>t, <1>4, <1>5 DEF Where, Dropped
  <1>16. Waves'
    BY <1>0, <1>1, <1>2, <1>t, <1>4, <1>5, <1>6 DEF Waves
  <1>17. Left'
    BY <1>0, <1>1, <1>2, <1>t, <1>6 DEF Left, Stranded
  <1>18. Over'
    BY <1>0, <1>1, <1>2 DEF Over
  <1>19. Stream'
    BY <1>0, <1>1, <1>2, <1>t, <1>3, <1>4 DEF Stream
  <1> QED BY <1>10, <1>11, <1>12, <1>13, <1>14, <1>15, <1>16, <1>17, <1>18, <1>19 DEF RunInv


LEMMA BatchJoinedStep ==
  ASSUME RunInv, BatchJoined
  PROVE  RunInv'
  <1>0. /\ Typed /\ Lists /\ Reports /\ Phases /\ Counts /\ Where /\ Waves /\ Left /\ Over /\ Stream
    BY DEF RunInv
  <1>1. /\ pc = "join"
        /\ batch = <<>>
        /\ pc' = "batchHead"
        /\ UNCHANGED <<kind, deps, todo, batch, spawned, remaining, wave, completed, anyFailed, job, res, tstat, results, cancelled, expired, timedOut, watched, wants, events, audited, gauge, counted, outcome>>
    BY DEF BatchJoined, specVars, dagVars, jobVars, envVars, endVars
  <1>t. Todo \subseteq Tasks /\ Batch \subseteq Tasks /\ Rest \subseteq Tasks /\ Wave \subseteq Tasks /\ ResultTasks \subseteq Tasks
    BY <1>0, Within
  <1>2. Todo' = Todo /\ Batch' = Batch /\ Rest' = Rest /\ Wave' = Wave /\ ResultTasks' = ResultTasks /\ (FailedResult' <=> FailedResult) /\ BatchLimit' = BatchLimit
    BY <1>1 DEF Todo, Batch, Rest, Wave, BatchLimit, ResultTasks, FailedResult
  <1>3. Ordered' /\ \A type, u : Told(type, u)' <=> Told(type, u)
    BY <1>0, <1>1 DEF Stream, Ordered, Told, Sent, Before
  <1>10. Typed'
    BY <1>0, <1>1, <1>2 DEF Typed, Places
  <1>11. Lists'
    BY <1>0, <1>1, <1>2 DEF Lists
  <1>12. Reports'
    BY <1>0, <1>1, <1>2 DEF Reports
  <1>13. Phases'
    BY <1>0, <1>1, <1>2 DEF Phases
  <1>14. Counts'
    BY <1>0, <1>1, <1>2 DEF Counts
  <1>15. Where'
    BY <1>0, <1>1, <1>2, <1>t DEF Where, Dropped
  <1>16. Waves'
    BY <1>0, <1>1, <1>2, <1>t DEF Waves
  <1>17. Left'
    BY <1>0, <1>1, <1>2, <1>t DEF Left, Stranded
  <1>18. Over'
    BY <1>0, <1>1, <1>2 DEF Over
  <1>19. Stream'
    BY <1>0, <1>1, <1>2, <1>t, <1>3 DEF Stream
  <1> QED BY <1>10, <1>11, <1>12, <1>13, <1>14, <1>15, <1>16, <1>17, <1>18, <1>19 DEF RunInv


LEMMA DagStopStep ==
  ASSUME RunInv, DagHead, remaining = <<>> \/ Stopped
  PROVE  RunInv'
  <1>0. /\ Typed /\ Lists /\ Reports /\ Phases /\ Counts /\ Where /\ Waves /\ Left /\ Over /\ Stream
    BY DEF RunInv
  <1>1. /\ pc = "dagHead"
        /\ pc' = "end"
        /\ timedOut' = IF remaining = <<>> THEN timedOut ELSE TimedOutAtHead
        /\ remaining = <<>> \/ Stopped
        /\ UNCHANGED <<kind, deps, todo, batch, spawned, remaining, wave, completed, anyFailed, job, res, tstat, results, cancelled, expired, watched, wants, events, audited, gauge, counted, outcome>>
    BY DEF DagHead, specVars, dagVars, jobVars, envVars, endVars
  <1>t. Todo \subseteq Tasks /\ Batch \subseteq Tasks /\ Rest \subseteq Tasks /\ Wave \subseteq Tasks /\ ResultTasks \subseteq Tasks
    BY <1>0, Within
  <1>4. /\ timedOut' \in BOOLEAN /\ (timedOut => timedOut') /\ (timedOut' => expired)
        /\ remaining # <<>> => cancelled \/ timedOut'
    BY <1>0, <1>1, LoopHead
  <1>5. Todo = {} /\ Batch = {} /\ Wave = {} /\ kind = "dag"
    BY <1>0, <1>1, EmptyList, NoBatch DEF Phases, Todo, Wave
  <1>6. remaining = <<>> => Rest = {}
    BY EmptyList DEF Rest
  <1>2. Todo' = Todo /\ Batch' = Batch /\ Rest' = Rest /\ Wave' = Wave /\ ResultTasks' = ResultTasks /\ (FailedResult' <=> FailedResult) /\ BatchLimit' = BatchLimit
    BY <1>1 DEF Todo, Batch, Rest, Wave, BatchLimit, ResultTasks, FailedResult
  <1>3. Ordered' /\ \A type, u : Told(type, u)' <=> Told(type, u)
    BY <1>0, <1>1 DEF Stream, Ordered, Told, Sent, Before
  <1>10. Typed'
    BY <1>0, <1>1, <1>2, <1>4 DEF Typed, Places
  <1>11. Lists'
    BY <1>0, <1>1, <1>2 DEF Lists
  <1>12. Reports'
    BY <1>0, <1>1, <1>2 DEF Reports
  <1>13. Phases'
    BY <1>0, <1>1, <1>2, <1>4, <1>5 DEF Phases
  <1>14. Counts'
    BY <1>0, <1>1, <1>2 DEF Counts
  <1>15. Where'
    BY <1>0, <1>1, <1>2, <1>t, <1>4, <1>5 DEF Where, Dropped
  <1>16. Waves'
    BY <1>0, <1>1, <1>2, <1>t, <1>4, <1>5 DEF Waves
  <1>17. Left'
    BY <1>0, <1>1, <1>2, <1>t, <1>4, <1>5, <1>6 DEF Left, Stranded, Phases
  <1>18. Over'
    BY <1>0, <1>1, <1>2 DEF Over
  <1>19. Stream'
    BY <1>0, <1>1, <1>2, <1>t, <1>3 DEF Stream
  <1> QED BY <1>10, <1>11, <1>12, <1>13, <1>14, <1>15, <1>16, <1>17, <1>18, <1>19 DEF RunInv


LEMMA DagStrandedStep ==
  ASSUME RunInv, DagHead, remaining # <<>>, ~Stopped, ReadyPart(remaining) = <<>>, anyFailed
  PROVE  RunInv'
  <1>0. /\ Typed /\ Lists /\ Reports /\ Phases /\ Counts /\ Where /\ Waves /\ Left /\ Over /\ Stream
    BY DEF RunInv
  <1>1. /\ pc = "dagHead"
        /\ pc' = "end"
        /\ anyFailed
        /\ UNCHANGED <<kind, deps, todo, batch, spawned, remaining, wave, completed, anyFailed, job, res, tstat, results, cancelled, expired, timedOut, watched, wants, events, audited, gauge, counted, outcome>>
    BY DEF DagHead, specVars, dagVars, jobVars, envVars, endVars
  <1>t. Todo \subseteq Tasks /\ Batch \subseteq Tasks /\ Rest \subseteq Tasks /\ Wave \subseteq Tasks /\ ResultTasks \subseteq Tasks
    BY <1>0, Within
  <1>5. Todo = {} /\ Batch = {} /\ Wave = {} /\ kind = "dag"
    BY <1>0, <1>1, EmptyList, NoBatch DEF Phases, Todo, Wave
  <1>6. ASSUME NEW t \in Rest PROVE Stranded(t)
    BY <1>0, <1>1, <1>5, <1>6, NoneReady DEF Stranded
  <1>7. cancelled \/ timedOut \/ FailedResult
    BY <1>0, <1>1 DEF Waves
  <1>2. Todo' = Todo /\ Batch' = Batch /\ Rest' = Rest /\ Wave' = Wave /\ ResultTasks' = ResultTasks /\ (FailedResult' <=> FailedResult) /\ BatchLimit' = BatchLimit
    BY <1>1 DEF Todo, Batch, Rest, Wave, BatchLimit, ResultTasks, FailedResult
  <1>3. Ordered' /\ \A type, u : Told(type, u)' <=> Told(type, u)
    BY <1>0, <1>1 DEF Stream, Ordered, Told, Sent, Before
  <1>10. Typed'
    BY <1>0, <1>1, <1>2 DEF Typed, Places
  <1>11. Lists'
    BY <1>0, <1>1, <1>2 DEF Lists
  <1>12. Reports'
    BY <1>0, <1>1, <1>2 DEF Reports
  <1>13. Phases'
    BY <1>0, <1>1, <1>2, <1>5 DEF Phases
  <1>14. Counts'
    BY <1>0, <1>1, <1>2 DEF Counts
  <1>15. Where'
    BY <1>0, <1>1, <1>2, <1>t, <1>5 DEF Where, Dropped
  <1>16. Waves'
    BY <1>0, <1>1, <1>2, <1>t, <1>5 DEF Waves
  <1>17. Left'
    <2>1. \A t \in Rest : Stranded(t)'
      BY <1>1, <1>6 DEF Stranded
    <2> QED BY <1>0, <1>1, <1>2, <1>5, <1>7, <2>1 DEF Left, Phases
  <1>18. Over'
    BY <1>0, <1>1, <1>2 DEF Over
  <1>19. Stream'
    BY <1>0, <1>1, <1>2, <1>t, <1>3 DEF Stream
  <1> QED BY <1>10, <1>11, <1>12, <1>13, <1>14, <1>15, <1>16, <1>17, <1>18, <1>19 DEF RunInv


LEMMA DagDeadlockStep ==
  ASSUME RunInv, DagHead, remaining # <<>>, ~Stopped, ReadyPart(remaining) = <<>>, ~anyFailed
  PROVE  RunInv'
  <1>0. /\ Typed /\ Lists /\ Reports /\ Phases /\ Counts /\ Where /\ Waves /\ Left /\ Over /\ Stream
    BY DEF RunInv
  <1>1. /\ pc = "dagHead"
        /\ pc' = "over"
        /\ outcome' = "error"
        /\ gauge' = gauge - 1
        /\ ~anyFailed
        /\ ~Stopped
        /\ remaining # <<>>
        /\ UNCHANGED <<kind, deps, todo, batch, spawned, remaining, wave, completed, anyFailed, job, res, tstat, results, cancelled, expired, timedOut, watched, wants, events, audited, counted>>
    BY DEF DagHead, ErrorOut, specVars, dagVars, jobVars, envVars, endVars
  <1>t. Todo \subseteq Tasks /\ Batch \subseteq Tasks /\ Rest \subseteq Tasks /\ Wave \subseteq Tasks /\ ResultTasks \subseteq Tasks
    BY <1>0, Within
  <1>5. Todo = {} /\ Batch = {} /\ Wave = {} /\ kind = "dag"
    BY <1>0, <1>1, EmptyList, NoBatch DEF Phases, Todo, Wave
  <1>6. ~cancelled /\ ~expired /\ ~timedOut
    BY <1>0, <1>1 DEF Stopped, Phases
  \* The first task that remains waits for an id the spec does not hold: what stands
  \* before it in the sort has run and has completed.
  <1>7. \E t \in Tasks : Ghost \in deps[t] /\ res[t] = "none"
    <2> DEFINE t == remaining[1]
    <2>1. t \in Tasks /\ t \in Rest /\ 1 \in DOMAIN remaining
      BY <1>0, <1>1 DEF Lists, Rest, Range
    <2>2. job[t] = "none" /\ res[t] = "none"
      BY <1>0, <2>1 DEF Where
    <2>3. PICK d \in deps[t] : d \notin completed
      BY <1>0, <1>1, <1>5, <2>1, NoneReady
    <2>4. d \in Tasks \/ d = Ghost
      BY <1>0, <2>1, DepsTyped
    <2>5. CASE d \in Tasks
      <3>1. d \notin Rest
        <4> SUFFICES ASSUME d \in Rest PROVE FALSE
          OBVIOUS
        <4>1. PICK i \in DOMAIN remaining : remaining[i] = d
          BY DEF Rest, Range
        <4>2. i < 1
          BY <1>0, <2>1, <2>3, <4>1 DEF Lists
        <4> QED BY <1>0, <4>1, <4>2 DEF Lists
      <3>2. job[d] # "none"
        BY <1>0, <1>1, <1>5, <1>6, <2>5, <3>1 DEF Where, Dropped
      <3>3. res[d] \in {"completed", "failed"}
        BY <1>0, <1>1, <1>5, <2>5, <3>2 DEF Where, Typed
      <3> QED BY <1>0, <1>1, <1>5, <2>3, <2>5, <3>3 DEF Waves
    <2> QED BY <2>1, <2>2, <2>3, <2>4, <2>5
  <1>2. Todo' = Todo /\ Batch' = Batch /\ Rest' = Rest /\ Wave' = Wave /\ ResultTasks' = ResultTasks /\ (FailedResult' <=> FailedResult) /\ BatchLimit' = BatchLimit
    BY <1>1 DEF Todo, Batch, Rest, Wave, BatchLimit, ResultTasks, FailedResult
  <1>3. Ordered' /\ \A type, u : Told(type, u)' <=> Told(type, u)
    BY <1>0, <1>1 DEF Stream, Ordered, Told, Sent, Before
  <1>10. Typed'
    BY <1>0, <1>1, <1>2 DEF Typed, Places
  <1>11. Lists'
    BY <1>0, <1>1, <1>2 DEF Lists
  <1>12. Reports'
    BY <1>0, <1>1, <1>2 DEF Reports
  <1>13. Phases'
    BY <1>0, <1>1, <1>2, <1>5 DEF Phases
  <1>14. Counts'
    BY <1>0, <1>1, <1>2 DEF Counts
  <1>15. Where'
    BY <1>0, <1>1, <1>2, <1>t, <1>5 DEF Where, Dropped
  <1>16. Waves'
    BY <1>0, <1>1, <1>2, <1>t, <1>5 DEF Waves
  <1>17. Left'
    BY <1>0, <1>1, <1>2, <1>t DEF Left, Stranded
  <1>18. Over'
    BY <1>0, <1>1, <1>2, <1>6, <1>7 DEF Over, CompletedMeansAll, FailureHasCause, ShortRunExplained, TimeoutOutranks, ErrorMeansBadSpec, RanIsCounted
  <1>19. Stream'
    BY <1>0, <1>1, <1>2, <1>t, <1>3 DEF Stream
  <1> QED BY <1>10, <1>11, <1>12, <1>13, <1>14, <1>15, <1>16, <1>17, <1>18, <1>19 DEF RunInv


LEMMA NextWaveStep ==
  ASSUME RunInv, DagHead, remaining # <<>>, ~Stopped, ReadyPart(remaining) # <<>>
  PROVE  RunInv'
  <1>0. /\ Typed /\ Lists /\ Reports /\ Phases /\ Counts /\ Where /\ Waves /\ Left /\ Over /\ Stream
    BY DEF RunInv
  <1>1. /\ pc = "dagHead"
        /\ pc' = "batchHead"
        /\ wave' = ReadyPart(remaining)
        /\ remaining' = NotReadyPart(remaining)
        /\ todo' = ReadyPart(remaining)
        /\ wants' = watched
        /\ tstat' = [t \in Tasks |-> IF t \in Range(ReadyPart(remaining)) THEN "queued" ELSE tstat[t]]
        /\ UNCHANGED <<kind, deps, batch, spawned, completed, anyFailed, job, res, results, cancelled, expired, timedOut, watched, events, audited, gauge, counted, outcome>>
    BY DEF DagHead, StartWave, specVars, dagVars, jobVars, envVars, endVars
  <1>t. Todo \subseteq Tasks /\ Batch \subseteq Tasks /\ Rest \subseteq Tasks /\ Wave \subseteq Tasks /\ ResultTasks \subseteq Tasks
    BY <1>0, Within
  <1>5. Todo = {} /\ Batch = {} /\ Wave = {} /\ kind = "dag"
    BY <1>0, <1>1, EmptyList, NoBatch DEF Phases, Todo, Wave
  <1> DEFINE Ready == {t \in Tasks : deps[t] \subseteq completed}
  <1>6. todo' \in Seq(Tasks) /\ Distinct(todo') /\ Range(todo') = Rest \cap Ready /\ wave' = todo'
    <2>1. ReadyPart(remaining) = Pushed(remaining, Ready)
      BY DEF ReadyPart, DepsReady
    <2> HIDE DEF Ready
    <2> QED BY <1>0, <1>1, <2>1, Parts DEF Lists, Rest
  <1>7. /\ remaining' \in Seq(Tasks) /\ Distinct(remaining') /\ Range(remaining') = Rest \ Ready
        /\ \A i, j \in DOMAIN remaining' : remaining'[i] \in deps[remaining'[j]] => i < j
    <2> DEFINE Unready == {t \in Tasks : ~(deps[t] \subseteq completed)}
    <2>1. NotReadyPart(remaining) = Pushed(remaining, Unready)
      BY DEF NotReadyPart, DepsReady
    <2>2. Rest \cap Unready = Rest \ Ready
      BY <1>t
    <2> HIDE DEF Unready, Ready
    <2>3. /\ remaining' \in Seq(Tasks) /\ Distinct(remaining') /\ Range(remaining') = Rest \cap Unready
          /\ \A i, j \in DOMAIN remaining' : remaining'[i] \in deps[remaining'[j]] => i < j
      BY <1>0, <1>1, <2>1, Parts DEF Lists, Rest
    <2> QED BY <2>2, <2>3
  <1>8. \A t \in Ready : deps[t] \subseteq completed
    OBVIOUS
  <1> HIDE DEF Ready
  <1>2. Todo' = Rest \cap Ready /\ Batch' = Batch /\ Rest' = Rest \ Ready /\ Wave' = Rest \cap Ready /\ ResultTasks' = ResultTasks /\ (FailedResult' <=> FailedResult) /\ BatchLimit' = BatchLimit
    BY <1>1, <1>6, <1>7 DEF Todo, Batch, Rest, Wave, BatchLimit, ResultTasks, FailedResult
  <1>3. Ordered' /\ \A type, u : Told(type, u)' <=> Told(type, u)
    BY <1>0, <1>1 DEF Stream, Ordered, Told, Sent, Before
  <1>10. Typed'
    BY <1>0, <1>1, <1>2 DEF Typed, Places, Statuses
  <1>11. Lists'
    BY <1>0, <1>1, <1>2, <1>6, <1>7 DEF Lists
  <1>12. Reports'
    BY <1>0, <1>1, <1>2 DEF Reports
  <1>13. Phases'
    BY <1>0, <1>1, <1>2, <1>5 DEF Phases
  <1>14. Counts'
    BY <1>0, <1>1, <1>2 DEF Counts
  <1>15. Where'
    BY <1>0, <1>1, <1>2, <1>t, <1>5 DEF Where, Dropped
  <1>16. Waves'
    BY <1>0, <1>1, <1>2, <1>t, <1>5, <1>8 DEF Waves
  <1>17. Left'
    BY <1>0, <1>1, <1>2, <1>t DEF Left, Stranded
  <1>18. Over'
    BY <1>0, <1>1, <1>2 DEF Over
  <1>19. Stream'
    BY <1>0, <1>1, <1>2, <1>t, <1>3, <1>5 DEF Stream
  <1> QED BY <1>10, <1>11, <1>12, <1>13, <1>14, <1>15, <1>16, <1>17, <1>18, <1>19 DEF RunInv


LEMMA WaveOverStep ==
  ASSUME RunInv, WaveOver
  PROVE  RunInv'
  <1>0. /\ Typed /\ Lists /\ Reports /\ Phases /\ Counts /\ Where /\ Waves /\ Left /\ Over /\ Stream
    BY DEF RunInv
  <1>1. /\ pc = "waveOver"
        /\ pc' \in {"end", "dagHead"}
        /\ todo' = <<>>
        /\ wave' = <<>>
        /\ completed' = {results[i].task : i \in {j \in DOMAIN results : results[j].status = "completed"}}
        /\ anyFailed' = (anyFailed \/ \E t \in Wave : t \notin completed')
        /\ pc' = "end" => anyFailed' /\ \A t \in Rest : ~(deps[t] \subseteq completed')
        /\ UNCHANGED <<kind, deps, batch, spawned, remaining, job, res, tstat, results, cancelled, expired, timedOut, watched, wants, events, audited, gauge, counted, outcome>>
    BY DEF WaveOver, FailedAfter, Wave, Rest, specVars, dagVars, jobVars, envVars, endVars
  <1>t. Todo \subseteq Tasks /\ Batch \subseteq Tasks /\ Rest \subseteq Tasks /\ Wave \subseteq Tasks /\ ResultTasks \subseteq Tasks
    BY <1>0, Within
  <1>5. Batch = {} /\ kind = "dag"
    BY <1>0, <1>1, NoBatch DEF Phases
  <1>6. \A t \in Tasks : t \in completed' <=> res[t] = "completed"
    <2>1. ASSUME NEW t \in completed' PROVE res[t] = "completed"
      BY <1>0, <1>1 DEF Reports
    <2>2. ASSUME NEW t \in Tasks, res[t] = "completed" PROVE t \in completed'
      <3>1. t \in ResultTasks
        BY <1>0, <1>1, <1>5, <2>2 DEF Where
      <3>2. PICK i \in DOMAIN results : results[i].task = t
        BY <3>1 DEF ResultTasks
      <3>3. results[i].status = "completed"
        BY <1>0, <1>1, <2>2, <3>2 DEF Reports
      <3> QED BY <1>1, <3>2, <3>3
    <2> QED BY <2>1, <2>2
  <1>7. completed' \subseteq Tasks
    BY <1>1, <1>t DEF ResultTasks
  <1>8. ASSUME NEW t \in Wave, t \notin completed' PROVE cancelled \/ timedOut \/ FailedResult
    <2>1. t \in Tasks /\ (t \in Todo \/ t \in ResultTasks)
      BY <1>0, <1>1, <1>5, <1>8, <1>t DEF Waves
    <2>2. CASE t \in Todo
      <3>1. todo # <<>>
        BY <2>2, EmptyList DEF Todo
      <3> QED BY <1>0, <1>1, <3>1 DEF Left
    <2>3. CASE t \in ResultTasks
      <3>1. PICK i \in DOMAIN results : results[i].task = t
        BY <2>3 DEF ResultTasks
      <3>2. results[i].status = res[t] /\ res[t] \in {"completed", "failed"}
        BY <1>0, <1>1, <2>1, <2>3, <3>1 DEF Reports, Where, Typed
      <3>3. res[t] # "completed"
        BY <1>6, <1>8, <2>1
      <3> QED BY <3>1, <3>2, <3>3 DEF FailedResult
    <2> QED BY <2>1, <2>2, <2>3
  <1>9. Todo # {} => cancelled \/ timedOut
    <2>1. Todo # {} => todo # <<>>
      BY EmptyList DEF Todo
    <2> QED BY <1>0, <1>1, <2>1 DEF Left
  <1>2. Todo' = {} /\ Batch' = Batch /\ Rest' = Rest /\ Wave' = {} /\ ResultTasks' = ResultTasks /\ (FailedResult' <=> FailedResult) /\ BatchLimit' = BatchLimit
    BY <1>1, EmptyList DEF Todo, Batch, Rest, Wave, BatchLimit, ResultTasks, FailedResult
  <1>3. Ordered' /\ \A type, u : Told(type, u)' <=> Told(type, u)
    BY <1>0, <1>1 DEF Stream, Ordered, Told, Sent, Before
  <1>10. Typed'
    BY <1>0, <1>1, <1>2, <1>7 DEF Typed, Places
  <1>11. Lists'
    BY <1>0, <1>1, <1>2, EmptyList DEF Lists
  <1>12. Reports'
    BY <1>0, <1>1, <1>2 DEF Reports
  <1>13. Phases'
    BY <1>0, <1>1, <1>2, <1>5 DEF Phases
  <1>14. Counts'
    BY <1>0, <1>1, <1>2 DEF Counts
  <1>15. Where'
    BY <1>0, <1>1, <1>2, <1>t, <1>5, <1>9 DEF Where, Dropped
  <1>16. Waves'
    <2>1. \A t \in Tasks : res[t] = "failed" => anyFailed'
      BY <1>0, <1>1, <1>5, <1>6 DEF Waves
    <2>2. \A t \in completed : t \in completed'
      BY <1>0, <1>6 DEF Waves, Typed
    <2>3. \A t \in Tasks : job[t] # "none" => deps[t] \subseteq completed'
      BY <1>0, <1>5, <2>2 DEF Waves
    <2>4. anyFailed' => cancelled \/ timedOut \/ FailedResult
      BY <1>0, <1>1, <1>8 DEF Waves
    <2>5. \A t \in completed' : res[t] = "completed"
      BY <1>6, <1>7
    <2> QED BY <1>1, <1>2, <1>5, <1>6, <2>1, <2>3, <2>4, <2>5 DEF Waves
  <1>17. Left'
    <2>1. pc' = "end" => cancelled \/ timedOut \/ FailedResult
      BY <1>0, <1>1, <1>8 DEF Waves
    <2>2. ASSUME pc' = "end", NEW t \in Rest PROVE Stranded(t)
      <3>1. PICK d \in deps[t] : d \notin completed'
        BY <1>1, <2>2
      <3>2. d \in Tasks \/ d = Ghost
        BY <1>0, <1>t, DepsTyped
      <3> QED BY <1>5, <1>6, <3>1, <3>2 DEF Stranded
    <2>3. pc' = "end" => \A t \in Rest : Stranded(t)'
      BY <1>1, <2>2 DEF Stranded
    <2> QED BY <1>1, <1>2, <2>1, <2>3 DEF Left
  <1>18. Over'
    BY <1>0, <1>1, <1>2 DEF Over
  <1>19. Stream'
    BY <1>0, <1>1, <1>2, <1>t, <1>3 DEF Stream
  <1> QED BY <1>10, <1>11, <1>12, <1>13, <1>14, <1>15, <1>16, <1>17, <1>18, <1>19 DEF RunInv


LEMMA EndStep ==
  ASSUME RunInv, End
  PROVE  RunInv'
  <1>0. /\ Typed /\ Lists /\ Reports /\ Phases /\ Counts /\ Where /\ Waves /\ Left /\ Over /\ Stream
    BY DEF RunInv
  <1>1. /\ pc = "end"
        /\ pc' = "over"
        /\ outcome' = EndStatus
        /\ gauge' = gauge - 1
        /\ counted' = ResultTasks
        /\ results' = IF timedOut THEN <<>> ELSE results
        /\ events' = Emit(watched, [type |-> "crew_completed", task |-> Ghost, status |-> EndStatus, count |-> Len(results')])
        /\ UNCHANGED <<kind, deps, todo, batch, spawned, remaining, wave, completed, anyFailed, job, res, tstat, cancelled, expired, timedOut, watched, wants, audited>>
    BY DEF End, specVars, dagVars, jobVars, envVars, endVars
  <1>t. Todo \subseteq Tasks /\ Batch \subseteq Tasks /\ Rest \subseteq Tasks /\ Wave \subseteq Tasks /\ ResultTasks \subseteq Tasks
    BY <1>0, Within
  <1>5. Batch = {}
    BY <1>0, <1>1, NoBatch
  <1>6. /\ outcome' \in {"completed", "failed", "cancelled"} /\ (timedOut => outcome' = "failed")
        /\ (~timedOut /\ cancelled => outcome' = "cancelled")
        /\ outcome' = "completed" => ~timedOut /\ AllCompleted
        /\ outcome' = "failed" => timedOut \/ (~cancelled /\ ~AllCompleted)
    BY <1>1 DEF EndStatus
  <1>7. /\ results' \in Seq(Results) /\ Len(results') \in Nat
        /\ \A i, j \in DOMAIN results' : i # j => results'[i].task # results'[j].task
    BY <1>0, <1>1 DEF Reports
  <1>8. /\ \A t \in Tasks : res[t] # "none" => t \in ResultTasks
        /\ \A t \in Tasks : job[t] = "none" \/ job[t] = "done"
    BY <1>0, <1>1, <1>5 DEF Where
  <1>9. Len(results) = N <=> ResultTasks = Tasks
    <2> DEFINE f == [i \in 1..Len(results) |-> results[i].task]
    <2>1. Len(results) \in Nat /\ DOMAIN results = 1..Len(results) /\ \A i \in 1..Len(results) : results[i].task \in Tasks
      BY <1>0, <1>t DEF Reports, ResultTasks
    <2>2. f \in [1..Len(results) -> Tasks] /\ (\A i, j \in 1..Len(results) : i # j => f[i] # f[j]) /\ Range(f) = ResultTasks
      BY <1>0, <2>1 DEF Reports, ResultTasks, Range
    <2> HIDE DEF f
    <2> QED BY <2>1, <2>2, Fits
  <1>2. Todo' = Todo /\ Batch' = Batch /\ Rest' = Rest /\ Wave' = Wave /\ BatchLimit' = BatchLimit
    BY <1>1 DEF Todo, Batch, Rest, Wave, BatchLimit
  <1>3. Ordered' /\ \A type, t : t \in Tasks => (Told(type, t)' <=> Told(type, t))
    <2> DEFINE e == [type |-> "crew_completed", task |-> Ghost, status |-> EndStatus, count |-> Len(results')]
    <2>0. EndStatus \in {"completed", "failed", "cancelled"}
      BY DEF EndStatus
    <2>1. e \in EventSet /\ e.type = "crew_completed" /\ e.task = Ghost
      BY <1>7, <2>0 DEF EventSet
    <2>2. Ordered
      BY <1>0 DEF Stream
    <2>3. events' = Emit(watched, e)
      BY <1>1
    <2> HIDE DEF e
    <2>4. Ordered' /\ \A type, t : Told(type, t)' <=> Told(type, t) \/ (watched /\ e.type = type /\ e.task = t)
      BY <2>1, <2>2, <2>3, TellOne
    <2> QED BY <2>1, <2>4, GhostAssumption DEF Tasks
  <1>10. Typed'
    BY <1>0, <1>1, <1>2, <1>6, <1>t DEF Typed, Places
  <1>11. Lists'
    BY <1>0, <1>1, <1>2 DEF Lists
  <1>12. Reports'
    BY <1>0, <1>1, <1>2, <1>7 DEF Reports
  <1>13. Phases'
    BY <1>0, <1>1, <1>2 DEF Phases
  <1>14. Counts'
    BY <1>0, <1>1, <1>2 DEF Counts
  <1>15. Where'
    BY <1>0, <1>1, <1>2, <1>t, <1>5, <1>8 DEF Where, Dropped
  <1>16. Waves'
    BY <1>0, <1>1, <1>2, <1>t DEF Waves
  <1>17. Left'
    BY <1>0, <1>1, <1>2, <1>t DEF Left, Stranded
  <1>18. Over'
    <2>1. ASSUME outcome' = "completed" PROVE CompletedMeansAll'
      <3>1. ~timedOut /\ AllCompleted /\ results' = results
        BY <1>1, <1>6, <2>1
      <3>2. ResultTasks = Tasks /\ Len(results) = N /\ \A i \in DOMAIN results : results[i].status = "completed"
        BY <1>9, <3>1 DEF AllCompleted
      <3>3. ASSUME NEW t \in Tasks PROVE res[t] = "completed"
        <4>1. PICK i \in DOMAIN results : results[i].task = t
          BY <3>2 DEF ResultTasks
        <4> QED BY <1>0, <1>1, <3>2, <4>1 DEF Reports
      <3> QED BY <1>1, <3>1, <3>2, <3>3 DEF CompletedMeansAll, ResultTasks
    <2>2. ASSUME outcome' = "failed" PROVE FailureHasCause'
      <3> SUFFICES ASSUME ~timedOut PROVE \E i \in DOMAIN results' : results'[i].status = "failed"
        BY <1>1 DEF FailureHasCause
      <3>1. ~cancelled /\ ~AllCompleted /\ results' = results
        BY <1>1, <1>6, <2>2
      <3>2. SUFFICES ASSUME ~FailedResult PROVE FALSE
        BY <3>1 DEF FailedResult
      <3>3. todo = <<>> /\ remaining = <<>>
        BY <1>0, <1>1, <3>1, <3>2 DEF Left
      <3>4. Todo = {} /\ Rest = {}
        BY <3>3, EmptyList DEF Todo, Rest
      <3>5. \A t \in Tasks : job[t] # "none"
        BY <1>0, <1>1, <3>1, <3>4 DEF Where, Dropped
      <3>6. ResultTasks = Tasks
        BY <1>0, <1>1, <1>5, <1>t, <3>5 DEF Where
      <3>7. ASSUME NEW i \in DOMAIN results PROVE results[i].status = "completed"
        <4>1. results[i] \in Results
          BY <1>0 DEF Reports
        <4>2. results[i].status \in {"completed", "failed"}
          BY <4>1 DEF Results
        <4> QED BY <3>2, <4>2 DEF FailedResult
      <3> QED BY <1>9, <3>1, <3>6, <3>7 DEF AllCompleted
    <2>3. ShortRunExplained'
      <3> SUFFICES ASSUME NEW t \in Tasks, job[t] = "none", ~timedOut, ~cancelled
                   PROVE  kind = "dag" /\ \E d \in deps[t] : d = Ghost \/ res[d] # "completed"
        BY <1>1, <1>6 DEF ShortRunExplained
      <3>1. todo = <<>>
        BY <1>0, <1>1 DEF Left
      <3>2. t \in Rest
        BY <1>0, <1>1, <3>1, EmptyList DEF Where, Dropped, Todo
      <3>3. Stranded(t)
        BY <1>0, <1>1, <3>2 DEF Left
      <3> QED BY <3>3 DEF Stranded
    <2>4. TimeoutOutranks'
      BY <1>1, <1>6 DEF TimeoutOutranks
    <2>5. RanIsCounted'
      BY <1>1, <1>8 DEF RanIsCounted
    <2> QED BY <1>1, <1>6, <2>1, <2>2, <2>3, <2>4, <2>5 DEF Over, CompletedMeansAll, FailureHasCause, ErrorMeansBadSpec
  <1>19. Stream'
    BY <1>0, <1>1, <1>2, <1>t, <1>3, <1>5 DEF Stream
  <1> QED BY <1>10, <1>11, <1>12, <1>13, <1>14, <1>15, <1>16, <1>17, <1>18, <1>19 DEF RunInv


LEMMA WorkerSkipStep ==
  ASSUME RunInv, NEW t \in Tasks, WorkerStart(t), cancelled
  PROVE  RunInv'
  <1>0. /\ Typed /\ Lists /\ Reports /\ Phases /\ Counts /\ Where /\ Waves /\ Left /\ Over /\ Stream
    BY DEF RunInv
  <1>1. /\ job[t] \in {"spawned", "inline"}
        /\ job' = [job EXCEPT ![t] = "done"]
        /\ res' = [res EXCEPT ![t] = "failed"]
        /\ UNCHANGED <<kind, deps, pc, todo, batch, spawned, remaining, wave, completed, anyFailed, tstat, results, cancelled, expired, timedOut, watched, wants, events, audited, gauge, counted, outcome>>
    BY DEF WorkerStart, Skipped, specVars, dagVars, jobVars, envVars, endVars
  <1>t. Todo \subseteq Tasks /\ Batch \subseteq Tasks /\ Rest \subseteq Tasks /\ Wave \subseteq Tasks /\ ResultTasks \subseteq Tasks
    BY <1>0, Within
  <1>5. /\ t \in Batch /\ t \notin ResultTasks /\ res[t] = "none" /\ job[t] # "none" /\ job[t] # "done"
        /\ pc \in {"seqTask", "dispatch", "inline", "join"} /\ pc \notin {"begin", "mode", "dagHead", "waveOver", "end", "over"}
    BY <1>0, <1>1, AtWork DEF Alive
  <1>6. \A u \in Tasks : job'[u] = IF u = t THEN job'[t] ELSE job[u]
    BY <1>0, <1>1 DEF Typed
  <1>7. job'[t] = "done" /\ res'[t] = "failed" /\ \A u \in Tasks : u # t => res'[u] = res[u]
    BY <1>0, <1>1 DEF Typed
  <1>2. Todo' = Todo /\ Batch' = Batch /\ Rest' = Rest /\ Wave' = Wave /\ ResultTasks' = ResultTasks /\ (FailedResult' <=> FailedResult) /\ BatchLimit' = BatchLimit
    BY <1>1 DEF Todo, Batch, Rest, Wave, BatchLimit, ResultTasks, FailedResult
  <1>3. Ordered' /\ \A type, u : Told(type, u)' <=> Told(type, u)
    BY <1>0, <1>1 DEF Stream, Ordered, Told, Sent, Before
  <1>10. Typed'
    BY <1>0, <1>1, <1>2 DEF Typed, Places, JobStates
  <1>11. Lists'
    BY <1>0, <1>1, <1>2 DEF Lists
  <1>12. Reports'
    BY <1>0, <1>1, <1>2, <1>5, <1>7, <1>t DEF Reports, ResultTasks
  <1>13. Phases'
    BY <1>0, <1>1, <1>2, <1>5 DEF Phases
  <1>14. Counts'
    BY <1>0, <1>1, <1>2 DEF Counts
  <1>15. Where'
    BY <1>0, <1>1, <1>2, <1>t, <1>5, <1>6, <1>7 DEF Where, Dropped
  <1>16. Waves'
    BY <1>0, <1>1, <1>2, <1>t, <1>5, <1>6, <1>7 DEF Waves, Typed
  <1>17. Left'
    BY <1>0, <1>1, <1>2, <1>t, <1>5 DEF Left, Stranded
  <1>18. Over'
    BY <1>0, <1>1, <1>2, <1>5 DEF Over
  <1>19. Stream'
    BY <1>0, <1>1, <1>2, <1>t, <1>3, <1>5, <1>6, <1>7 DEF Stream
  <1> QED BY <1>10, <1>11, <1>12, <1>13, <1>14, <1>15, <1>16, <1>17, <1>18, <1>19 DEF RunInv


LEMMA WorkerGoStep ==
  ASSUME RunInv, NEW t \in Tasks, WorkerStart(t), ~cancelled
  PROVE  RunInv'
  <1>0. /\ Typed /\ Lists /\ Reports /\ Phases /\ Counts /\ Where /\ Waves /\ Left /\ Over /\ Stream
    BY DEF RunInv
  <1>1. /\ job[t] \in {"spawned", "inline"}
        /\ job' = [job EXCEPT ![t] = "working"]
        /\ UNCHANGED <<kind, deps, pc, todo, batch, spawned, remaining, wave, completed, anyFailed, res, tstat, results, cancelled, expired, timedOut, watched, wants, events, audited, gauge, counted, outcome>>
    BY DEF WorkerStart, specVars, dagVars, jobVars, envVars, endVars
  <1>t. Todo \subseteq Tasks /\ Batch \subseteq Tasks /\ Rest \subseteq Tasks /\ Wave \subseteq Tasks /\ ResultTasks \subseteq Tasks
    BY <1>0, Within
  <1>5. /\ t \in Batch /\ t \notin ResultTasks /\ res[t] = "none" /\ job[t] # "none" /\ job[t] # "done"
        /\ pc \in {"seqTask", "dispatch", "inline", "join"} /\ pc \notin {"begin", "mode", "dagHead", "waveOver", "end", "over"}
    BY <1>0, <1>1, AtWork DEF Alive
  <1>6. \A u \in Tasks : job'[u] = IF u = t THEN job'[t] ELSE job[u]
    BY <1>0, <1>1 DEF Typed
  <1>7. job'[t] = "working"
    BY <1>0, <1>1 DEF Typed
  <1>2. Todo' = Todo /\ Batch' = Batch /\ Rest' = Rest /\ Wave' = Wave /\ ResultTasks' = ResultTasks /\ (FailedResult' <=> FailedResult) /\ BatchLimit' = BatchLimit
    BY <1>1 DEF Todo, Batch, Rest, Wave, BatchLimit, ResultTasks, FailedResult
  <1>3. Ordered' /\ \A type, u : Told(type, u)' <=> Told(type, u)
    BY <1>0, <1>1 DEF Stream, Ordered, Told, Sent, Before
  <1>10. Typed'
    BY <1>0, <1>1, <1>2 DEF Typed, Places, JobStates
  <1>11. Lists'
    BY <1>0, <1>1, <1>2 DEF Lists
  <1>12. Reports'
    BY <1>0, <1>1, <1>2 DEF Reports
  <1>13. Phases'
    BY <1>0, <1>1, <1>2, <1>5 DEF Phases
  <1>14. Counts'
    BY <1>0, <1>1, <1>2 DEF Counts
  <1>15. Where'
    BY <1>0, <1>1, <1>2, <1>t, <1>5, <1>6, <1>7 DEF Where, Dropped
  <1>16. Waves'
    BY <1>0, <1>1, <1>2, <1>t, <1>5, <1>6, <1>7 DEF Waves
  <1>17. Left'
    BY <1>0, <1>1, <1>2, <1>t, <1>5 DEF Left, Stranded
  <1>18. Over'
    BY <1>0, <1>1, <1>2, <1>5 DEF Over
  <1>19. Stream'
    BY <1>0, <1>1, <1>2, <1>t, <1>3, <1>5, <1>6, <1>7 DEF Stream
  <1> QED BY <1>10, <1>11, <1>12, <1>13, <1>14, <1>15, <1>16, <1>17, <1>18, <1>19 DEF RunInv


LEMMA TaskHaltsStep ==
  ASSUME RunInv, NEW t \in Tasks, TaskHalts(t)
  PROVE  RunInv'
  <1>0. /\ Typed /\ Lists /\ Reports /\ Phases /\ Counts /\ Where /\ Waves /\ Left /\ Over /\ Stream
    BY DEF RunInv
  <1>1. /\ job[t] = "working"
        /\ expired
        /\ job' = [job EXCEPT ![t] = "stopped"]
        /\ timedOut' = TRUE
        /\ UNCHANGED <<kind, deps, pc, todo, batch, spawned, remaining, wave, completed, anyFailed, res, tstat, results, cancelled, expired, watched, wants, events, audited, gauge, counted, outcome>>
    BY DEF TaskHalts, specVars, dagVars, jobVars, envVars, endVars
  <1>t. Todo \subseteq Tasks /\ Batch \subseteq Tasks /\ Rest \subseteq Tasks /\ Wave \subseteq Tasks /\ ResultTasks \subseteq Tasks
    BY <1>0, Within
  <1>5. /\ t \in Batch /\ t \notin ResultTasks /\ res[t] = "none" /\ job[t] # "none" /\ job[t] # "done"
        /\ pc \in {"seqTask", "dispatch", "inline", "join"} /\ pc \notin {"begin", "mode", "dagHead", "waveOver", "end", "over"}
    BY <1>0, <1>1, AtWork DEF Alive
  <1>6. \A u \in Tasks : job'[u] = IF u = t THEN job'[t] ELSE job[u]
    BY <1>0, <1>1 DEF Typed
  <1>7. job'[t] = "stopped"
    BY <1>0, <1>1 DEF Typed
  <1>2. Todo' = Todo /\ Batch' = Batch /\ Rest' = Rest /\ Wave' = Wave /\ ResultTasks' = ResultTasks /\ (FailedResult' <=> FailedResult) /\ BatchLimit' = BatchLimit
    BY <1>1 DEF Todo, Batch, Rest, Wave, BatchLimit, ResultTasks, FailedResult
  <1>3. Ordered' /\ \A type, u : Told(type, u)' <=> Told(type, u)
    BY <1>0, <1>1 DEF Stream, Ordered, Told, Sent, Before
  <1>10. Typed'
    BY <1>0, <1>1, <1>2 DEF Typed, Places, JobStates
  <1>11. Lists'
    BY <1>0, <1>1, <1>2 DEF Lists
  <1>12. Reports'
    BY <1>0, <1>1, <1>2 DEF Reports
  <1>13. Phases'
    BY <1>0, <1>1, <1>2, <1>5 DEF Phases
  <1>14. Counts'
    BY <1>0, <1>1, <1>2 DEF Counts
  <1>15. Where'
    BY <1>0, <1>1, <1>2, <1>t, <1>5, <1>6, <1>7 DEF Where, Dropped
  <1>16. Waves'
    BY <1>0, <1>1, <1>2, <1>t, <1>5, <1>6, <1>7 DEF Waves
  <1>17. Left'
    BY <1>0, <1>1, <1>2, <1>t, <1>5 DEF Left, Stranded
  <1>18. Over'
    BY <1>0, <1>1, <1>2, <1>5 DEF Over
  <1>19. Stream'
    BY <1>0, <1>1, <1>2, <1>t, <1>3, <1>5, <1>6, <1>7 DEF Stream
  <1> QED BY <1>10, <1>11, <1>12, <1>13, <1>14, <1>15, <1>16, <1>17, <1>18, <1>19 DEF RunInv


LEMMA TaskFinishesStep ==
  ASSUME RunInv, NEW t \in Tasks, TaskFinishes(t)
  PROVE  RunInv'
  <1>0. /\ Typed /\ Lists /\ Reports /\ Phases /\ Counts /\ Where /\ Waves /\ Left /\ Over /\ Stream
    BY DEF RunInv
  <1>1. /\ job[t] \in {"working", "stopped"}
        /\ job' = [job EXCEPT ![t] = "done"]
        /\ \E st \in {"completed", "failed"} : \E on : res' = [res EXCEPT ![t] = st] /\ events' = Emit(on, Ev("token", t))
        /\ UNCHANGED <<kind, deps, pc, todo, batch, spawned, remaining, wave, completed, anyFailed, tstat, results, cancelled, expired, timedOut, watched, wants, audited, gauge, counted, outcome>>
    BY DEF TaskFinishes, Answers, specVars, dagVars, jobVars, envVars, endVars
  <1>t. Todo \subseteq Tasks /\ Batch \subseteq Tasks /\ Rest \subseteq Tasks /\ Wave \subseteq Tasks /\ ResultTasks \subseteq Tasks
    BY <1>0, Within
  <1>8. PICK st \in {"completed", "failed"} : \E on : res' = [res EXCEPT ![t] = st] /\ events' = Emit(on, Ev("token", t))
    BY <1>1
  <1>9. PICK on : res' = [res EXCEPT ![t] = st] /\ events' = Emit(on, Ev("token", t))
    BY <1>8
  <1>5. /\ t \in Batch /\ t \notin ResultTasks /\ res[t] = "none" /\ job[t] # "none" /\ job[t] # "done"
        /\ pc \in {"seqTask", "dispatch", "inline", "join"} /\ pc \notin {"begin", "mode", "dagHead", "waveOver", "end", "over"}
    BY <1>0, <1>1, AtWork DEF Alive
  <1>6. \A u \in Tasks : job'[u] = IF u = t THEN job'[t] ELSE job[u]
    BY <1>0, <1>1 DEF Typed
  <1>7. job'[t] = "done" /\ res'[t] = st /\ \A u \in Tasks : u # t => res'[u] = res[u]
    BY <1>0, <1>1, <1>9 DEF Typed
  <1>2. Todo' = Todo /\ Batch' = Batch /\ Rest' = Rest /\ Wave' = Wave /\ ResultTasks' = ResultTasks /\ (FailedResult' <=> FailedResult) /\ BatchLimit' = BatchLimit
    BY <1>1 DEF Todo, Batch, Rest, Wave, BatchLimit, ResultTasks, FailedResult
  <1>3. /\ Ordered' /\ (\A u : Told("task_started", u)' <=> Told("task_started", u))
        /\ (\A u : Told("task_completed", u)' <=> Told("task_completed", u))
    <2> DEFINE e == Ev("token", t)
    <2>1. e \in EventSet /\ e.type = "token" /\ e.task = t
      BY DEF Ev, EventSet, TaskEvents
    <2>2. Ordered
      BY <1>0 DEF Stream
    <2>3. ~Told("task_completed", t)
      BY <1>0, <1>5 DEF Stream
    <2>4. events' = Emit(on, e)
      BY <1>9
    <2> HIDE DEF e
    <2>5. Ordered' /\ \A type, u : Told(type, u)' <=> Told(type, u) \/ (on /\ e.type = type /\ e.task = u)
      BY <2>1, <2>2, <2>3, <2>4, TellOne
    <2> QED BY <2>1, <2>5
  <1>10. Typed'
    BY <1>0, <1>1, <1>2, <1>9 DEF Typed, Places, JobStates
  <1>11. Lists'
    BY <1>0, <1>1, <1>2 DEF Lists
  <1>12. Reports'
    BY <1>0, <1>1, <1>2, <1>5, <1>7, <1>t DEF Reports, ResultTasks
  <1>13. Phases'
    BY <1>0, <1>1, <1>2, <1>5 DEF Phases
  <1>14. Counts'
    BY <1>0, <1>1, <1>2 DEF Counts
  <1>15. Where'
    BY <1>0, <1>1, <1>2, <1>t, <1>5, <1>6, <1>7 DEF Where, Dropped
  <1>16. Waves'
    BY <1>0, <1>1, <1>2, <1>t, <1>5, <1>6, <1>7 DEF Waves, Typed
  <1>17. Left'
    BY <1>0, <1>1, <1>2, <1>t, <1>5 DEF Left, Stranded
  <1>18. Over'
    BY <1>0, <1>1, <1>2, <1>5 DEF Over
  <1>19. Stream'
    BY <1>0, <1>1, <1>2, <1>t, <1>3, <1>5, <1>6, <1>7 DEF Stream
  <1> QED BY <1>10, <1>11, <1>12, <1>13, <1>14, <1>15, <1>16, <1>17, <1>18, <1>19 DEF RunInv

-----------------------------------------------------------------------------
(* The invariant.                                                          *)

LEMMA RunStart == Init => RunInv
  <1> SUFFICES ASSUME Init PROVE RunInv
    OBVIOUS
  <1>0. /\ pc = "begin" /\ todo = <<>> /\ batch = <<>> /\ remaining = <<>> /\ wave = <<>> /\ results = <<>> /\ events = <<>>
        /\ audited = <<>> /\ kind \in Kinds /\ deps \in Graphs \cup {NoDeps} /\ spawned = 0 /\ completed = {} /\ ~anyFailed
        /\ job = [t \in Tasks |-> "none"] /\ res = [t \in Tasks |-> "none"] /\ tstat = [t \in Tasks |-> "pending"]
        /\ ~cancelled /\ ~expired /\ ~timedOut /\ gauge = 0 /\ counted = {} /\ outcome = "none"
    BY DEF Init
  <1>1. Typed
    <2>1. /\ anyFailed \in BOOLEAN /\ cancelled \in BOOLEAN /\ expired \in BOOLEAN
          /\ timedOut \in BOOLEAN /\ watched \in BOOLEAN /\ wants \in BOOLEAN
      BY DEF Init
    <2> QED BY <1>0, <2>1, NAssumption DEF Typed, Places, JobStates, Statuses
  <1>2. Lists
    BY <1>0, EmptyList DEF Lists
  <1>3. Reports
    BY <1>0 DEF Reports
  <1>4. Phases
    BY <1>0 DEF Phases
  <1>5. Todo = {} /\ Batch = {} /\ Rest = {} /\ Wave = {} /\ ResultTasks = {} /\ ~FailedResult
    BY <1>0, <1>4, AtFirst
  <1>6. Counts
    BY <1>0 DEF Counts
  <1>7. Where
    BY <1>0, <1>5 DEF Where
  <1>8. Waves
    BY <1>0, <1>5 DEF Waves
  <1>9. Left /\ Over
    BY <1>0 DEF Left, Over
  <1>10. Stream
    BY <1>0, <1>5 DEF Stream, Ordered, Sent, Before, Told
  <1> QED BY <1>1, <1>2, <1>3, <1>4, <1>6, <1>7, <1>8, <1>9, <1>10 DEF RunInv

LEMMA StutterStep ==
  ASSUME RunInv, UNCHANGED vars
  PROVE  RunInv'
  <1>0. /\ Typed /\ Lists /\ Reports /\ Phases /\ Counts /\ Where /\ Waves /\ Left /\ Over /\ Stream
    BY DEF RunInv
  <1>1. UNCHANGED <<kind, deps, pc, todo, batch, spawned, remaining, wave, completed, anyFailed, job, res, tstat, results,
                    cancelled, expired, timedOut, watched, wants, events, audited, gauge, counted, outcome>>
    BY DEF vars
  <1>2. /\ Todo' = Todo /\ Batch' = Batch /\ Rest' = Rest /\ Wave' = Wave /\ ResultTasks' = ResultTasks
        /\ (FailedResult' <=> FailedResult) /\ BatchLimit' = BatchLimit
    BY <1>1 DEF Todo, Batch, Rest, Wave, BatchLimit, ResultTasks, FailedResult
  <1>3. Ordered' /\ \A type, t : Told(type, t)' <=> Told(type, t)
    BY <1>0, <1>1 DEF Stream, Ordered, Told, Sent, Before
  <1>4. Typed' /\ Lists' /\ Reports' /\ Counts'
    BY <1>0, <1>1, <1>2 DEF Typed, Places, Lists, Reports, Counts
  <1>5. Phases'
    BY <1>0, <1>1 DEF Phases
  <1>6. Where'
    BY <1>0, <1>1, <1>2 DEF Where, Dropped
  <1>7. Waves'
    BY <1>0, <1>1, <1>2 DEF Waves
  <1>8. Left'
    BY <1>0, <1>1, <1>2 DEF Left, Stranded
  <1>9. Over'
    BY <1>0, <1>1, <1>2 DEF Over, CompletedMeansAll, FailureHasCause, ShortRunExplained, TimeoutOutranks, ErrorMeansBadSpec,
                            RanIsCounted, SortedOrders
  <1>10. Stream'
    BY <1>0, <1>1, <1>2, <1>3 DEF Stream
  <1> QED BY <1>4, <1>5, <1>6, <1>7, <1>8, <1>9, <1>10 DEF RunInv

LEMMA RunStep == RunInv /\ [Next]_vars => RunInv'
  <1> SUFFICES ASSUME RunInv, [Next]_vars PROVE RunInv'
    OBVIOUS
  <1>1. CASE UNCHANGED vars
    BY <1>1, StutterStep
  <1>2. CASE SeqHead
    BY <1>2, SeqStopStep, SeqTakeStep
  <1>3. CASE BatchHead
    BY <1>3, WaveStopStep, BatchOpenStep
  <1>4. CASE DagHead
    BY <1>4, DagStopStep, DagStrandedStep, DagDeadlockStep, NextWaveStep
  <1>5. CASE Begin \/ RunSequential \/ RunParallel \/ RunDag \/ RefuseCycle \/ SeqReport
    BY <1>5, BeginStep, RunSequentialStep, RunParallelStep, RunDagStep, RefuseCycleStep, SeqReportStep
  <1>6. CASE Dispatch \/ InlineDone \/ BatchSent \/ Join \/ BatchJoined \/ WaveOver \/ End
    BY <1>6, DispatchStep, InlineDoneStep, BatchSentStep, JoinStep, BatchJoinedStep, WaveOverStep, EndStep
  <1>7. CASE \E t \in Tasks : WorkerStep(t)
    <2>1. PICK t \in Tasks : WorkerStep(t)
      BY <1>7
    <2>2. CASE WorkerStart(t)
      BY <2>2, WorkerSkipStep, WorkerGoStep
    <2> QED BY <2>1, <2>2, TaskHaltsStep, TaskFinishesStep DEF WorkerStep
  <1>8. CASE Cancel \/ Expire \/ Watch \/ Returned
    BY <1>8, CancelStep, ExpireStep, WatchStep, StutterStep DEF Returned
  <1> QED BY <1>1, <1>2, <1>3, <1>4, <1>5, <1>6, <1>7, <1>8 DEF Next, RunnerStep

LEMMA RunAlways == Spec => []RunInv
  BY RunStart, RunStep, PTL DEF Spec
-----------------------------------------------------------------------------
(* What it gives.                                                          *)

\* The workers at work are in the batch, which holds no more than were dispatched; a
\* sequential run has one task at a time, and no limit of its own.
LEMMA WithinLimit ==
  ASSUME RunInv
  PROVE  AtMostLimit
  <1> DEFINE A == {t \in Tasks : job[t] \in Alive}
  <1>0. /\ Typed /\ Lists /\ Reports /\ Phases /\ Counts /\ Where
    BY DEF RunInv
  <1>1. A \subseteq Batch /\ A \subseteq Tasks /\ (A # {} => pc \in {"seqTask", "dispatch", "inline", "join"})
    BY <1>0, AtWork
  <1>2. IsFiniteSet(Tasks) /\ Cardinality(Tasks) = N
    BY FS_Interval, NAssumption DEF Tasks
  <1>3. IsFiniteSet(A) /\ Cardinality(A) <= N /\ Cardinality(A) \in Nat
    BY <1>1, <1>2, FS_Subset, FS_CardinalityType
  <1>4. BatchLimit = N \/ (kind = "parallel" /\ BatchLimit = Limit /\ Limit \in Nat)
    BY NAssumption DEF BatchLimit
  <1> HIDE DEF A
  <1>5. CASE A = {}
    <2>1. Cardinality(A) = 0
      BY <1>5, FS_EmptySet
    <2> QED BY <2>1, <1>4, NAssumption DEF AtMostLimit, A
  <1>6. CASE A # {} /\ kind = "parallel"
    <2>1. pc \in {"dispatch", "inline", "join"}
      BY <1>0, <1>1, <1>6 DEF Phases, Seqs
    <2>2. Len(batch) \in Nat /\ batch \in [1..Len(batch) -> Tasks] /\ \A i, j \in 1..Len(batch) : i # j => batch[i] # batch[j]
      BY <1>0 DEF Lists, Distinct
    <2>3. IsFiniteSet(Batch) /\ Cardinality(Batch) = Len(batch)
      BY <2>2, Fits DEF Batch
    <2>4. Cardinality(A) <= Len(batch)
      BY <1>1, <2>3, FS_Subset
    <2>5. Len(batch) <= spawned /\ spawned <= BatchLimit /\ spawned \in Nat
      <3>1. pc \in {"dispatch", "inline"} \/ pc = "join"
        BY <2>1
      <3>2. spawned \in Nat
        BY <1>0, NAssumption DEF Typed
      <3>3. spawned = Len(batch) \/ Len(batch) <= spawned
        BY <1>0, <3>1 DEF Counts
      <3>4. spawned <= BatchLimit
        BY <1>0, <2>1 DEF Counts
      <3>5. Len(batch) \in Nat
        BY <2>2
      <3> QED BY <3>2, <3>3, <3>4, <3>5
    <2> QED BY <1>3, <1>4, <2>2, <2>4, <2>5, NAssumption DEF AtMostLimit, A
  <1>7. CASE kind # "parallel"
    BY <1>3, <1>4, <1>7 DEF AtMostLimit, A
  <1> QED BY <1>5, <1>6, <1>7

LEMMA InvRunner == RunInv => RunnerSound
  <1> SUFFICES ASSUME RunInv PROVE RunnerSound
    OBVIOUS
  <1>0. /\ Typed /\ Lists /\ Reports /\ Phases /\ Where /\ Waves
    BY DEF RunInv
  <1>1. TypeOK
    <2>1. gauge \in 0..1
      BY <1>0 DEF Phases
    <2>2. results \in Seq([task : Tasks, status : {"completed", "failed"}])
      BY <1>0 DEF Reports, Results
    <2> QED BY <1>0, <2>1, <2>2 DEF TypeOK, Typed, Lists
  <1>2. NoWorkerLeft
    <2> SUFFICES ASSUME pc \in {"batchHead", "waveOver", "dagHead", "end", "over"}, NEW t \in Tasks, job[t] \in Alive
                 PROVE  FALSE
      BY DEF NoWorkerLeft
    <2> QED BY <1>0, AtWork
  <1>3. DepsRespected
    <2> SUFFICES ASSUME kind = "dag", NEW t \in Tasks, job[t] # "none", NEW d \in deps[t]
                 PROVE  d \in Tasks /\ res[d] = "completed"
      BY DEF DepsRespected
    <2>1. d \in completed
      BY <1>0 DEF Waves
    <2> QED BY <1>0, <2>1 DEF Waves, Typed
  <1> QED BY <1>1, <1>2, <1>3, WithinLimit DEF RunnerSound, WorkersContained

LEMMA InvOutcome == RunInv => OutcomeExact
  <1> SUFFICES ASSUME RunInv PROVE OutcomeExact
    OBVIOUS
  <1>0. Phases /\ Over
    BY DEF RunInv
  <1>1. GaugeBalanced
    BY <1>0 DEF Phases, GaugeBalanced
  <1>2. CASE pc = "over"
    BY <1>0, <1>1, <1>2 DEF Over, OutcomeExact
  <1>3. CASE pc # "over"
    <2>1. outcome = "none"
      BY <1>0, <1>3 DEF Phases
    <2> QED BY <1>1, <1>3, <2>1 DEF OutcomeExact, CompletedMeansAll, FailureHasCause, ShortRunExplained, TimeoutOutranks,
                                    ErrorMeansBadSpec, RanIsCounted
  <1> QED BY <1>2, <1>3

LEMMA InvStream == RunInv => StreamPairs
  <1> SUFFICES ASSUME RunInv PROVE StreamPairs
    OBVIOUS
  <1>0. Phases /\ Stream
    BY DEF RunInv
  <1>1. ASSUME pc \in {"end", "over"}, NEW i \in Sent("task_started")
        PROVE  \E j \in Sent("task_completed") : events[j].task = events[i].task
    <2>1. Batch = {}
      BY <1>0, <1>1, NoBatch
    <2>2. i \in DOMAIN events /\ events[i].type = "task_started"
      BY DEF Sent
    <2>3. events[i] \in EventSet
      BY <1>0, <2>2 DEF Stream, Ordered
    <2>4. events[i].task \in Tasks
      BY <2>2, <2>3 DEF EventSet
    <2>5. Told("task_completed", events[i].task)
      BY <1>0, <2>1, <2>2, <2>4 DEF Stream, Told
    <2> QED BY <2>5 DEF Told, Sent
  <1> QED BY <1>0, <1>1 DEF Stream, Ordered, StreamPairs

\* A cancelled run starts no work: only SeqHead and WorkerStart do, and both ask first.
LEMMA NoneBegins ==
  ASSUME Typed, [Next]_vars, cancelled, NEW t \in Tasks, job'[t] = "working"
  PROVE  job[t] = "working"
  <1>0. job \in [Tasks -> JobStates]
    BY DEF Typed
  <1>1. CASE job' = job
    BY <1>1
  <1>2. CASE SeqHead
    BY <1>2 DEF SeqHead, Stopped
  <1>3. CASE Dispatch
    <2>1. \E u \in {"spawned", "inline"} : job' = [job EXCEPT ![Head(todo)] = u]
      BY <1>3 DEF Dispatch
    <2> QED BY <1>0, <2>1
  <1>4. CASE \E u \in Tasks : WorkerStep(u)
    <2>1. PICK u \in Tasks : WorkerStep(u)
      BY <1>4
    <2>2. \E w \in {"done", "stopped"} : job' = [job EXCEPT ![u] = w]
      BY <2>1 DEF WorkerStep, WorkerStart, TaskHalts, TaskFinishes, Skipped
    <2> QED BY <1>0, <2>2
  <1>5. CASE UNCHANGED vars
    BY <1>5 DEF vars
  <1>6. CASE Begin \/ RunSequential \/ RunParallel \/ RunDag \/ RefuseCycle \/ SeqReport \/ BatchHead \/ InlineDone \/ BatchSent
               \/ Join \/ BatchJoined \/ DagHead \/ WaveOver \/ End \/ Cancel \/ Expire \/ Watch \/ Returned
    BY <1>6 DEF Begin, RunSequential, RunParallel, RunDag, RefuseCycle, SeqReport, BatchHead, InlineDone, BatchSent, Join,
                BatchJoined, DagHead, WaveOver, End, Cancel, Expire, Watch, Returned, jobVars, vars
  <1> QED BY <1>2, <1>3, <1>4, <1>5, <1>6 DEF Next, RunnerStep
-----------------------------------------------------------------------------
\* For every spec, limit and interleaving: no more workers of a wave are alive than its
\* limit, none outlives the wave, and a DAG task is dispatched only after each of its
\* dependencies has completed.  (_agnosai_crew_run_wave, _agnosai_crew_run_dag)
THEOREM RunnerIsSound == Spec => []RunnerSound
  BY RunAlways, InvRunner, PTL

\* What agnosai_crew_runner_run returns is what happened: COMPLETED only with every task
\* completed and listed once, FAILED only with a cause, a task left undone only with one,
\* the timeout above the cancel, the error only for a spec that is wrong, and the gauge and
\* the counters closed on every exit.
THEOREM OutcomesAreExact == Spec => []OutcomeExact
  BY RunAlways, InvOutcome, PTL

\* However clients come and go, a task_completed follows its task_started, no token trails
\* it, and a run that ends leaves no task_started without its task_completed.
THEOREM StreamIsPaired == Spec => []StreamPairs
  BY RunAlways, InvStream, PTL

\* After a cancel no task begins: not the next of a sequential run, and not one a worker
\* thread was already made for.  (the heads of _agnosai_crew_run_sequential and
\* _agnosai_crew_worker)
THEOREM CancelHolds == Spec => CancelStops
  <1>1. RunInv /\ [Next]_vars => [cancelled => \A t \in Tasks : job'[t] = "working" => job[t] = "working"]_vars
    BY NoneBegins DEF RunInv
  <1> QED BY <1>1, RunAlways, PTL DEF Spec, CancelStops
=============================================================================
