------------------------- MODULE ApprovalGateProofs -------------------------
(***************************************************************************)
(* Theorems about ApprovalGate for every set of tasks, every number of     *)
(* requests and every capacity.                                            *)
(*                                                                         *)
(* None of the gate's promises is inductive by itself: they rest on what a *)
(* channel holds (SlotIsTold), on requests being made in order (so that a  *)
(* newer one is a larger number) and on who is registered.                 *)
(***************************************************************************)
EXTENDS ApprovalGate, FiniteSetTheorems, SequenceTheorems, TLAPS

\* A request that has been made knows its task, and requests are made in order.
RequestsMade ==
    \A c \in Requests :
        /\ at[c] # "unmade" => task[c] \in Tasks
        /\ at[c] = "unmade" =>
             /\ told[c] = Unset /\ slot[c] = 0
             /\ \A d \in Requests : d > c => at[d] = "unmade"

\* A channel holds the decision its reviewer was told of, and keeps it until
\* its waiter takes it.
SlotIsTold ==
    \A c \in Requests :
        /\ slot[c] # 0 => told[c] # Unset /\ slot[c] = told[c] + 1
        /\ Waiting(c) /\ told[c] # Unset => slot[c] = told[c] + 1

\* A waiter that has a decision, or that has seen its place gone, is not
\* registered, and never will be again.
DecidedIsOut ==
    \A c \in Requests : at[c] = "last" \/ told[c] # Unset =>
        \A t \in Tasks : pending[t] # c

\* The pending tasks are finitely many, and no more than the limit.
Capacity == IsFiniteSet(PendingTasks) /\ PendingBounded

\* Only a waiter whose deadline has passed takes the timeout arm.
ExpiresLate ==
    \A c \in Requests : at[c] = "expire" => late[c]

IndInv ==
    /\ TypeOK /\ RequestsMade /\ SlotIsTold /\ PendingIsAwaited /\ DecidedIsOut
    /\ FailsClosed /\ MirrorExact /\ Capacity /\ RegistrationKept
    /\ ExpiresLate /\ DecisionStands

Distinct(s) == \A i, j \in DOMAIN s : i # j => s[i] # s[j]

\* _agnosai_approval_forget drops the task from the mirror, and only that.
LEMMA ForgetLemma ==
    ASSUME keys \in Seq(Tasks), Distinct(keys), NEW t \in Tasks
    PROVE  /\ Forget(t) \in Seq(Tasks)
           /\ Range(Forget(t)) = Range(keys) \ {t}
           /\ Distinct(Forget(t))
<1>1. CASE ~\E i \in 1..Len(keys) : keys[i] = t
  <2>1. Forget(t) = keys
    BY <1>1 DEF Forget, RemoveFirst
  <2>2. t \notin Range(keys)
    BY <1>1 DEF Range
  <2> QED BY <2>1, <2>2
<1>2. CASE \E i \in 1..Len(keys) : keys[i] = t
  <2>1. PICK i \in 1..Len(keys) : keys[i] = t
    BY <1>2
  <2> DEFINE I == {j \in 1..Len(keys) : keys[j] = t}
  <2>2. I = {i}
    BY <2>1 DEF Distinct
  <2>3. Min(I) = i
    BY <2>2 DEF Min
  <2>4. SelectInSeq(keys, LAMBDA v : v = t) = i
    BY <2>2, <2>3 DEF SelectInSeq
  <2>5. Forget(t) = RemoveAt(keys, i)
    BY <1>2, <2>4 DEF Forget, RemoveFirst
  <2> DEFINE a == SubSeq(keys, 1, i - 1)
             b == SubSeq(keys, i + 1, Len(keys))
             g == a \o b
  <2>a. a \in Seq(Tasks) /\ Len(a) = i - 1 /\ \A j \in 1..(i - 1) : a[j] = keys[j]
    BY <2>1, SubSeqProperties
  <2>b. b \in Seq(Tasks) /\ Len(b) = Len(keys) - i
        /\ \A j \in 1..(Len(keys) - i) : b[j] = keys[i + j]
    BY <2>1, SubSeqProperties
  <2>6. g \in Seq(Tasks) /\ Len(g) = Len(keys) - 1
        /\ \A j \in 1..Len(g) : g[j] = IF j < i THEN keys[j] ELSE keys[j + 1]
    <3> HIDE DEF a, b
    <3>1. g \in Seq(Tasks) /\ Len(g) = Len(keys) - 1
      BY <2>1, <2>a, <2>b, ConcatProperties
    <3>2. \A j \in 1..(Len(a) + Len(b)) :
            g[j] = IF j <= Len(a) THEN a[j] ELSE b[j - Len(a)]
      BY <2>a, <2>b, ConcatProperties
    <3> HIDE DEF g
    <3>3. SUFFICES ASSUME NEW j \in 1..(Len(keys) - 1)
                   PROVE  g[j] = IF j < i THEN keys[j] ELSE keys[j + 1]
      BY <3>1
    <3>4. CASE j < i
      <4>1. j <= Len(a) /\ j \in 1..(Len(a) + Len(b))
        BY <2>1, <2>a, <2>b, <3>4
      <4>2. g[j] = a[j]
        BY <3>2, <4>1
      <4> QED BY <2>1, <2>a, <3>4, <4>2
    <3>5. CASE ~(j < i)
      <4>1. ~(j <= Len(a)) /\ j \in 1..(Len(a) + Len(b))
            /\ j - Len(a) \in 1..(Len(keys) - i) /\ i + (j - Len(a)) = j + 1
        BY <2>1, <2>a, <2>b, <3>5
      <4>2. g[j] = b[j - Len(a)]
        BY <3>2, <4>1
      <4>3. b[j - Len(a)] = keys[i + (j - Len(a))]
        BY <2>b, <4>1
      <4> QED BY <3>5, <4>1, <4>2, <4>3
    <3> QED BY <3>4, <3>5
  <2>c. Forget(t) = g
    BY <2>5 DEF RemoveAt
  <2> HIDE DEF g, a, b
  <2>7. Range(g) = Range(keys) \ {t}
    <3>1. ASSUME NEW j \in DOMAIN keys, keys[j] # t
          PROVE  keys[j] \in Range(g)
      <4>1. CASE j < i
        BY <2>1, <2>6, <3>1, <4>1 DEF Range
      <4>2. CASE j > i
        <5>1. j - 1 \in DOMAIN g /\ g[j - 1] = keys[j]
          BY <2>1, <2>6, <3>1, <4>2
        <5> QED BY <5>1 DEF Range
      <4> QED BY <2>1, <3>1, <4>1, <4>2
    <3>2. ASSUME NEW j \in DOMAIN g
          PROVE  g[j] \in Range(keys) \ {t}
      BY <2>1, <2>6, <3>2, SMTT(40) DEF Range, Distinct
    <3> QED BY <3>1, <3>2 DEF Range
  <2>8. Distinct(g)
    <3> SUFFICES ASSUME NEW j \in DOMAIN g, NEW k \in DOMAIN g, j # k
                 PROVE  g[j] # g[k]
      BY DEF Distinct
    <3> DEFINE up(n) == IF n < i THEN n ELSE n + 1
    <3>1. up(j) \in DOMAIN keys /\ up(k) \in DOMAIN keys /\ up(j) # up(k)
      BY <2>1, <2>6
    <3>2. g[j] = keys[up(j)] /\ g[k] = keys[up(k)]
      BY <2>6
    <3> HIDE DEF up
    <3> QED BY <3>1, <3>2 DEF Distinct
  <2> QED BY <2>c, <2>6, <2>7, <2>8
<1> QED BY <1>1, <1>2

\* Taking tasks away keeps the gate within its limit.
LEMMA FewerPending ==
    ASSUME Capacity, PendingTasks' \subseteq PendingTasks
    PROVE  Capacity'
<1>1. IsFiniteSet(PendingTasks') /\ Cardinality(PendingTasks') <= Cardinality(PendingTasks)
  BY FS_Subset DEF Capacity
<1>2. Cardinality(PendingTasks) \in Nat /\ Cardinality(PendingTasks') \in Nat
  BY <1>1, FS_CardinalityType DEF Capacity
<1> QED BY <1>1, <1>2, BoundsAssumption DEF Capacity, PendingBounded

\* Unregistering a task keeps the mirror exact and the gate within its limit.
LEMMA Unregister ==
    ASSUME TypeOK, MirrorExact, Capacity, NEW t \in Tasks,
           pending' = [pending EXCEPT ![t] = 0], keys' = Forget(t)
    PROVE  /\ pending' \in [Tasks -> Requests \cup {0}]
           /\ keys' \in Seq(Tasks) /\ MirrorExact' /\ Capacity'
<1>1. /\ Forget(t) \in Seq(Tasks)
      /\ Range(Forget(t)) = Range(keys) \ {t}
      /\ Distinct(Forget(t))
  BY ForgetLemma DEF TypeOK, MirrorExact, Distinct
<1>2. pending' \in [Tasks -> Requests \cup {0}]
  BY DEF TypeOK
<1>3. PendingTasks' = PendingTasks \ {t}
  BY DEF PendingTasks, TypeOK
<1>4. MirrorExact'
  BY <1>1, <1>3 DEF MirrorExact, Distinct
<1>5. Capacity'
  BY <1>3, FewerPending
<1> QED BY <1>1, <1>2, <1>4, <1>5

\* A gate starts with nobody waiting.
LEMMA InitHolds == Init => IndInv
<1> SUFFICES ASSUME Init PROVE IndInv
  OBVIOUS
<1> USE BoundsAssumption, NoneAssumption
    DEF Init, Requests, Decisions, REJECTED, APPROVED, Unset
<1>1. TypeOK
  BY DEF TypeOK
<1>2. /\ RequestsMade /\ SlotIsTold /\ PendingIsAwaited /\ DecidedIsOut
      /\ FailsClosed /\ RegistrationKept
  BY DEF RequestsMade, DecidedIsOut, SlotIsTold, PendingIsAwaited, FailsClosed,
     RegistrationKept, Waiting
<1>3. MirrorExact
  BY DEF MirrorExact, PendingTasks, Range
<1>4. Capacity
  <2>1. PendingTasks = {}
    BY DEF PendingTasks
  <2> QED BY <2>1, FS_EmptySet DEF Capacity, PendingBounded
<1>5. ExpiresLate /\ DecisionStands
  BY DEF ExpiresLate, DecisionStands
<1> QED BY <1>1, <1>2, <1>3, <1>4, <1>5 DEF IndInv

\* The inductive invariant is preserved by every step of the gate, its
\* reviewers and its waiters.
THEOREM Inductive == IndInv /\ [Next]_vars => IndInv'
<1> SUFFICES ASSUME IndInv, [Next]_vars PROVE IndInv'
  OBVIOUS
<1> USE BoundsAssumption, NoneAssumption
    DEF Requests, Decisions, REJECTED, APPROVED, Unset
<1>0. /\ TypeOK /\ RequestsMade /\ SlotIsTold /\ PendingIsAwaited
      /\ DecidedIsOut /\ FailsClosed /\ MirrorExact /\ Capacity /\ RegistrationKept /\ ExpiresLate
      /\ DecisionStands
  BY DEF IndInv
<1>1. ASSUME NEW c \in Requests, NEW t \in Tasks, Request(c, t)
      PROVE  IndInv'
  <2>1. TypeOK'
    <3>1. keys' \in Seq(Tasks)
      <4>1. keys \in Seq(Tasks) /\ Append(keys, t) \in Seq(Tasks)
        BY <1>0 DEF TypeOK
      <4>2. keys' \in {keys, Append(keys, t)}
        BY <1>1 DEF Request, KeysWith, gate
      <4> QED BY <4>1, <4>2
    <3>2. pending' \in [Tasks -> Requests \cup {0}]
      BY <1>0, <1>1 DEF Request, gate, TypeOK
    <3> QED BY <1>0, <1>1, <3>1, <3>2 DEF Request, TypeOK
  <2>2. RequestsMade'
    <3>1. CASE AtCapacity
      BY <1>0, <1>1, <3>1 DEF Request, gate, TypeOK, RequestsMade
    <3>2. CASE ~AtCapacity
      BY <1>0, <1>1, <3>2 DEF Request, KeysWith, TypeOK, RequestsMade
    <3> QED BY <3>1, <3>2
  <2>3. SlotIsTold'
    <3>1. CASE AtCapacity
      BY <1>0, <1>1, <3>1 DEF Request, gate, TypeOK, RequestsMade, SlotIsTold,
         PendingIsAwaited, Waiting
    <3>2. CASE ~AtCapacity
      BY <1>0, <1>1, <3>2 DEF Request, KeysWith, TypeOK, RequestsMade, SlotIsTold,
         PendingIsAwaited, Waiting
    <3> QED BY <3>1, <3>2
  <2>4. PendingIsAwaited'
    <3>1. CASE AtCapacity
      BY <1>0, <1>1, <3>1 DEF Request, gate, TypeOK, RequestsMade, SlotIsTold,
         DecidedIsOut, PendingIsAwaited, Waiting
    <3>2. CASE ~AtCapacity
      BY <1>0, <1>1, <3>2, SMTT(40) DEF Request, KeysWith, TypeOK, RequestsMade, SlotIsTold,
         DecidedIsOut, PendingIsAwaited, Waiting
    <3> QED BY <3>1, <3>2
  <2>5. DecidedIsOut'
    <3>1. CASE AtCapacity
      BY <1>0, <1>1, <3>1 DEF Request, gate, TypeOK, RequestsMade, DecidedIsOut,
         PendingIsAwaited, Waiting
    <3>2. CASE ~AtCapacity
      BY <1>0, <1>1, <3>2 DEF Request, KeysWith, TypeOK, RequestsMade, DecidedIsOut,
         PendingIsAwaited, Waiting
    <3> QED BY <3>1, <3>2
  <2>6. FailsClosed'
    <3>1. CASE AtCapacity
      BY <1>0, <1>1, <3>1 DEF Request, gate, TypeOK, SlotIsTold, FailsClosed,
         PendingIsAwaited, Waiting, RequestsMade
    <3>2. CASE ~AtCapacity
      BY <1>0, <1>1, <3>2 DEF Request, KeysWith, TypeOK, SlotIsTold, FailsClosed,
         PendingIsAwaited, Waiting, RequestsMade
    <3> QED BY <3>1, <3>2
  <2>7. MirrorExact'
    <3>1. CASE AtCapacity
      BY <1>0, <1>1, <3>1 DEF Request, gate, MirrorExact, PendingTasks
    <3>2. CASE ~AtCapacity /\ pending[t] # 0
      <4>1. keys' = keys /\ PendingTasks' = PendingTasks
        BY <1>0, <1>1, <3>2 DEF Request, KeysWith, PendingTasks, TypeOK
      <4> QED BY <1>0, <4>1 DEF MirrorExact
    <3>3. CASE ~AtCapacity /\ pending[t] = 0
      <4>1. keys' = Append(keys, t) /\ PendingTasks' = PendingTasks \cup {t}
        BY <1>0, <1>1, <3>3 DEF Request, KeysWith, PendingTasks, TypeOK
      <4>2. keys \in Seq(Tasks) /\ t \notin Range(keys)
        BY <1>0, <3>3 DEF TypeOK, MirrorExact, PendingTasks
      <4>3. /\ DOMAIN keys' = 1..(Len(keys) + 1)
            /\ \A i \in 1..Len(keys) : keys'[i] = keys[i]
            /\ keys'[Len(keys) + 1] = t
        BY <4>1, <4>2
      <4>4. Range(keys') = Range(keys) \cup {t}
        BY <4>2, <4>3 DEF Range
      <4>5. Distinct(keys')
        BY <1>0, <4>2, <4>3 DEF MirrorExact, Distinct, Range
      <4> QED BY <1>0, <4>1, <4>4, <4>5 DEF MirrorExact, Distinct
    <3> QED BY <3>1, <3>2, <3>3
  <2>8. Capacity'
    <3>1. CASE AtCapacity
      BY <1>0, <1>1, <3>1 DEF Request, gate, Capacity, PendingBounded, PendingTasks
    <3>2. CASE ~AtCapacity
      <4>1. PendingTasks' = PendingTasks \cup {t}
        BY <1>0, <1>1, <3>2 DEF Request, PendingTasks, TypeOK
      <4>2. Cardinality(PendingTasks) \in Nat
        BY <1>0, FS_CardinalityType DEF Capacity
      <4>3. /\ IsFiniteSet(PendingTasks \cup {t})
            /\ Cardinality(PendingTasks \cup {t}) <= Cardinality(PendingTasks) + 1
        BY <1>0, <4>2, FS_AddElement, SMTT(40) DEF Capacity
      <4> QED BY <3>2, <4>1, <4>2, <4>3, FS_CardinalityType
              DEF AtCapacity, Capacity, PendingBounded
    <3> QED BY <3>1, <3>2
  <2>9. RegistrationKept'
    <3> SUFFICES ASSUME NEW b \in Requests, Waiting(b)'
                 PROVE  \/ pending'[task'[b]] = b \/ told'[b] # Unset
                        \/ b \in closing' \cup closed'
                        \/ \E d \in Requests : /\ d > b /\ task'[d] = task'[b]
                                               /\ at'[d] \notin {"unmade", "refused"}
      BY DEF RegistrationKept, Waiting
    <3>1. CASE b = c
      BY <1>0, <1>1, <3>1 DEF Request, TypeOK, Waiting
    <3>2. CASE b # c
      <4>1. /\ Waiting(b) /\ at'[b] = at[b] /\ task'[b] = task[b] /\ task[b] \in Tasks
            /\ b < c
        BY <1>0, <1>1, <3>2 DEF Request, TypeOK, Waiting, RequestsMade
      <4>2. UNCHANGED <<told, closing, closed>>
        BY <1>1 DEF Request
      <4>3. CASE pending[task[b]] = b
        <5>1. CASE AtCapacity \/ task[b] # t
          BY <1>0, <1>1, <4>1, <4>3, <5>1 DEF Request, gate, TypeOK
        <5>2. CASE ~AtCapacity /\ task[b] = t
          <6>1. c > b /\ task'[c] = task'[b] /\ at'[c] = "poll"
            BY <1>0, <1>1, <4>1, <5>2 DEF Request, TypeOK
          <6> QED BY <6>1
        <5> QED BY <5>1, <5>2
      <4>4. ASSUME NEW d \in Requests, d > b, task[d] = task[b],
                   at[d] \notin {"unmade", "refused"}
            PROVE  task'[d] = task'[b] /\ at'[d] \notin {"unmade", "refused"}
        BY <1>0, <1>1, <4>1, <4>4 DEF Request, TypeOK
      <4> QED BY <1>0, <4>1, <4>2, <4>3, <4>4 DEF RegistrationKept
    <3> QED BY <3>1, <3>2
  <2>10. ExpiresLate'
    <3>1. CASE AtCapacity
      BY <1>0, <1>1, <3>1 DEF Request, gate, TypeOK, ExpiresLate
    <3>2. CASE ~AtCapacity
      BY <1>0, <1>1, <3>2 DEF Request, KeysWith, TypeOK, ExpiresLate
    <3> QED BY <3>1, <3>2
  <2>11. DecisionStands'
    <3>1. CASE AtCapacity
      BY <1>0, <1>1, <3>1 DEF Request, gate, TypeOK, SlotIsTold, PendingIsAwaited,
         DecisionStands, ExpiresLate, Waiting
    <3>2. CASE ~AtCapacity
      BY <1>0, <1>1, <3>2 DEF Request, KeysWith, TypeOK, SlotIsTold, PendingIsAwaited,
         DecisionStands, ExpiresLate, Waiting
    <3> QED BY <3>1, <3>2
  <2> QED BY <2>1, <2>2, <2>3, <2>4, <2>5, <2>6, <2>7, <2>8, <2>9, <2>10, <2>11 DEF IndInv
<1>2. ASSUME NEW t \in Tasks, NEW d \in Decisions, SubmitDecision(t, d)
      PROVE  IndInv'
  <2>1. /\ pending' = [pending EXCEPT ![t] = 0] /\ keys' = Forget(t)
        /\ pending[t] \in Requests /\ pending[t] # 0
    BY <1>0, <1>2 DEF SubmitDecision, TypeOK
  <2>2. /\ pending' \in [Tasks -> Requests \cup {0}]
        /\ keys' \in Seq(Tasks) /\ MirrorExact' /\ Capacity'
    BY <1>0, <2>1, Unregister
  <2> DEFINE c == pending[t]
             Sent == slot[c] = 0 /\ c \notin closed
  <2>3. Waiting(c) /\ task[c] = t /\ told[c] = Unset /\ slot[c] = 0
    BY <1>0, <2>1 DEF PendingIsAwaited, DecidedIsOut, SlotIsTold
  <2>4. /\ UNCHANGED <<closed, task, at, late, verdict, closing>>
        /\ Sent => slot' = [slot EXCEPT ![c] = d + 1] /\ told' = [told EXCEPT ![c] = d]
        /\ ~Sent => UNCHANGED <<slot, told>>
    BY <1>2 DEF SubmitDecision
  <2>5. \A b \in Requests : b # c => slot'[b] = slot[b] /\ told'[b] = told[b]
    BY <1>0, <2>1, <2>4 DEF TypeOK
  <2>6. \/ slot'[c] = d + 1 /\ told'[c] = d
        \/ slot'[c] = 0 /\ told'[c] = Unset /\ c \in closed
    BY <1>0, <2>1, <2>3, <2>4 DEF TypeOK
  <2>7. \A b \in Tasks : pending'[b] = IF b = t THEN 0 ELSE pending[b]
    BY <1>0, <2>1 DEF TypeOK
  <2> HIDE DEF c, Sent
  <2>8. TypeOK'
    <3>1. /\ slot' \in [Requests -> 0..2]
          /\ told' \in [Requests -> Decisions \cup {Unset}]
      <4>1. CASE Sent
        <5>1. d + 1 \in 0..2
          OBVIOUS
        <5>2. slot' = [slot EXCEPT ![c] = d + 1] /\ told' = [told EXCEPT ![c] = d]
          BY <2>4, <4>1
        <5>3. slot' \in [Requests -> 0..2]
          BY <1>0, <5>1, <5>2 DEF TypeOK
        <5> QED BY <1>0, <5>2, <5>3 DEF TypeOK
      <4>2. CASE ~Sent
        BY <1>0, <2>4, <4>2 DEF TypeOK
      <4> QED BY <4>1, <4>2
    <3> QED BY <1>0, <2>2, <2>4, <3>1 DEF TypeOK
  <2>9. RequestsMade'
    <3>1. at[c] # "unmade"
      BY <2>3 DEF Waiting
    <3> QED BY <1>0, <2>4, <2>5, <3>1 DEF RequestsMade
  <2>10. SlotIsTold'
    <3>1. c \in Requests
      BY <2>1 DEF c
    <3>2. ASSUME NEW b \in Requests
          PROVE  /\ slot'[b] # 0 => told'[b] # Unset /\ slot'[b] = told'[b] + 1
                 /\ Waiting(b) /\ told'[b] # Unset => slot'[b] = told'[b] + 1
      <4>1. CASE b = c
        BY <2>6, <4>1
      <4>2. CASE b # c
        BY <1>0, <2>5, <4>2 DEF SlotIsTold
      <4> QED BY <4>1, <4>2
    <3> QED BY <2>4, <3>2 DEF SlotIsTold, Waiting
  <2>11. PendingIsAwaited'
    BY <1>0, <2>1, <2>2, <2>3, <2>4, <2>5, <2>6, <2>7 DEF c, TypeOK, RequestsMade,
       SlotIsTold, DecidedIsOut, PendingIsAwaited, Waiting
  <2>12. DecidedIsOut'
    BY <1>0, <2>1, <2>2, <2>3, <2>4, <2>5, <2>6, <2>7 DEF c, TypeOK, RequestsMade,
       DecidedIsOut, PendingIsAwaited, Waiting
  <2>13. FailsClosed'
    BY <1>0, <2>1, <2>2, <2>3, <2>4, <2>5, <2>6, <2>7 DEF c, TypeOK, SlotIsTold,
       FailsClosed, PendingIsAwaited, Waiting, RequestsMade
  <2>14. RegistrationKept'
    <3> SUFFICES ASSUME NEW b \in Requests, Waiting(b)
                 PROVE  \/ pending'[task[b]] = b \/ told'[b] # Unset
                        \/ b \in closing \cup closed
                        \/ \E e \in Requests : /\ e > b /\ task[e] = task[b]
                                               /\ at[e] \notin {"unmade", "refused"}
      BY <2>4 DEF RegistrationKept, Waiting
    <3>1. CASE b = c
      BY <2>6, <3>1
    <3>2. CASE b # c
      <4>1. pending[task[b]] = b => pending'[task[b]] = b
        BY <1>0, <2>7, <3>2 DEF c, RequestsMade, Waiting
      <4> QED BY <1>0, <2>5, <3>2, <4>1 DEF RegistrationKept
    <3> QED BY <3>1, <3>2
  <2>15. ExpiresLate'
    BY <1>0, <2>1, <2>2, <2>3, <2>4, <2>5, <2>6, <2>7 DEF c, TypeOK, ExpiresLate
  <2>16. DecisionStands'
    BY <1>0, <2>1, <2>2, <2>3, <2>4, <2>5, <2>6, <2>7 DEF c, TypeOK, SlotIsTold,
       PendingIsAwaited, DecisionStands, ExpiresLate, Waiting
  <2> QED BY <2>8, <2>9, <2>10, <2>11, <2>12, <2>13, <2>14, <2>15, <2>16, <2>2 DEF IndInv
<1>3. ASSUME NEW t \in Tasks, Cancel(t)
      PROVE  IndInv'
  <2>1. /\ pending' = [pending EXCEPT ![t] = 0] /\ keys' = Forget(t)
        /\ pending[t] \in Requests /\ pending[t] # 0
    BY <1>0, <1>3 DEF Cancel, TypeOK
  <2>2. /\ pending' \in [Tasks -> Requests \cup {0}]
        /\ keys' \in Seq(Tasks) /\ MirrorExact' /\ Capacity'
    BY <1>0, <2>1, Unregister
  <2>3. TypeOK'
    BY <1>0, <2>1, <2>2, <1>3 DEF Cancel, TypeOK, RequestsMade
  <2>4. RequestsMade'
    BY <1>0, <2>1, <2>2, <1>3 DEF Cancel, TypeOK, RequestsMade
  <2>5. SlotIsTold'
    BY <1>0, <2>1, <2>2, <1>3 DEF Cancel, TypeOK, RequestsMade, SlotIsTold,
       PendingIsAwaited, Waiting
  <2>6. PendingIsAwaited'
    BY <1>0, <2>1, <2>2, <1>3 DEF Cancel, TypeOK, RequestsMade, SlotIsTold, DecidedIsOut,
       PendingIsAwaited, Waiting
  <2>7. DecidedIsOut'
    BY <1>0, <2>1, <2>2, <1>3 DEF Cancel, TypeOK, RequestsMade, DecidedIsOut,
       PendingIsAwaited, Waiting
  <2>8. FailsClosed'
    BY <1>0, <2>1, <2>2, <1>3 DEF Cancel, TypeOK, SlotIsTold, FailsClosed,
       PendingIsAwaited, Waiting, RequestsMade
  <2>9. RegistrationKept'
    BY <1>0, <2>1, <2>2, <1>3 DEF Cancel, TypeOK, RequestsMade, SlotIsTold,
       PendingIsAwaited, RegistrationKept, Waiting
  <2>10. ExpiresLate'
    BY <1>0, <2>1, <2>2, <1>3 DEF Cancel, TypeOK, ExpiresLate
  <2>11. DecisionStands'
    BY <1>0, <2>1, <2>2, <1>3 DEF Cancel, TypeOK, SlotIsTold, PendingIsAwaited,
       DecisionStands, ExpiresLate, Waiting
  <2> QED BY <2>3, <2>4, <2>5, <2>6, <2>7, <2>8, <2>9, <2>10, <2>11, <2>2 DEF IndInv
<1>4. ASSUME NEW c \in Requests, CancelClose(c)
      PROVE  IndInv'
  <2>1. TypeOK'
    BY <1>0, <1>4 DEF CancelClose, gate, TypeOK, RequestsMade
  <2>2. RequestsMade'
    BY <1>0, <1>4 DEF CancelClose, gate, TypeOK, RequestsMade
  <2>3. SlotIsTold'
    BY <1>0, <1>4 DEF CancelClose, gate, TypeOK, RequestsMade, SlotIsTold,
       PendingIsAwaited, Waiting
  <2>4. PendingIsAwaited'
    BY <1>0, <1>4 DEF CancelClose, gate, TypeOK, RequestsMade, SlotIsTold, DecidedIsOut,
       PendingIsAwaited, Waiting
  <2>5. DecidedIsOut'
    BY <1>0, <1>4 DEF CancelClose, gate, TypeOK, RequestsMade, DecidedIsOut,
       PendingIsAwaited, Waiting
  <2>6. FailsClosed'
    BY <1>0, <1>4 DEF CancelClose, gate, TypeOK, SlotIsTold, FailsClosed, PendingIsAwaited,
       Waiting, RequestsMade
  <2>7. MirrorExact'
    BY <1>0, <1>4 DEF CancelClose, gate, MirrorExact, PendingTasks
  <2>8. Capacity'
    BY <1>0, <1>4 DEF CancelClose, gate, Capacity, PendingBounded, PendingTasks
  <2>9. RegistrationKept'
    BY <1>0, <1>4 DEF CancelClose, gate, TypeOK, RequestsMade, SlotIsTold,
       PendingIsAwaited, RegistrationKept, Waiting
  <2>10. ExpiresLate'
    BY <1>0, <1>4 DEF CancelClose, gate, TypeOK, ExpiresLate
  <2>11. DecisionStands'
    BY <1>0, <1>4 DEF CancelClose, gate, TypeOK, SlotIsTold, PendingIsAwaited,
       DecisionStands, ExpiresLate, Waiting
  <2> QED BY <2>1, <2>2, <2>3, <2>4, <2>5, <2>6, <2>7, <2>8, <2>9, <2>10, <2>11 DEF IndInv
<1>5. ASSUME NEW c \in Requests, Poll(c)
      PROVE  IndInv'
  <2>1. TypeOK'
    <3>1. slot[c] # 0 => slot[c] - 1 \in {0, 1}
      BY <1>0 DEF TypeOK
    <3>2. verdict' \in [Requests -> Decisions \cup {Unset}]
      BY <1>0, <1>5, <3>1 DEF Poll, Return, Decode, TypeOK
    <3>3. slot' \in [Requests -> 0..2]
      BY <1>0, <1>5 DEF Poll, TypeOK
    <3>4. \E w \in {"done", "check"} : at' = [at EXCEPT ![c] = w]
      BY <1>5 DEF Poll, Return
    <3> QED BY <1>0, <1>5, <3>2, <3>3, <3>4 DEF Poll, gate, TypeOK
  <2>2. RequestsMade'
    BY <1>0, <1>5 DEF Poll, Return, Decode, gate, TypeOK, RequestsMade
  <2>3. SlotIsTold'
    BY <1>0, <1>5 DEF Poll, Return, Decode, gate, TypeOK, RequestsMade, SlotIsTold,
       PendingIsAwaited, Waiting
  <2>4. PendingIsAwaited'
    BY <1>0, <1>5 DEF Poll, Return, Decode, gate, TypeOK, RequestsMade, SlotIsTold,
       DecidedIsOut, PendingIsAwaited, Waiting
  <2>5. DecidedIsOut'
    BY <1>0, <1>5 DEF Poll, Return, Decode, gate, TypeOK, RequestsMade, DecidedIsOut,
       PendingIsAwaited, Waiting
  <2>6. FailsClosed'
    BY <1>0, <1>5 DEF Poll, Return, Decode, gate, TypeOK, SlotIsTold, FailsClosed,
       PendingIsAwaited, Waiting, RequestsMade
  <2>7. MirrorExact'
    BY <1>0, <1>5 DEF Poll, Return, Decode, gate, MirrorExact, PendingTasks
  <2>8. Capacity'
    BY <1>0, <1>5 DEF Poll, Return, Decode, gate, Capacity, PendingBounded, PendingTasks
  <2>9. RegistrationKept'
    BY <1>0, <1>5 DEF Poll, Return, Decode, gate, TypeOK, RequestsMade, SlotIsTold,
       PendingIsAwaited, RegistrationKept, Waiting
  <2>10. ExpiresLate'
    BY <1>0, <1>5 DEF Poll, Return, Decode, gate, TypeOK, ExpiresLate
  <2>11. DecisionStands'
    BY <1>0, <1>5 DEF Poll, Return, Decode, gate, TypeOK, SlotIsTold, PendingIsAwaited,
       DecisionStands, ExpiresLate, Waiting
  <2> QED BY <2>1, <2>2, <2>3, <2>4, <2>5, <2>6, <2>7, <2>8, <2>9, <2>10, <2>11 DEF IndInv
<1>6. ASSUME NEW c \in Requests, Check(c)
      PROVE  IndInv'
  <2>1. TypeOK'
    BY <1>0, <1>6 DEF Check, gate, TypeOK, RequestsMade
  <2>2. RequestsMade'
    BY <1>0, <1>6 DEF Check, gate, TypeOK, RequestsMade
  <2>3. SlotIsTold'
    BY <1>0, <1>6 DEF Check, gate, TypeOK, RequestsMade, SlotIsTold, PendingIsAwaited,
       Waiting
  <2>4. PendingIsAwaited'
    BY <1>0, <1>6 DEF Check, gate, TypeOK, RequestsMade, SlotIsTold, DecidedIsOut,
       PendingIsAwaited, Waiting
  <2>5. DecidedIsOut'
    <3>1. ASSUME pending[task[c]] # c, NEW b \in Tasks
          PROVE  pending[b] # c
      BY <1>0, <3>1 DEF PendingIsAwaited, TypeOK
    <3> QED BY <1>0, <1>6, <3>1 DEF Check, gate, TypeOK, DecidedIsOut
  <2>6. FailsClosed'
    BY <1>0, <1>6 DEF Check, gate, TypeOK, SlotIsTold, FailsClosed, PendingIsAwaited,
       Waiting, RequestsMade
  <2>7. MirrorExact'
    BY <1>0, <1>6 DEF Check, gate, MirrorExact, PendingTasks
  <2>8. Capacity'
    BY <1>0, <1>6 DEF Check, gate, Capacity, PendingBounded, PendingTasks
  <2>9. RegistrationKept'
    BY <1>0, <1>6 DEF Check, gate, TypeOK, RequestsMade, SlotIsTold, PendingIsAwaited,
       RegistrationKept, Waiting
  <2>10. ExpiresLate'
    BY <1>0, <1>6 DEF Check, gate, TypeOK, ExpiresLate
  <2>11. DecisionStands'
    BY <1>0, <1>6 DEF Check, gate, TypeOK, SlotIsTold, PendingIsAwaited, DecisionStands,
       ExpiresLate, Waiting
  <2> QED BY <2>1, <2>2, <2>3, <2>4, <2>5, <2>6, <2>7, <2>8, <2>9, <2>10, <2>11 DEF IndInv
<1>7. ASSUME NEW c \in Requests, LastPoll(c)
      PROVE  IndInv'
  <2>1. TypeOK'
    <3>1. slot[c] # 0 => slot[c] - 1 \in {0, 1}
      BY <1>0 DEF TypeOK
    <3>2. verdict' \in [Requests -> Decisions \cup {Unset}]
      BY <1>0, <1>7, <3>1 DEF LastPoll, LastWord, Return, Decode, TypeOK
    <3> QED BY <1>0, <1>7, <3>2 DEF LastPoll, Return, gate, TypeOK
  <2>2. RequestsMade'
    BY <1>0, <1>7 DEF LastPoll, LastWord, Decode, Return, gate, TypeOK, RequestsMade
  <2>3. SlotIsTold'
    BY <1>0, <1>7 DEF LastPoll, LastWord, Decode, Return, gate, TypeOK, RequestsMade,
       SlotIsTold, PendingIsAwaited, Waiting
  <2>4. PendingIsAwaited'
    BY <1>0, <1>7 DEF LastPoll, LastWord, Decode, Return, gate, TypeOK, RequestsMade,
       SlotIsTold, DecidedIsOut, PendingIsAwaited, Waiting
  <2>5. DecidedIsOut'
    BY <1>0, <1>7 DEF LastPoll, LastWord, Decode, Return, gate, TypeOK, RequestsMade,
       DecidedIsOut, PendingIsAwaited, Waiting
  <2>6. FailsClosed'
    BY <1>0, <1>7 DEF LastPoll, LastWord, Decode, Return, gate, TypeOK, SlotIsTold,
       FailsClosed, PendingIsAwaited, Waiting, RequestsMade
  <2>7. MirrorExact'
    BY <1>0, <1>7 DEF LastPoll, LastWord, Decode, Return, gate, MirrorExact, PendingTasks
  <2>8. Capacity'
    BY <1>0, <1>7 DEF LastPoll, LastWord, Decode, Return, gate, Capacity, PendingBounded,
       PendingTasks
  <2>9. RegistrationKept'
    BY <1>0, <1>7 DEF LastPoll, LastWord, Decode, Return, gate, TypeOK, RequestsMade,
       SlotIsTold, PendingIsAwaited, RegistrationKept, Waiting
  <2>10. ExpiresLate'
    BY <1>0, <1>7 DEF LastPoll, LastWord, Decode, Return, gate, TypeOK, ExpiresLate
  <2>11. DecisionStands'
    <3>0. Waiting(c) /\ told[c] \in {0, 1, 3}
      BY <1>0, <1>7 DEF LastPoll, Waiting, TypeOK
    <3>1. told[c] # Unset => slot[c] # 0 /\ slot[c] - 1 = told[c]
      BY <1>0, <3>0 DEF SlotIsTold
    <3>2. verdict'[c] = LastWord(c) /\ told' = told /\ late' = late
      BY <1>0, <1>7 DEF LastPoll, Return, TypeOK
    <3>3. \A b \in Requests : b # c => verdict'[b] = verdict[b] /\ at'[b] = at[b]
      BY <1>0, <1>7 DEF LastPoll, Return, TypeOK
    <3> QED BY <1>0, <3>1, <3>2, <3>3 DEF LastWord, Decode, DecisionStands
  <2> QED BY <2>1, <2>2, <2>3, <2>4, <2>5, <2>6, <2>7, <2>8, <2>9, <2>10, <2>11 DEF IndInv
<1>8. ASSUME NEW c \in Requests, ReadClock(c)
      PROVE  IndInv'
  <2>1. TypeOK'
    BY <1>0, <1>8 DEF ReadClock, Overdue, gate, TypeOK, RequestsMade
  <2>2. RequestsMade'
    BY <1>0, <1>8 DEF ReadClock, Overdue, gate, TypeOK, RequestsMade
  <2>3. SlotIsTold'
    BY <1>0, <1>8 DEF ReadClock, Overdue, gate, TypeOK, RequestsMade, SlotIsTold,
       PendingIsAwaited, Waiting
  <2>4. PendingIsAwaited'
    BY <1>0, <1>8 DEF ReadClock, Overdue, gate, TypeOK, RequestsMade, SlotIsTold,
       DecidedIsOut, PendingIsAwaited, Waiting
  <2>5. DecidedIsOut'
    BY <1>0, <1>8 DEF ReadClock, Overdue, gate, TypeOK, RequestsMade, DecidedIsOut,
       PendingIsAwaited, Waiting
  <2>6. FailsClosed'
    BY <1>0, <1>8 DEF ReadClock, Overdue, gate, TypeOK, SlotIsTold, FailsClosed,
       PendingIsAwaited, Waiting, RequestsMade
  <2>7. MirrorExact'
    BY <1>0, <1>8 DEF ReadClock, Overdue, gate, MirrorExact, PendingTasks
  <2>8. Capacity'
    BY <1>0, <1>8 DEF ReadClock, Overdue, gate, Capacity, PendingBounded, PendingTasks
  <2>9. RegistrationKept'
    BY <1>0, <1>8 DEF ReadClock, Overdue, gate, TypeOK, RequestsMade, SlotIsTold,
       PendingIsAwaited, RegistrationKept, Waiting
  <2>10. ExpiresLate'
    BY <1>0, <1>8 DEF ReadClock, Overdue, gate, TypeOK, ExpiresLate
  <2>11. DecisionStands'
    BY <1>0, <1>8 DEF ReadClock, Overdue, gate, TypeOK, SlotIsTold, PendingIsAwaited,
       DecisionStands, ExpiresLate, Waiting
  <2> QED BY <2>1, <2>2, <2>3, <2>4, <2>5, <2>6, <2>7, <2>8, <2>9, <2>10, <2>11 DEF IndInv
<1>9. ASSUME NEW c \in Requests, Expire(c)
      PROVE  IndInv'
  <2>1. task[c] \in Tasks
    BY <1>0, <1>9 DEF RequestsMade, Expire
  <2>2. /\ pending' \in [Tasks -> Requests \cup {0}]
        /\ keys' \in Seq(Tasks) /\ MirrorExact' /\ Capacity'
    <3>1. CASE MineToRemove(c)
      BY <1>0, <1>9, <2>1, <3>1, Unregister DEF Expire
    <3>2. CASE ~MineToRemove(c)
      BY <1>0, <1>9, <3>2 DEF Expire, gate, TypeOK, MirrorExact, Capacity, PendingBounded,
         PendingTasks
    <3> QED BY <3>1, <3>2
  <2>3. TypeOK'
    BY <1>0, <2>1, <2>2, <1>9 DEF Expire, MineToRemove, Return, gate, TypeOK, RequestsMade
  <2>4. RequestsMade'
    BY <1>0, <2>1, <2>2, <1>9 DEF Expire, MineToRemove, Return, gate, TypeOK, RequestsMade
  <2>5. SlotIsTold'
    BY <1>0, <2>1, <2>2, <1>9 DEF Expire, MineToRemove, Return, gate, TypeOK, RequestsMade,
       SlotIsTold, PendingIsAwaited, Waiting
  <2>6. PendingIsAwaited'
    <3>1. ASSUME NEW t \in Tasks, pending'[t] # 0
          PROVE  pending[t] # 0 /\ pending'[t] = pending[t] /\ pending[t] # c
      <4>1. CASE MineToRemove(c)
        BY <1>0, <1>9, <2>1, <3>1, <4>1 DEF Expire, MineToRemove, PendingIsAwaited, TypeOK
      <4>2. CASE ~MineToRemove(c)
        BY <1>0, <1>9, <2>1, <3>1, <4>2 DEF Expire, gate, MineToRemove, PendingIsAwaited
      <4> QED BY <4>1, <4>2
    <3> QED BY <1>0, <1>9, <3>1 DEF Expire, Return, TypeOK, PendingIsAwaited, Waiting
  <2>7. DecidedIsOut'
    BY <1>0, <2>1, <2>2, <1>9 DEF Expire, MineToRemove, Return, gate, TypeOK, RequestsMade,
       DecidedIsOut, PendingIsAwaited, Waiting
  <2>8. FailsClosed'
    BY <1>0, <2>1, <2>2, <1>9 DEF Expire, MineToRemove, Return, gate, TypeOK, SlotIsTold,
       FailsClosed, PendingIsAwaited, Waiting, RequestsMade
  <2>9. RegistrationKept'
    BY <1>0, <2>1, <2>2, <1>9 DEF Expire, MineToRemove, Return, gate, TypeOK, RequestsMade,
       SlotIsTold, PendingIsAwaited, RegistrationKept, Waiting
  <2>10. ExpiresLate'
    BY <1>0, <2>1, <2>2, <1>9 DEF Expire, MineToRemove, Return, gate, TypeOK, ExpiresLate
  <2>11. DecisionStands'
    BY <1>0, <2>1, <2>2, <1>9 DEF Expire, MineToRemove, Return, gate, TypeOK, SlotIsTold,
       PendingIsAwaited, DecisionStands, ExpiresLate, Waiting
  <2> QED BY <2>3, <2>4, <2>5, <2>6, <2>7, <2>8, <2>9, <2>10, <2>11, <2>2 DEF IndInv
<1>10. ASSUME NEW c \in Requests, Tick(c)
      PROVE  IndInv'
  <2>1. TypeOK'
    BY <1>0, <1>10 DEF Tick, gate, TypeOK, RequestsMade
  <2>2. RequestsMade'
    BY <1>0, <1>10 DEF Tick, gate, TypeOK, RequestsMade
  <2>3. SlotIsTold'
    BY <1>0, <1>10 DEF Tick, gate, TypeOK, RequestsMade, SlotIsTold, PendingIsAwaited,
       Waiting
  <2>4. PendingIsAwaited'
    BY <1>0, <1>10 DEF Tick, gate, TypeOK, RequestsMade, SlotIsTold, DecidedIsOut,
       PendingIsAwaited, Waiting
  <2>5. DecidedIsOut'
    BY <1>0, <1>10 DEF Tick, gate, TypeOK, RequestsMade, DecidedIsOut, PendingIsAwaited,
       Waiting
  <2>6. FailsClosed'
    BY <1>0, <1>10 DEF Tick, gate, TypeOK, SlotIsTold, FailsClosed, PendingIsAwaited,
       Waiting, RequestsMade
  <2>7. MirrorExact'
    BY <1>0, <1>10 DEF Tick, gate, MirrorExact, PendingTasks
  <2>8. Capacity'
    BY <1>0, <1>10 DEF Tick, gate, Capacity, PendingBounded, PendingTasks
  <2>9. RegistrationKept'
    BY <1>0, <1>10 DEF Tick, gate, TypeOK, RequestsMade, SlotIsTold, PendingIsAwaited,
       RegistrationKept, Waiting
  <2>10. ExpiresLate'
    BY <1>0, <1>10 DEF Tick, gate, TypeOK, ExpiresLate
  <2>11. DecisionStands'
    BY <1>0, <1>10 DEF Tick, gate, TypeOK, SlotIsTold, PendingIsAwaited, DecisionStands,
       ExpiresLate, Waiting
  <2> QED BY <2>1, <2>2, <2>3, <2>4, <2>5, <2>6, <2>7, <2>8, <2>9, <2>10, <2>11 DEF IndInv
<1>11. ASSUME UNCHANGED vars
      PROVE  IndInv'
  <2>1. TypeOK'
    BY <1>0, <1>11 DEF vars, TypeOK, RequestsMade
  <2>2. RequestsMade'
    BY <1>0, <1>11 DEF vars, TypeOK, RequestsMade
  <2>3. SlotIsTold'
    BY <1>0, <1>11 DEF vars, TypeOK, RequestsMade, SlotIsTold, PendingIsAwaited, Waiting
  <2>4. PendingIsAwaited'
    BY <1>0, <1>11 DEF vars, TypeOK, RequestsMade, SlotIsTold, DecidedIsOut,
       PendingIsAwaited, Waiting
  <2>5. DecidedIsOut'
    BY <1>0, <1>11 DEF vars, TypeOK, RequestsMade, DecidedIsOut, PendingIsAwaited, Waiting
  <2>6. FailsClosed'
    BY <1>0, <1>11 DEF vars, TypeOK, SlotIsTold, FailsClosed, PendingIsAwaited, Waiting,
       RequestsMade
  <2>7. MirrorExact'
    BY <1>0, <1>11 DEF vars, MirrorExact, PendingTasks
  <2>8. Capacity'
    BY <1>0, <1>11 DEF vars, Capacity, PendingBounded, PendingTasks
  <2>9. RegistrationKept'
    BY <1>0, <1>11 DEF vars, TypeOK, RequestsMade, SlotIsTold, PendingIsAwaited,
       RegistrationKept, Waiting
  <2>10. ExpiresLate'
    BY <1>0, <1>11 DEF vars, TypeOK, ExpiresLate
  <2>11. DecisionStands'
    BY <1>0, <1>11 DEF vars, TypeOK, SlotIsTold, PendingIsAwaited, DecisionStands,
       ExpiresLate, Waiting
  <2> QED BY <2>1, <2>2, <2>3, <2>4, <2>5, <2>6, <2>7, <2>8, <2>9, <2>10, <2>11 DEF IndInv
<1>12. ASSUME Quiet PROVE IndInv'
  BY <1>11, <1>12 DEF Quiet
<1> QED
  BY <1>1, <1>2, <1>3, <1>4, <1>5, <1>6, <1>7, <1>8, <1>9, <1>10, <1>11, <1>12 DEF Next,
     WaiterStep

\* The inductive invariant holds in every behaviour of the gate.
THEOREM Invariance == Spec => []IndInv
<1> QED BY InitHolds, Inductive, PTL DEF Spec

\* The gate's variables keep their types (agnosai_approval_gate_with_timeout).
THEOREM TypeCorrect == Spec => []TypeOK
<1>1. IndInv => TypeOK
  BY DEF IndInv
<1> QED BY <1>1, Invariance, PTL

\* A wait approves only what its own reviewer approved, whoever else requests,
\* decides, cancels or times out (agnosai_approval_wait_for_decision).
THEOREM ApprovesOnlyApproved == Spec => []FailsClosed
<1>1. IndInv => FailsClosed
  BY DEF IndInv
<1> QED BY <1>1, Invariance, PTL

\* pending_tasks lists exactly the pending tasks, each once, and never more
\* than the capacity (agnosai_approval_request, _agnosai_approval_forget).
THEOREM MirrorCorrect == Spec => [](MirrorExact /\ PendingBounded)
<1>1. IndInv => MirrorExact /\ PendingBounded
  BY DEF IndInv, Capacity
<1> QED BY <1>1, Invariance, PTL

\* What is registered is awaited, and a waiter loses its place only to a
\* decision, a cancel or a newer request.
THEOREM PlaceKept == Spec => []PlaceIsKept
<1>1. IndInv => PlaceIsKept
  BY DEF IndInv, PlaceIsKept
<1> QED BY <1>1, Invariance, PTL

\* A decision a reviewer was told had reached a waiter is the one that waiter
\* returns, unless its deadline had passed: the deadline is the only way a
\* decision is lost (agnosai_approval_submit_decision).
THEOREM DecisionKept == Spec => []DecisionStands
<1>1. IndInv => DecisionStands
  BY DEF IndInv
<1> QED BY <1>1, Invariance, PTL
=============================================================================
