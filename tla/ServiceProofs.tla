--------------------------- MODULE ServiceProofs ---------------------------
(***************************************************************************)
(* Theorems about the scheduler, the audit chain and the inference queue,  *)
(* side by side as MCServices runs them, and about fleet coordination and  *)
(* the run state below it: for any DAGs, vectors, priorities, recorders,   *)
(* requests, threads, runs, barriers, tasks, plans and limits, and         *)
(* finitely many nodes.                                                    *)
(***************************************************************************)
EXTENDS MCServices, FleetCoordinator, FiniteSetTheorems, SequenceTheorems, TLAPS


\* Induction over the numbers, of a set of them.
LEMMA SetInduction ==
  ASSUME NEW S, 0 \in S, \A n \in Nat : n \in S => n + 1 \in S
  PROVE  Nat \subseteq S
  <1> DEFINE T == Nat \ S
  <1>1. SUFFICES ASSUME T # {} PROVE FALSE
    OBVIOUS
  <1>2. PICK x \in T : \A y \in T : ~(<<y, x>> \in OpToRel(<, Nat))
    BY <1>1, NatLessThanWellFounded, WFMin, Zenon
  <1>3. x \in Nat /\ x \notin S
    OBVIOUS
  <1>4. x # 0 /\ x - 1 \in Nat /\ x - 1 < x /\ (x - 1) + 1 = x
    BY <1>3
  <1>5. x - 1 \in T
    BY <1>3, <1>4
  <1>6. <<x - 1, x>> \in OpToRel(<, Nat)
    BY <1>3, <1>4 DEF OpToRel
  <1> QED BY <1>2, <1>5, <1>6, Zenon

\* A value can be carried through n turns, each from the one before.
Carried(X, n, x, F, g) ==
    g \in [0..n -> X] /\ g[0] = x /\ \A k \in 1..n : g[k] = F[<<k, g[k - 1]>>]

\* A value carried through n turns has a table of them.
LEMMA Unfolds ==
  ASSUME NEW X, NEW n \in Nat, NEW x \in X, NEW F \in [(1..n) \X X -> X]
  PROVE  \E g : Carried(X, n, x, F, g)
  <1> DEFINE G(m) == {g \in [0..m -> X] : g[0] = x /\ \A k \in 1..m : g[k] = F[<<k, g[k - 1]>>]}
             W == {m \in Nat : m <= n => G(m) # {}}
  <1>1. 0 \in W
    <2> DEFINE g == [k \in 0..0 |-> x]
    <2>1. g \in [0..0 -> X] /\ g[0] = x /\ 1..0 = {}
      OBVIOUS
    <2>2. g \in G(0)
      BY <2>1
    <2> QED BY <2>2
  <1>2. ASSUME NEW m \in Nat, m \in W PROVE m + 1 \in W
    <2> SUFFICES ASSUME m + 1 <= n PROVE G(m + 1) # {}
      OBVIOUS
    <2>1. PICK g \in [0..m -> X] : g[0] = x /\ \A k \in 1..m : g[k] = F[<<k, g[k - 1]>>]
      BY <1>2
    <2> DEFINE h == [k \in 0..(m + 1) |-> IF k = m + 1 THEN F[<<m + 1, g[m]>>] ELSE g[k]]
    <2>2. F[<<m + 1, g[m]>>] \in X
      <3>1. <<m + 1, g[m]>> \in (1..n) \X X
        BY <2>1
      <3> QED BY <3>1
    <2>3. h \in [0..(m + 1) -> X]
      BY <2>1, <2>2
    <2>4. h[0] = x /\ h[m + 1] = F[<<m + 1, g[m]>>] /\ \A k \in 0..m : h[k] = g[k]
      BY <2>1
    <2>5. ASSUME NEW k \in 1..(m + 1) PROVE h[k] = F[<<k, h[k - 1]>>]
      <3> HIDE DEF h
      <3>1. CASE k = m + 1
        <4>1. k - 1 = m /\ m \in 0..m
          BY <3>1
        <4> QED BY <2>4, <3>1, <4>1
      <3>2. CASE k # m + 1
        <4>1. k \in 1..m /\ k \in 0..m /\ k - 1 \in 0..m
          BY <3>2
        <4> QED BY <2>1, <2>4, <4>1
      <3> QED BY <3>1, <3>2
    <2> HIDE DEF h
    <2>6. h \in G(m + 1)
      BY <2>3, <2>4, <2>5
    <2> QED BY <2>6
  <1> HIDE DEF W
  <1>3. n \in W
    BY <1>1, <1>2, SetInduction
  <1> QED BY <1>3 DEF W, Carried

\* A set of numbers has a least one.
LEMMA LeastNat ==
  ASSUME NEW S \in SUBSET Nat, S # {}
  PROVE  \E x \in S : \A y \in S : x <= y
  <1>1. PICK x \in S : \A y \in S : ~(<<y, x>> \in OpToRel(<, Nat))
    <2>1. IsWellFoundedOn(OpToRel(<, Nat), Nat)
      BY NatLessThanWellFounded
    <2> QED BY <2>1, WFMin, Zenon
  <1>2. \A y \in S : ~(y < x)
    BY <1>1 DEF OpToRel
  <1> QED BY <1>2

\* Induction on the number of elements of a set, for sets of a family.
LEMMA SizeInduction ==
  ASSUME NEW T, IsFiniteSet(T), NEW G, {} \in G,
         \A A \in SUBSET T : \A x \in T \ A : A \in G => A \cup {x} \in G
  PROVE  T \in G
  <1> DEFINE W == {n \in Nat : \A A \in SUBSET T : Cardinality(A) = n => A \in G}
  <1>0. \A A \in SUBSET T : IsFiniteSet(A) /\ Cardinality(A) \in Nat
    BY FS_Subset, FS_CardinalityType
  <1>1. 0 \in W
    BY <1>0, FS_EmptySet
  <1>2. ASSUME NEW n \in W PROVE n + 1 \in W
    <2> SUFFICES ASSUME NEW A \in SUBSET T, Cardinality(A) = n + 1 PROVE A \in G
      OBVIOUS
    <2>1. A # {}
      BY FS_EmptySet
    <2>2. PICK x \in A : TRUE
      BY <2>1
    <2>3. A \ {x} \in SUBSET T /\ x \in T \ (A \ {x}) /\ (A \ {x}) \cup {x} = A
      OBVIOUS
    <2>4. Cardinality(A \ {x}) = n
      BY <1>0, FS_RemoveElement
    <2> QED BY <2>3, <2>4
  <1>3. Nat \subseteq W
    <2> HIDE DEF W
    <2> QED BY <1>1, <1>2, SetInduction
  <1> QED BY <1>0, <1>3

-----------------------------------------------------------------------------
(* Orders of finite sets.                                                  *)

\* R, a set of pairs, orders S.
Orders(R, S) ==
    /\ \A x, y \in S : x # y => <<x, y>> \in R \/ <<y, x>> \in R
    /\ \A x, y, z \in S : <<x, y>> \in R /\ <<y, z>> \in R => <<x, z>> \in R

\* s lists S in that order.
Lists(s, R, S) == s \in SetToSeqs(S) /\ \A i, j \in DOMAIN s : i < j => <<s[i], s[j]>> \in R

\* A finite set has a last element.
LEMMA LastOne ==
  ASSUME NEW S, IsFiniteSet(S), S # {}, NEW R, Orders(R, S)
  PROVE  \E m \in S : \A x \in S \ {m} : <<x, m>> \in R
  <1> DEFINE G == {A \in SUBSET S : A # {} => \E m \in A : \A x \in A \ {m} : <<x, m>> \in R}
  <1>1. {} \in G
    OBVIOUS
  <1>2. ASSUME NEW A \in SUBSET S, NEW x \in S \ A, A \in G PROVE A \cup {x} \in G
    <2>1. CASE A = {}
      BY <2>1
    <2>2. CASE A # {}
      <3>1. PICK m \in A : \A y \in A \ {m} : <<y, m>> \in R
        BY <1>2, <2>2
      <3>2. CASE <<x, m>> \in R
        BY <3>1, <3>2
      <3>3. CASE <<m, x>> \in R
        <4>1. \A y \in A : <<y, x>> \in R
          BY <3>1, <3>3 DEF Orders
        <4> QED BY <4>1
      <3> QED BY <3>2, <3>3 DEF Orders
    <2> QED BY <2>1, <2>2
  <1>3. S \in G
    <2> HIDE DEF G
    <2> QED BY <1>1, <1>2, SizeInduction
  <1> QED BY <1>3

\* Every finite set can be listed in order.
LEMMA Listing ==
  ASSUME NEW S, IsFiniteSet(S), NEW R, Orders(R, S)
  PROVE  \E s : Lists(s, R, S)
  <1> DEFINE W == {n \in Nat : \A A \in SUBSET S : Cardinality(A) = n => \E s : Lists(s, R, A)}
  <1>0. \A A \in SUBSET S : IsFiniteSet(A) /\ Cardinality(A) \in Nat
    BY FS_Subset, FS_CardinalityType
  <1>1. 0 \in W
    <2> SUFFICES ASSUME NEW A \in SUBSET S, Cardinality(A) = 0 PROVE Lists(<<>>, R, A)
      OBVIOUS
    <2>1. 1..0 = {} /\ <<>> \in [1..0 -> A]
      OBVIOUS
    <2> QED BY <2>1 DEF Lists, SetToSeqs
  <1>2. ASSUME NEW n \in W PROVE n + 1 \in W
    <2> SUFFICES ASSUME NEW A \in SUBSET S, Cardinality(A) = n + 1 PROVE \E s : Lists(s, R, A)
      OBVIOUS
    <2>1. n \in Nat /\ A # {} /\ IsFiniteSet(A) /\ Orders(R, A)
      <3>1. n \in Nat /\ A # {} /\ IsFiniteSet(A)
        BY <1>0, FS_EmptySet
      <3> QED BY <3>1 DEF Orders
    <2>2. PICK m \in A : \A x \in A \ {m} : <<x, m>> \in R
      BY <2>1, LastOne
    <2>3. Cardinality(A \ {m}) = n /\ A \ {m} \in SUBSET S
      BY <2>1, FS_RemoveElement
    <2>4. PICK s : Lists(s, R, A \ {m})
      BY <2>3
    <2>5. /\ s \in [1..n -> A \ {m}]
          /\ \A i, j \in 1..n : i # j => s[i] # s[j]
          /\ \A i, j \in 1..n : i < j => <<s[i], s[j]>> \in R
      BY <2>3, <2>4 DEF Lists, SetToSeqs
    <2> DEFINE t == [i \in 1..(n + 1) |-> IF i = n + 1 THEN m ELSE s[i]]
    <2>6. /\ t \in [1..(n + 1) -> A] /\ t[n + 1] = m
          /\ \A i \in 1..n : t[i] = s[i] /\ t[i] \in A \ {m}
      BY <2>1, <2>5
    <2> HIDE DEF t
    <2>7. \A i, j \in 1..(n + 1) : i # j => t[i] # t[j]
      <3> SUFFICES ASSUME NEW i \in 1..(n + 1), NEW j \in 1..(n + 1), i < j PROVE t[i] # t[j]
        BY <2>1
      <3>1. i \in 1..n /\ (j = n + 1 \/ j \in 1..n)
        BY <2>1
      <3> QED BY <2>1, <2>5, <2>6, <3>1
    <2>8. \A i, j \in 1..(n + 1) : i < j => <<t[i], t[j]>> \in R
      <3> SUFFICES ASSUME NEW i \in 1..(n + 1), NEW j \in 1..(n + 1), i < j PROVE <<t[i], t[j]>> \in R
        OBVIOUS
      <3>1. i \in 1..n /\ (j = n + 1 \/ j \in 1..n)
        BY <2>1
      <3>2. CASE j = n + 1
        BY <2>2, <2>6, <3>1, <3>2
      <3>3. CASE j \in 1..n
        BY <2>5, <2>6, <3>1, <3>3
      <3> QED BY <3>1, <3>2, <3>3
    <2>9. Lists(t, R, A)
      <3>1. DOMAIN t = 1..(n + 1)
        BY <2>6
      <3>2. t \in SetToSeqs(A)
        BY <2>6, <2>7 DEF SetToSeqs
      <3> QED BY <2>8, <3>1, <3>2 DEF Lists
    <2> QED BY <2>9
  <1>3. Nat \subseteq W
    <2> HIDE DEF W
    <2> QED BY <1>1, <1>2, SetInduction
  <1> QED BY <1>0, <1>3

\* A list of a set without repetitions, as long as the set, has all of it.
LEMMA WholeRange ==
  ASSUME NEW S, IsFiniteSet(S), NEW s \in SetToSeqs(S)
  PROVE  /\ s \in Seq(S) /\ Len(s) = Cardinality(S) /\ DOMAIN s = 1..Cardinality(S) /\ Range(s) = S
         /\ \A i, j \in DOMAIN s : i # j => s[i] # s[j]
  <1> DEFINE n == Cardinality(S)
  <1>1. n \in Nat /\ s \in [1..n -> S] /\ \A i, j \in 1..n : i # j => s[i] # s[j]
    BY FS_CardinalityType DEF SetToSeqs
  <1>2. s \in Seq(S) /\ Len(s) = n /\ DOMAIN s = 1..n
    BY <1>1
  <1>3. s \in Injection(1..n, S)
    BY <1>1 DEF Injection, IsInjective
  <1>4. Cardinality(1..n) = n
    BY <1>1, FS_Interval
  <1>5. s \in Surjection(1..n, S)
    <2> HIDE DEF n
    <2>1. Cardinality(1..n) = Cardinality(S)
      BY <1>4 DEF n
    <2> QED BY <1>3, <2>1, FS_Injection
  <1>6. Range(s) = S
    BY <1>2, <1>5 DEF Surjection, Range
  <1> QED BY <1>1, <1>2, <1>6

\* A sequence without repetitions has as many elements as its range, and is no
\* longer than a set it stays in.
LEMMA Distinct ==
  ASSUME NEW S, IsFiniteSet(S), NEW s \in Seq(S), \A i, j \in DOMAIN s : i # j => s[i] # s[j]
  PROVE  /\ Len(s) <= Cardinality(S)
         /\ Len(s) = Cardinality(S) <=> Range(s) = S
         /\ Len(s) = Cardinality(S) => s \in SetToSeqs(S)
  <1> DEFINE n == Len(s)
  <1>1. n \in Nat /\ s \in [1..n -> S] /\ DOMAIN s = 1..n
    BY LenProperties
  <1>2. s \in Injection(1..n, S)
    BY <1>1 DEF Injection, IsInjective
  <1>3. Cardinality(1..n) = n
    BY <1>1, FS_Interval
  <1> HIDE DEF n
  <1>4. n <= Cardinality(S) /\ (n = Cardinality(S) <=> s \in Surjection(1..n, S))
    BY <1>2, <1>3, FS_Injection
  <1>5. s \in Surjection(1..n, S) <=> Range(s) = S
    BY <1>1 DEF Surjection, Range
  <1>6. n = Cardinality(S) => s \in SetToSeqs(S)
    BY <1>1 DEF SetToSeqs
  <1> QED BY <1>4, <1>5, <1>6 DEF n
-----------------------------------------------------------------------------
(* Kahn's algorithm: Scheduler.                                            *)

\* What DagsAssumption says of one DAG; the empty one has it too.
WellFormed(d) ==
    /\ d.keys \in Seq(Int) /\ IsInjective(d.keys)
    /\ \A k \in Keys(d) : d.priority[k] \in Int
    /\ IsFiniteSet(d.edges) /\ d.edges \subseteq Int \X Int

\* No DAG but well-formed ones is offered.
LEMMA DagsWellFormed == WellFormed(NoDag) /\ \A d \in Dags : WellFormed(d)
  <1>1. \A d \in Dags : WellFormed(d)
    BY DagsAssumption DEF WellFormed, Keys
  <1>2. WellFormed(NoDag)
    <2>1. IsFiniteSet(NoDag.edges) /\ NoDag.edges \subseteq Int \X Int
      BY FS_EmptySet DEF NoDag
    <2>2. NoDag.keys \in Seq(Int) /\ DOMAIN NoDag.keys = {} /\ Keys(NoDag) = {}
      BY DEF NoDag, Keys, Range
    <2> QED BY <2>1, <2>2 DEF WellFormed, IsInjective
  <1> QED BY <1>1, <1>2

\* Dependencies and dependents are the two ends of the edges, finitely many.
LEMMA EdgesAre ==
  ASSUME NEW d, WellFormed(d), NEW k
  PROVE  /\ \A x : x \in DependenciesOf(d, k) <=> <<x, k>> \in d.edges
         /\ \A x : x \in DependentsOf(d, k) <=> <<k, x>> \in d.edges
         /\ IsFiniteSet(DependenciesOf(d, k))
  <1>1. \A e \in d.edges : e = <<e[1], e[2]>>
    BY DEF WellFormed
  <1>2. \A x : x \in DependenciesOf(d, k) <=> <<x, k>> \in d.edges
    BY <1>1 DEF DependenciesOf
  <1>3. \A x : x \in DependentsOf(d, k) <=> <<k, x>> \in d.edges
    BY <1>1 DEF DependentsOf
  <1> DEFINE E == {x \in d.edges : x[2] = k}
             f == [e \in E |-> e[1]]
  <1>4. IsFiniteSet(E)
    BY FS_Subset DEF WellFormed
  <1>5. f \in Surjection(E, DependenciesOf(d, k))
    BY DEF Surjection, DependenciesOf
  <1>6. IsFiniteSet(DependenciesOf(d, k))
    <2> HIDE DEF E, f
    <2> QED BY <1>4, <1>5, FS_Surjection
  <1> QED BY <1>2, <1>3, <1>6

\* The keys of a DAG are finitely many, listed once each.
LEMMA KeysAre ==
  ASSUME NEW d, WellFormed(d)
  PROVE  /\ IsFiniteSet(Keys(d)) /\ Cardinality(Keys(d)) = Len(d.keys) /\ Len(d.keys) \in Nat
         /\ Keys(d) \subseteq Int /\ d.keys \in Seq(Keys(d))
         /\ \A i, j \in DOMAIN d.keys : i # j => d.keys[i] # d.keys[j]
  <1> DEFINE n == Len(d.keys)
  <1>1. n \in Nat /\ DOMAIN d.keys = 1..n /\ d.keys \in [1..n -> Int]
    BY DEF WellFormed
  <1>2. IsFiniteSet(1..n) /\ Cardinality(1..n) = n
    BY <1>1, FS_Interval
  <1>3. d.keys \in Surjection(1..n, Keys(d)) /\ d.keys \in Injection(1..n, Keys(d)) /\ Keys(d) \subseteq Int
    BY <1>1 DEF Surjection, Injection, WellFormed, IsInjective, Keys, Range
  <1> HIDE DEF n
  <1>4. IsFiniteSet(Keys(d)) /\ Cardinality(Keys(d)) = n
    BY <1>2, <1>3, FS_Surjection
  <1>5. d.keys \in Seq(Keys(d))
    <2>1. d.keys \in [1..n -> Keys(d)]
      BY <1>3 DEF Injection
    <2> QED BY <1>1, <2>1 DEF n
  <1> QED BY <1>1, <1>3, <1>4, <1>5 DEF n, WellFormed, IsInjective

\* A finite set of keys sorted is a list of it without repetitions.
LEMMA SortedIs ==
  ASSUME NEW S, IsFiniteSet(S), S \subseteq Int
  PROVE  /\ Sorted(S) \in Seq(S) /\ Range(Sorted(S)) = S
         /\ \A i, j \in DOMAIN Sorted(S) : i # j => Sorted(S)[i] # Sorted(S)[j]
  <1> DEFINE R == {p \in S \X S : p[1] < p[2]}
  <1>1. Orders(R, S)
    BY DEF Orders
  <1>2. PICK s : Lists(s, R, S)
    <2> HIDE DEF R
    <2> QED BY <1>1, Listing
  <1>3. \E t \in SetToSeqs(S) : \A i, j \in DOMAIN t : i < j => t[i] < t[j]
    BY <1>2 DEF Lists
  <1>4. Sorted(S) \in SetToSeqs(S)
    BY <1>3 DEF Sorted
  <1> QED BY <1>4, WholeRange

\* The first i of a queue.
Firsts(s, i) == {s[h] : h \in {x \in DOMAIN s : x <= i}}

\* What holds after i turns: nothing is queued twice; what is queued is what
\* depends on the first i only, each behind its own dependencies; and a degree
\* counts the dependencies that are not among the first i.
KahnState(d, s, i) ==
    /\ s = [queue |-> s.queue, degree |-> s.degree]
    /\ s.queue \in Seq(Keys(d))
    /\ \A g, h \in DOMAIN s.queue : g # h => s.queue[g] # s.queue[h]
    /\ s.degree \in [Keys(d) -> Int]
    /\ \A k \in Keys(d) : s.degree[k] = Cardinality(DependenciesOf(d, k) \ Firsts(s.queue, i))
    /\ \A k \in Keys(d) : k \in Range(s.queue) <=> DependenciesOf(d, k) \subseteq Firsts(s.queue, i)
    /\ \A h \in DOMAIN s.queue : DependenciesOf(d, s.queue[h]) \subseteq Firsts(s.queue, h - 1)

\* No dependency is left exactly when none is counted.
LEMMA NoneLeft ==
  ASSUME NEW d, WellFormed(d), NEW k, NEW F
  PROVE  /\ Cardinality(DependenciesOf(d, k) \ F) \in Nat
         /\ Cardinality(DependenciesOf(d, k) \ F) = 0 <=> DependenciesOf(d, k) \subseteq F
  <1>1. IsFiniteSet(DependenciesOf(d, k) \ F)
    BY EdgesAre, FS_Subset
  <1> HIDE DEF DependenciesOf
  <1>2. Cardinality(DependenciesOf(d, k) \ F) = 0 <=> DependenciesOf(d, k) \ F = {}
    BY <1>1, FS_EmptySet
  <1> QED BY <1>1, <1>2, FS_CardinalityType

KahnStart(d) ==
    LET degree == [k \in Keys(d) |-> Cardinality(DependenciesOf(d, k))] IN
      [queue |-> Sorted({k \in Keys(d) : degree[k] = 0}), degree |-> degree]

\* At first the queue holds the keys that need nothing.
LEMMA KahnBegins ==
  ASSUME NEW d, WellFormed(d)
  PROVE  KahnState(d, KahnStart(d), 0)
  <1> DEFINE degree == [k \in Keys(d) |-> Cardinality(DependenciesOf(d, k))]
             S == {k \in Keys(d) : degree[k] = 0}
             w == Sorted(S)
  <1>1. \A k \in Keys(d) : /\ degree[k] = Cardinality(DependenciesOf(d, k) \ {}) /\ degree[k] \in Nat
                           /\ degree[k] = 0 <=> DependenciesOf(d, k) \subseteq {}
    <2> SUFFICES ASSUME NEW k \in Keys(d)
                 PROVE  /\ degree[k] = Cardinality(DependenciesOf(d, k) \ {}) /\ degree[k] \in Nat
                        /\ degree[k] = 0 <=> DependenciesOf(d, k) \subseteq {}
      OBVIOUS
    <2>1. DependenciesOf(d, k) \ {} = DependenciesOf(d, k)
      OBVIOUS
    <2> QED BY <2>1, NoneLeft
  <1>2. IsFiniteSet(S) /\ S \subseteq Int /\ S \subseteq Keys(d)
    BY KeysAre, FS_Subset
  <1>3. degree \in [Keys(d) -> Int] /\ KahnStart(d) = [queue |-> w, degree |-> degree]
    BY <1>1 DEF KahnStart
  <1>4. \A k \in Keys(d) : k \in S <=> DependenciesOf(d, k) \subseteq {}
    BY <1>1
  <1> HIDE DEF degree, S
  <1>5. /\ w \in Seq(S) /\ Range(w) = S
        /\ \A i, j \in DOMAIN w : i # j => w[i] # w[j]
    BY <1>2, SortedIs
  <1> HIDE DEF w
  <1>6. w \in Seq(Keys(d)) /\ \A h \in DOMAIN w : w[h] \in S
    <2>1. w \in Seq(Keys(d))
      BY <1>2, <1>5, SeqMonotonic
    <2> QED BY <1>5, <2>1 DEF Range
  <1>7. Firsts(w, 0) = {}
    BY <1>5 DEF Firsts
  <1>8. \A h \in DOMAIN w : DependenciesOf(d, w[h]) \subseteq Firsts(w, h - 1)
    BY <1>2, <1>4, <1>6
  <1>9. KahnStart(d).queue = w /\ KahnStart(d).degree = degree
        /\ KahnStart(d) = [queue |-> KahnStart(d).queue, degree |-> KahnStart(d).degree]
    BY <1>3
  <1>10. \A k \in Keys(d) : k \in Range(w) <=> DependenciesOf(d, k) \subseteq Firsts(w, 0)
    BY <1>4, <1>5, <1>7
  <1>11. \A k \in Keys(d) : degree[k] = Cardinality(DependenciesOf(d, k) \ Firsts(w, 0))
    BY <1>1, <1>7
  <1>12. degree \in [Keys(d) -> Int]
    BY <1>3
  <1> QED BY <1>5, <1>6, <1>8, <1>9, <1>10, <1>11, <1>12, Zenon DEF KahnState

\* A turn that takes the next of the queue.
LEMMA KahnTakes ==
  ASSUME NEW d, WellFormed(d), NEW s, NEW i \in Nat, KahnState(d, s, i), i + 1 <= Len(s.queue)
  PROVE  KahnState(d, KahnTurn(d, s, i + 1), i + 1)
  <1> DEFINE q == s.queue
             x == q[i + 1]
             F == Firsts(q, i)
             D(k) == DependenciesOf(d, k)
             lowered == DependentsOf(d, x) \cap Keys(d)
             degree == [k \in Keys(d) |-> s.degree[k] - IF k \in lowered THEN 1 ELSE 0]
             S == Freed(degree, lowered)
             w == Sorted(S)
             p == q \o w
  <1>1. /\ q \in Seq(Keys(d)) /\ Len(q) \in Nat /\ DOMAIN q = 1..Len(q) /\ i + 1 \in DOMAIN q
        /\ \A g, h \in DOMAIN q : g # h => q[g] # q[h]
        /\ s.degree \in [Keys(d) -> Int]
        /\ \A k \in Keys(d) : s.degree[k] = Cardinality(D(k) \ F)
        /\ \A k \in Keys(d) : k \in Range(q) <=> D(k) \subseteq F
        /\ \A h \in DOMAIN q : D(q[h]) \subseteq Firsts(q, h - 1)
    <2>1. /\ q \in Seq(Keys(d))
          /\ \A g, h \in DOMAIN q : g # h => q[g] # q[h]
          /\ s.degree \in [Keys(d) -> Int]
          /\ \A k \in Keys(d) : s.degree[k] = Cardinality(D(k) \ F)
          /\ \A k \in Keys(d) : k \in Range(q) <=> D(k) \subseteq F
          /\ \A h \in DOMAIN q : D(q[h]) \subseteq Firsts(q, h - 1)
      BY Zenon DEF KahnState
    <2>2. Len(q) \in Nat /\ DOMAIN q = 1..Len(q)
      BY <2>1, LenProperties
    <2>3. i + 1 \in DOMAIN q
      BY <2>2
    <2> QED BY <2>1, <2>2, <2>3
  <1>0. Len(q) \in Nat /\ i + 1 <= Len(q) /\ DOMAIN q = 1..Len(q)
    BY <1>1
  <1>2. x \in Keys(d) /\ x \notin F /\ F \subseteq Range(q) /\ x \in Range(q)
    BY <1>1 DEF Firsts, Range
  <1>3. KahnTurn(d, s, i + 1) = [queue |-> p, degree |-> degree]
    <2>1. ~(i + 1 > Len(s.queue))
      BY <1>1
    <2> QED BY <2>1 DEF KahnTurn
  <1>4. \A k \in Keys(d) : k \in lowered <=> x \in D(k)
    BY EdgesAre
  <1>5. ASSUME NEW k \in Keys(d)
        PROVE  /\ degree[k] = Cardinality(D(k) \ (F \cup {x})) /\ degree[k] \in Int
               /\ degree[k] = 0 <=> D(k) \subseteq F \cup {x}
    <2> DEFINE A == D(k) \ F
               B == D(k) \ (F \cup {x})
    <2>1. IsFiniteSet(A) /\ B = A \ {x} /\ Cardinality(A) \in Nat
      <3>1. IsFiniteSet(D(k))
        BY EdgesAre
      <3>2. A \in SUBSET D(k) /\ B = A \ {x}
        OBVIOUS
      <3> HIDE DEF A, B, D
      <3> QED BY <3>1, <3>2, FS_Subset, FS_CardinalityType
    <2>2. x \in A <=> k \in lowered
      BY <1>2, <1>4
    <2>3. s.degree[k] = Cardinality(A)
      BY <1>1
    <2>4. degree[k] = s.degree[k] - IF k \in lowered THEN 1 ELSE 0
      OBVIOUS
    <2>5. Cardinality(B) = 0 <=> D(k) \subseteq F \cup {x}
      BY NoneLeft
    <2> HIDE DEF A, B, degree, lowered, F, D
    <2>6. Cardinality(B) = IF x \in A THEN Cardinality(A) - 1 ELSE Cardinality(A)
      BY <2>1, FS_RemoveElement
    <2>7. degree[k] = Cardinality(B) /\ degree[k] \in Int
      BY <2>1, <2>2, <2>3, <2>4, <2>6
    <2> QED BY <2>5, <2>7 DEF B
  <1>6. degree \in [Keys(d) -> Int]
    BY <1>5
  <1>7. \A k : k \in S <=> k \in Keys(d) /\ x \in D(k) /\ D(k) \subseteq F \cup {x}
    <2>1. \A k : k \in S <=> k \in lowered /\ degree[k] = 0
      BY DEF Freed
    <2>2. \A k : k \in lowered => k \in Keys(d)
      OBVIOUS
    <2> HIDE DEF S, lowered, degree, F, D
    <2> QED BY <1>4, <1>5, <2>1, <2>2
  <1> HIDE DEF S, lowered, degree
  <1>8. IsFiniteSet(S) /\ S \subseteq Int /\ S \subseteq Keys(d)
    <2>1. S \subseteq Keys(d)
      BY <1>7
    <2> QED BY <2>1, KeysAre, FS_Subset
  <1>9. /\ w \in Seq(S) /\ Range(w) = S
        /\ \A g, h \in DOMAIN w : g # h => w[g] # w[h]
    BY <1>8, SortedIs
  <1> HIDE DEF w
  <1>10. w \in Seq(Keys(d)) /\ Len(w) \in Nat /\ DOMAIN w = 1..Len(w) /\ \A h \in DOMAIN w : w[h] \in S
    <2>1. w \in Seq(Keys(d))
      BY <1>8, <1>9, SeqMonotonic
    <2>2. Len(w) \in Nat /\ DOMAIN w = 1..Len(w)
      BY <1>9, LenProperties
    <2> QED BY <1>9, <2>1, <2>2 DEF Range
  <1>a. Len(w) \in Nat /\ DOMAIN w = 1..Len(w)
    BY <1>10
  <1>11. \A k \in S : k \notin Range(q)
    <2> HIDE DEF F, D, q, x
    <2> QED BY <1>1, <1>2, <1>7
  <1>12. /\ p \in Seq(Keys(d)) /\ Len(p) = Len(q) + Len(w) /\ DOMAIN p = 1..(Len(q) + Len(w))
         /\ \A h \in 1..Len(q) : p[h] = q[h]
         /\ \A h \in 1..Len(w) : p[Len(q) + h] = w[h]
    <2> HIDE DEF q
    <2>1. p \in Seq(Keys(d)) /\ Len(p) = Len(q) + Len(w)
      BY <1>1, <1>10, ConcatProperties
    <2>2. \A h \in 1..(Len(q) + Len(w)) : p[h] = IF h <= Len(q) THEN q[h] ELSE w[h - Len(q)]
      BY <1>1, <1>10, ConcatProperties
    <2> HIDE DEF p
    <2>3. DOMAIN p = 1..(Len(q) + Len(w))
      BY <2>1, LenProperties
    <2>4. \A h \in 1..Len(q) : p[h] = q[h]
      BY <1>0, <1>a, <2>2
    <2>5. ASSUME NEW h \in 1..Len(w) PROVE p[Len(q) + h] = w[h]
      <3>1. Len(q) + h \in 1..(Len(q) + Len(w)) /\ ~(Len(q) + h <= Len(q)) /\ (Len(q) + h) - Len(q) = h
        BY <1>0, <1>a
      <3> QED BY <2>2, <3>1
    <2> QED BY <2>1, <2>3, <2>4, <2>5
  <1> HIDE DEF p, q, x, F
  <1>13. \A g \in DOMAIN p : (g \in 1..Len(q) /\ p[g] = q[g] /\ p[g] \in Range(q))
                             \/ \E h \in 1..Len(w) : g = Len(q) + h /\ p[g] = w[h] /\ p[g] \in S
    <2> SUFFICES ASSUME NEW g \in DOMAIN p
                 PROVE  (g \in 1..Len(q) /\ p[g] = q[g] /\ p[g] \in Range(q))
                        \/ \E h \in 1..Len(w) : g = Len(q) + h /\ p[g] = w[h] /\ p[g] \in S
      OBVIOUS
    <2>1. CASE g <= Len(q)
      BY <1>1, <1>12, <2>1 DEF Range
    <2>2. CASE ~(g <= Len(q))
      <3>1. g - Len(q) \in 1..Len(w) /\ g = Len(q) + (g - Len(q))
        BY <1>0, <1>a, <1>12, <2>2
      <3> QED BY <1>10, <1>12, <3>1
    <2> QED BY <2>1, <2>2
  <1>14. \A g, h \in DOMAIN p : g # h => p[g] # p[h]
    <2> SUFFICES ASSUME NEW g \in DOMAIN p, NEW h \in DOMAIN p, g # h PROVE p[g] # p[h]
      OBVIOUS
    <2>1. CASE g \in 1..Len(q) /\ h \in 1..Len(q)
      BY <1>1, <1>12, <2>1
    <2>2. CASE g \in 1..Len(q) /\ h \notin 1..Len(q)
      BY <1>11, <1>13, <2>2
    <2>3. CASE g \notin 1..Len(q) /\ h \in 1..Len(q)
      BY <1>11, <1>13, <2>3
    <2>4. CASE g \notin 1..Len(q) /\ h \notin 1..Len(q)
      <3>1. PICK a \in 1..Len(w) : g = Len(q) + a /\ p[g] = w[a]
        BY <1>13, <2>4
      <3>2. PICK b \in 1..Len(w) : h = Len(q) + b /\ p[h] = w[b]
        BY <1>13, <2>4
      <3>3. a # b
        BY <3>1, <3>2
      <3> QED BY <1>9, <1>10, <3>1, <3>2, <3>3
    <2> QED BY <2>1, <2>2, <2>3, <2>4
  <1>15. \A h \in 0..Len(q) : Firsts(p, h) = Firsts(q, h)
    <2> SUFFICES ASSUME NEW h \in 0..Len(q) PROVE Firsts(p, h) = Firsts(q, h)
      OBVIOUS
    <2>1. {y \in DOMAIN p : y <= h} = {y \in DOMAIN q : y <= h}
      BY <1>0, <1>a, <1>12
    <2>2. \A y \in {z \in DOMAIN q : z <= h} : p[y] = q[y]
      BY <1>1, <1>12
    <2> QED BY <2>1, <2>2 DEF Firsts
  <1>16. Firsts(q, i + 1) = F \cup {x} /\ Firsts(p, i + 1) = F \cup {x}
    <2>1. {y \in DOMAIN q : y <= i + 1} = {y \in DOMAIN q : y <= i} \cup {i + 1}
      BY <1>1
    <2>2. Firsts(q, i + 1) = F \cup {x}
      BY <2>1 DEF Firsts, F, x
    <2>3. i + 1 \in 0..Len(q)
      BY <1>1
    <2> QED BY <1>15, <2>2, <2>3
  <1>17. \A k \in Keys(d) : degree[k] = Cardinality(D(k) \ Firsts(p, i + 1))
    BY <1>5, <1>16
  <1>18. Range(p) = Range(q) \cup S
    <2>1. Range(p) \subseteq Range(q) \cup S
      BY <1>13 DEF Range
    <2>2. Range(q) \subseteq Range(p)
      BY <1>0, <1>a, <1>12 DEF Range
    <2>3. S \subseteq Range(p)
      <3> SUFFICES ASSUME NEW k \in S PROVE k \in Range(p)
        OBVIOUS
      <3>1. PICK h \in DOMAIN w : w[h] = k
        BY <1>9 DEF Range
      <3>2. Len(q) + h \in DOMAIN p /\ p[Len(q) + h] = k
        BY <1>0, <1>a, <1>12, <3>1
      <3> QED BY <3>2 DEF Range
    <2> QED BY <2>1, <2>2, <2>3
  <1>19. \A k \in Keys(d) : k \in Range(p) <=> D(k) \subseteq Firsts(p, i + 1)
    <2> SUFFICES ASSUME NEW k \in Keys(d) PROVE k \in Range(q) \cup S <=> D(k) \subseteq F \cup {x}
      BY <1>16, <1>18
    <2> HIDE DEF D
    <2>1. k \in Range(q) <=> D(k) \subseteq F
      BY <1>1 DEF F
    <2>2. k \in S <=> x \in D(k) /\ D(k) \subseteq F \cup {x}
      BY <1>7
    <2> QED BY <2>1, <2>2
  <1>20. \A h \in DOMAIN p : D(p[h]) \subseteq Firsts(p, h - 1)
    <2> SUFFICES ASSUME NEW h \in DOMAIN p PROVE D(p[h]) \subseteq Firsts(p, h - 1)
      OBVIOUS
    <2>1. CASE h \in 1..Len(q)
      <3>1. D(q[h]) \subseteq Firsts(q, h - 1) /\ h - 1 \in 0..Len(q) /\ p[h] = q[h]
        BY <1>1, <1>12, <2>1
      <3> QED BY <1>15, <3>1
    <2>2. CASE h \notin 1..Len(q)
      <3>1. p[h] \in S /\ h > Len(q) /\ h \in Int
        BY <1>1, <1>12, <1>13, <2>2
      <3>2. D(p[h]) \subseteq Firsts(p, i + 1)
        BY <1>7, <1>16, <3>1
      <3>3. i + 1 <= h - 1
        BY <1>1, <3>1
      <3>4. Firsts(p, i + 1) \subseteq Firsts(p, h - 1)
        BY <1>12, <3>1, <3>3 DEF Firsts
      <3> QED BY <3>2, <3>4
    <2> QED BY <2>1, <2>2
  <1> DEFINE t == KahnTurn(d, s, i + 1)
  <1>21. t = [queue |-> t.queue, degree |-> t.degree] /\ t.queue = p /\ t.degree = degree
    BY <1>3
  <1>22. p \in Seq(Keys(d))
    BY <1>12
  <1> HIDE DEF t
  <1>23. KahnState(d, t, i + 1)
    BY <1>6, <1>14, <1>17, <1>19, <1>20, <1>21, <1>22, Zenon DEF KahnState
  <1> QED BY <1>23 DEF t

\* A turn past the end of the queue.
LEMMA KahnRests ==
  ASSUME NEW d, NEW s, NEW i \in Nat, KahnState(d, s, i), ~(i + 1 <= Len(s.queue))
  PROVE  KahnState(d, KahnTurn(d, s, i + 1), i + 1)
  <1> DEFINE q == s.queue
  <1>1. Len(q) \in Nat /\ DOMAIN q = 1..Len(q)
    <2>1. q \in Seq(Keys(d))
      BY DEF KahnState
    <2> QED BY <2>1, LenProperties
  <1>2. KahnTurn(d, s, i + 1) = s
    BY <1>1 DEF KahnTurn
  <1>3. {x \in DOMAIN q : x <= i + 1} = {x \in DOMAIN q : x <= i}
    BY <1>1
  <1>4. Firsts(q, i + 1) = Firsts(q, i)
    BY <1>3 DEF Firsts
  <1> QED BY <1>2, <1>4, Zenon DEF KahnState

\* Every turn keeps it.
LEMMA KahnTurns ==
  ASSUME NEW d, WellFormed(d), NEW s, NEW i \in Nat, KahnState(d, s, i)
  PROVE  KahnState(d, KahnTurn(d, s, i + 1), i + 1)
  BY KahnTakes, KahnRests

\* The table of the states after each turn.
KahnTable(d, g) == g = [i \in 0..Len(d.keys) |-> IF i = 0 THEN KahnStart(d) ELSE KahnTurn(d, g[i - 1], i)]

\* The turns of load_dag exist, as many as are asked for.
LEMMA KahnTableExists ==
  ASSUME NEW d, WellFormed(d)
  PROVE  \E g : KahnTable(d, g)
  <1> DEFINE n == Len(d.keys)
             X == [queue : Seq(Keys(d)), degree : [Keys(d) -> Int]]
             x == KahnStart(d)
             \* a state that is none of those of the loop stays as it is
             F == [a \in (1..n) \X X |-> IF KahnState(d, a[2], a[1] - 1) THEN KahnTurn(d, a[2], a[1]) ELSE a[2]]
  <1>0. n \in Nat
    BY KeysAre
  <1>1. \A s, i : KahnState(d, s, i) => s \in X
    <2> SUFFICES ASSUME NEW s, NEW i, KahnState(d, s, i) PROVE s \in X
      OBVIOUS
    <2>1. s = [queue |-> s.queue, degree |-> s.degree] /\ s.queue \in Seq(Keys(d)) /\ s.degree \in [Keys(d) -> Int]
      BY Zenon DEF KahnState
    <2> QED BY <2>1
  <1>2. x \in X
    BY <1>1, KahnBegins
  <1>3. ASSUME NEW k \in 1..n, NEW s \in X
        PROVE  /\ F[<<k, s>>] \in X
               /\ KahnState(d, s, k - 1) => F[<<k, s>>] = KahnTurn(d, s, k) /\ KahnState(d, F[<<k, s>>], k)
    <2>1. k - 1 \in Nat /\ (k - 1) + 1 = k
      BY <1>0
    <2>2. F[<<k, s>>] = IF KahnState(d, s, k - 1) THEN KahnTurn(d, s, k) ELSE s
      BY <1>0
    <2> HIDE DEF F, X, n
    <2>3. CASE KahnState(d, s, k - 1)
      <3>1. KahnState(d, KahnTurn(d, s, k), k)
        BY <2>1, <2>3, KahnTurns
      <3> QED BY <1>1, <2>2, <2>3, <3>1
    <2>4. CASE ~KahnState(d, s, k - 1)
      BY <2>2, <2>4
    <2> QED BY <2>3, <2>4
  <1>4. F \in [(1..n) \X X -> X]
    <2>1. \A a \in (1..n) \X X : F[a] \in X
      <3> SUFFICES ASSUME NEW a \in (1..n) \X X PROVE F[a] \in X
        OBVIOUS
      <3>1. PICK k \in 1..n, s \in X : a = <<k, s>>
        OBVIOUS
      <3> HIDE DEF F, X, n
      <3> QED BY <1>3, <3>1
    <2>2. F = [a \in (1..n) \X X |-> F[a]]
      OBVIOUS
    <2> HIDE DEF F, X, n
    <2> QED BY <2>1, <2>2
  <1> HIDE DEF F, X, n, x
  <1>5. PICK g : Carried(X, n, x, F, g)
    BY <1>0, <1>2, <1>4, Unfolds
  <1>6. g \in [0..n -> X] /\ g[0] = x /\ \A k \in 1..n : g[k] = F[<<k, g[k - 1]>>]
    BY <1>5 DEF Carried
  <1> DEFINE W == {i \in Nat : i <= n => KahnState(d, g[i], i)}
  <1>7. 0 \in W
    BY <1>6, KahnBegins DEF x
  <1>8. ASSUME NEW i \in Nat, i \in W PROVE i + 1 \in W
    <2> SUFFICES ASSUME i + 1 <= n PROVE KahnState(d, g[i + 1], i + 1)
      OBVIOUS
    <2>1. i + 1 \in 1..n /\ i \in 0..n /\ (i + 1) - 1 = i /\ i <= n
      BY <1>0
    <2>2. KahnState(d, g[i], i) /\ g[i] \in X
      BY <1>6, <1>8, <2>1
    <2> HIDE DEF W
    <2>3. g[i + 1] = F[<<i + 1, g[i]>>]
      BY <1>6, <2>1
    <2>4. KahnState(d, F[<<i + 1, g[i]>>], i + 1)
      BY <1>3, <2>1, <2>2
    <2> QED BY <2>3, <2>4
  <1>9. \A i \in 0..n : KahnState(d, g[i], i)
    <2>1. Nat \subseteq W
      <3> HIDE DEF W
      <3> QED BY <1>7, <1>8, SetInduction
    <2> QED BY <1>0, <2>1
  <1>10. ASSUME NEW i \in 0..n PROVE g[i] = IF i = 0 THEN KahnStart(d) ELSE KahnTurn(d, g[i - 1], i)
    <2>1. CASE i = 0
      BY <1>6, <2>1 DEF x
    <2>2. CASE i # 0
      <3>1. i \in 1..n /\ i - 1 \in 0..n
        BY <1>0, <2>2
      <3>2. KahnState(d, g[i - 1], i - 1) /\ g[i - 1] \in X
        BY <1>6, <1>9, <3>1
      <3> QED BY <1>3, <1>6, <2>2, <3>1, <3>2
    <2> QED BY <2>1, <2>2
  <1>11. g = [i \in 0..n |-> IF i = 0 THEN KahnStart(d) ELSE KahnTurn(d, g[i - 1], i)]
    BY <1>6, <1>10
  <1> QED BY <1>11 DEF KahnTable, n

\* The queue the algorithm ends with, and what holds of it.
Settled(d, q) ==
    /\ q \in Seq(Keys(d))
    /\ \A g, h \in DOMAIN q : g # h => q[g] # q[h]
    /\ \A k \in Keys(d) : DependenciesOf(d, k) \subseteq Range(q) => k \in Range(q)
    /\ \A h \in DOMAIN q : DependenciesOf(d, q[h]) \subseteq Firsts(q, h - 1)

\* So after as many turns as there are keys the search has settled.
LEMMA KahnSettles ==
  ASSUME NEW d, WellFormed(d)
  PROVE  Settled(d, KahnQueue(d))
  <1> DEFINE n == Len(d.keys)
             c == CHOOSE g : KahnTable(d, g)
  <1>1. KahnTable(d, c)
    BY KahnTableExists
  <1>2. KahnQueue(d) = c[n].queue
    BY DEF KahnQueue, KahnTable, KahnStart
  <1>3. n \in Nat /\ Cardinality(Keys(d)) = n /\ IsFiniteSet(Keys(d))
    BY KeysAre
  <1>4. c = [i \in 0..n |-> IF i = 0 THEN KahnStart(d) ELSE KahnTurn(d, c[i - 1], i)]
    BY <1>1 DEF KahnTable
  <1> HIDE DEF c, n
  <1> DEFINE W == {i \in Nat : i <= n => KahnState(d, c[i], i)}
  <1>5. 0 \in W
    <2>1. c[0] = KahnStart(d)
      BY <1>3, <1>4
    <2> QED BY <2>1, KahnBegins
  <1>6. ASSUME NEW i \in Nat, i \in W PROVE i + 1 \in W
    <2> SUFFICES ASSUME i + 1 <= n PROVE KahnState(d, c[i + 1], i + 1)
      OBVIOUS
    <2>1. i + 1 \in 0..n /\ i + 1 # 0 /\ (i + 1) - 1 = i /\ i <= n
      BY <1>3
    <2>2. c[i + 1] = KahnTurn(d, c[i], i + 1)
      BY <1>4, <2>1
    <2>3. KahnState(d, c[i], i)
      BY <1>6, <2>1
    <2> HIDE DEF W
    <2> QED BY <2>2, <2>3, KahnTurns
  <1>7. KahnState(d, c[n], n)
    <2>1. Nat \subseteq W
      <3> HIDE DEF W
      <3> QED BY <1>5, <1>6, SetInduction
    <2> QED BY <1>3, <2>1
  <1> DEFINE q == c[n].queue
  <1>8. /\ q \in Seq(Keys(d))
        /\ \A g, h \in DOMAIN q : g # h => q[g] # q[h]
        /\ \A k \in Keys(d) : k \in Range(q) <=> DependenciesOf(d, k) \subseteq Firsts(q, n)
        /\ \A h \in DOMAIN q : DependenciesOf(d, q[h]) \subseteq Firsts(q, h - 1)
    BY <1>7, Zenon DEF KahnState
  <1> HIDE DEF q
  <1>9. Len(q) <= n /\ Len(q) \in Nat /\ DOMAIN q = 1..Len(q)
    <2>1. Len(q) <= Cardinality(Keys(d))
      BY <1>3, <1>8, Distinct
    <2> QED BY <1>3, <1>8, <2>1, LenProperties
  <1>10. Firsts(q, n) = Range(q)
    <2>1. {x \in DOMAIN q : x <= n} = DOMAIN q
      BY <1>3, <1>9
    <2> QED BY <2>1 DEF Firsts, Range
  <1>11. Settled(d, q)
    BY <1>8, <1>10, Zenon DEF Settled
  <1> QED BY <1>2, <1>11 DEF q

\* Of a sequence's elements that are not in S, the first.
LEMMA FirstOutside ==
  ASSUME NEW T, NEW s \in Seq(T), NEW S, ~(Range(s) \subseteq S)
  PROVE  \E i \in DOMAIN s : s[i] \notin S /\ \A j \in DOMAIN s : j < i => s[j] \in S
  <1> DEFINE I == {i \in DOMAIN s : s[i] \notin S}
  <1>1. DOMAIN s = 1..Len(s) /\ Len(s) \in Nat
    BY LenProperties
  <1>2. I \in SUBSET Nat /\ I # {}
    BY <1>1 DEF Range
  <1>3. PICK i \in I : \A j \in I : i <= j
    <2> HIDE DEF I
    <2> QED BY <1>2, LeastNat
  <1>4. \A j \in DOMAIN s : j < i => s[j] \in S
    BY <1>1, <1>3
  <1> QED BY <1>3, <1>4

\* load_dag's answer is the right one, and its queue an order.
LEMMA KahnIsExact ==
  ASSUME NEW d, WellFormed(d)
  PROVE  /\ KahnAccepts(d) <=> /\ \E s \in SetToSeqs(Keys(d)) : Forward(d, s)
                               /\ \A e \in d.edges : e[2] \in Keys(d) => e[1] \in Keys(d)
         /\ KahnAccepts(d) => Forward(d, KahnQueue(d)) /\ Range(KahnQueue(d)) = Keys(d)
  <1> DEFINE q == KahnQueue(d)
             n == Len(d.keys)
  <1>1. /\ q \in Seq(Keys(d))
        /\ \A g, h \in DOMAIN q : g # h => q[g] # q[h]
        /\ \A k \in Keys(d) : DependenciesOf(d, k) \subseteq Range(q) => k \in Range(q)
        /\ \A h \in DOMAIN q : DependenciesOf(d, q[h]) \subseteq Firsts(q, h - 1)
    BY KahnSettles DEF Settled
  <1>2. n \in Nat /\ Cardinality(Keys(d)) = n /\ IsFiniteSet(Keys(d))
    BY KeysAre
  <1>3. KahnAccepts(d) <=> Len(q) = n
    BY DEF KahnAccepts
  <1> HIDE DEF q, n
  <1>4. DOMAIN q = 1..Len(q) /\ Len(q) \in Nat
    BY <1>1, LenProperties
  <1>5. (Len(q) = n <=> Range(q) = Keys(d)) /\ (Len(q) = n => q \in SetToSeqs(Keys(d)))
    BY <1>1, <1>2, Distinct
  <1>6. ASSUME Len(q) = n
        PROVE  Forward(d, q) /\ \A e \in d.edges : e[2] \in Keys(d) => e[1] \in Keys(d)
    <2>1. ASSUME NEW i \in DOMAIN q, NEW j \in DOMAIN q, <<q[i], q[j]>> \in d.edges PROVE i < j
      <3>1. q[i] \in DependenciesOf(d, q[j])
        BY <2>1, EdgesAre
      <3>2. PICK h \in DOMAIN q : h <= j - 1 /\ q[h] = q[i]
        BY <1>1, <3>1 DEF Firsts
      <3>3. h = i
        BY <1>1, <3>2
      <3> QED BY <1>4, <3>2, <3>3
    <2>2. ASSUME NEW e \in d.edges, e[2] \in Keys(d) PROVE e[1] \in Keys(d)
      <3>1. PICK h \in DOMAIN q : q[h] = e[2]
        BY <1>5, <1>6, <2>2 DEF Range
      <3>2. e = <<e[1], e[2]>>
        BY DEF WellFormed
      <3>3. e[1] \in DependenciesOf(d, q[h])
        BY <3>1, <3>2, EdgesAre
      <3>4. e[1] \in Range(q)
        BY <1>1, <3>3 DEF Firsts, Range
      <3> QED BY <1>5, <1>6, <3>4
    <2> QED BY <1>5, <1>6, <2>1, <2>2 DEF Forward, n
  <1>7. ASSUME NEW s \in SetToSeqs(Keys(d)), Forward(d, s),
               \A e \in d.edges : e[2] \in Keys(d) => e[1] \in Keys(d)
        PROVE  Len(q) = n
    <2> SUFFICES ASSUME ~(Keys(d) \subseteq Range(q)) PROVE FALSE
      <3>1. Range(q) \subseteq Keys(d)
        BY <1>1, <1>4 DEF Range
      <3> QED BY <1>5, <3>1
    <2>1. s \in Seq(Keys(d)) /\ Range(s) = Keys(d)
      BY <1>2, WholeRange
    <2>2. PICK i \in DOMAIN s : s[i] \notin Range(q) /\ \A j \in DOMAIN s : j < i => s[j] \in Range(q)
      BY <2>1, FirstOutside
    <2>3. s[i] \in Keys(d)
      BY <2>1 DEF Range
    <2>4. DependenciesOf(d, s[i]) \subseteq Range(q)
      <3> SUFFICES ASSUME NEW x \in DependenciesOf(d, s[i]) PROVE x \in Range(q)
        OBVIOUS
      <3>1. <<x, s[i]>> \in d.edges
        BY EdgesAre
      <3>2. x \in Keys(d)
        BY <1>7, <2>3, <3>1
      <3>3. PICK j \in DOMAIN s : s[j] = x
        BY <2>1, <3>2 DEF Range
      <3>4. j < i
        BY <1>7, <3>1, <3>3 DEF Forward
      <3> QED BY <2>2, <3>3, <3>4
    <2> QED BY <1>1, <2>2, <2>3, <2>4
  <1>8. KahnAccepts(d) => Forward(d, q) /\ Range(q) = Keys(d)
    BY <1>3, <1>5, <1>6
  <1>9. KahnAccepts(d) => \E s \in SetToSeqs(Keys(d)) : Forward(d, s)
    BY <1>3, <1>5, <1>6
  <1> QED BY <1>3, <1>6, <1>7, <1>8, <1>9 DEF q
-----------------------------------------------------------------------------
(* The topological sort of a task vector: Scheduler.                       *)

TaskVectors == Seq([deps : Seq(Int), priority : Int])

\* What a task vector is made of.
LEMMA VectorIs ==
  ASSUME NEW v \in TaskVectors
  PROVE  /\ Len(v) \in Nat /\ DOMAIN v = 1..Len(v) /\ IsFiniteSet(DOMAIN v) /\ Cardinality(DOMAIN v) = Len(v)
         /\ \A c \in DOMAIN v : v[c].priority \in Int /\ v[c].deps \in Seq(Int) /\ IsFiniteSet(DOMAIN v[c].deps)
  <1>1. Len(v) \in Nat /\ DOMAIN v = 1..Len(v) /\ \A c \in DOMAIN v : v[c] \in [deps : Seq(Int), priority : Int]
    BY LenProperties, ElementOfSeq DEF TaskVectors
  <1>2. IsFiniteSet(DOMAIN v) /\ Cardinality(DOMAIN v) = Len(v)
    <2> DEFINE n == Len(v)
    <2>1. n \in Nat /\ DOMAIN v = 1..n
      BY <1>1
    <2> HIDE DEF n
    <2>2. IsFiniteSet(1..n) /\ Cardinality(1..n) = n
      BY <2>1, FS_Interval
    <2> QED BY <2>1, <2>2 DEF n
  <1>3. \A c \in DOMAIN v : v[c].priority \in Int /\ v[c].deps \in Seq(Int)
    BY <1>1
  <1>4. ASSUME NEW c \in DOMAIN v PROVE IsFiniteSet(DOMAIN v[c].deps)
    <2>1. Len(v[c].deps) \in Nat /\ DOMAIN v[c].deps = 1..Len(v[c].deps)
      BY <1>3, LenProperties
    <2> QED BY <2>1, FS_Interval
  <1> QED BY <1>1, <1>2, <1>3, <1>4

\* The places of c's list that name a task of the vector outside S.
Unmet(v, c, S) == {i \in DOMAIN v[c].deps : v[c].deps[i] \in DOMAIN v /\ v[c].deps[i] \notin S}

\* A task has no unmet dependency exactly when all it needs is there.
LEMMA UnmetIs ==
  ASSUME NEW v \in TaskVectors, NEW c \in DOMAIN v, NEW S
  PROVE  /\ IsFiniteSet(Unmet(v, c, S)) /\ Cardinality(Unmet(v, c, S)) \in Nat
         /\ Cardinality(Unmet(v, c, S)) = 0 <=> Needs(v, c) \subseteq S
  <1>1. IsFiniteSet(Unmet(v, c, S))
    <2>1. Unmet(v, c, S) \in SUBSET DOMAIN v[c].deps
      BY DEF Unmet
    <2> QED BY <2>1, VectorIs, FS_Subset
  <1>2. Unmet(v, c, S) = {} <=> Needs(v, c) \subseteq S
    BY DEF Unmet, Needs
  <1> QED BY <1>1, <1>2, FS_EmptySet, FS_CardinalityType

\* A task taken lowers each count by as often as it is listed.
LEMMA Lowered ==
  ASSUME NEW v \in TaskVectors, NEW c \in DOMAIN v, NEW S, NEW b \in DOMAIN v, b \notin S
  PROVE  /\ Cardinality(Unmet(v, c, S \cup {b})) = Cardinality(Unmet(v, c, S)) - Listed(v, c, b)
         /\ Listed(v, c, b) \in Nat
  <1> DEFINE A == Unmet(v, c, S \cup {b})
             B == {i \in DOMAIN v[c].deps : v[c].deps[i] = b}
  <1>1. IsFiniteSet(A) /\ IsFiniteSet(B)
    <2>1. B \in SUBSET DOMAIN v[c].deps
      OBVIOUS
    <2>2. IsFiniteSet(B)
      BY <2>1, VectorIs, FS_Subset
    <2> QED BY <2>2, UnmetIs
  <1>2. A \cap B = {} /\ A \cup B = Unmet(v, c, S) /\ Listed(v, c, b) = Cardinality(B)
    BY DEF Unmet, Listed
  <1> HIDE DEF A, B
  <1>3. Cardinality(A \cup B) = Cardinality(A) + Cardinality(B) - Cardinality(A \cap B)
    BY <1>1, FS_Union
  <1>4. Cardinality(A) \in Nat /\ Cardinality(B) \in Nat /\ Cardinality({}) = 0
    BY <1>1, FS_CardinalityType, FS_EmptySet
  <1>5. Cardinality(A) = Cardinality(A \cup B) - Cardinality(B)
    BY <1>2, <1>3, <1>4
  <1> QED BY <1>2, <1>4, <1>5 DEF A

\* What holds after i turns: nothing is taken twice, each task stands behind what
\* it needs and beats everything else that could stand in its place, a degree
\* counts what is not met, and the loop has not stopped before it had to.
SortState(v, s, i) ==
    /\ s = [order |-> s.order, taken |-> s.taken, degree |-> s.degree]
    /\ s.order \in Seq(DOMAIN v) /\ s.taken \in [DOMAIN v -> BOOLEAN] /\ s.degree \in [DOMAIN v -> Int]
    /\ \A g, h \in DOMAIN s.order : g # h => s.order[g] # s.order[h]
    /\ \A c \in DOMAIN v : s.taken[c] <=> c \in Range(s.order)
    /\ \A c \in DOMAIN v : s.degree[c] = Cardinality(Unmet(v, c, Range(s.order)))
    /\ \A h \in DOMAIN s.order : Needs(v, s.order[h]) \subseteq Firsts(s.order, h - 1)
    /\ \A h \in DOMAIN s.order : \A c \in DOMAIN v :
         c \notin Firsts(s.order, h) /\ Needs(v, c) \subseteq Firsts(s.order, h - 1) => Beats(v, s.order[h], c)
    /\ Len(s.order) = i \/ Waiting(v, s) = {}

SortStart(v) == [order |-> <<>>, taken |-> [c \in DOMAIN v |-> FALSE],
                 degree |-> [c \in DOMAIN v |-> InDegree(v, c)]]

\* At first nothing is sorted.
LEMMA SortBegins ==
  ASSUME NEW v \in TaskVectors
  PROVE  SortState(v, SortStart(v), 0)
  <1> DEFINE s == SortStart(v)
  <1>1. s.order = <<>> /\ s.taken = [c \in DOMAIN v |-> FALSE] /\ s.degree = [c \in DOMAIN v |-> InDegree(v, c)]
        /\ s = [order |-> s.order, taken |-> s.taken, degree |-> s.degree]
    BY DEF SortStart
  <1> HIDE DEF s
  <1>2. s.order \in Seq(DOMAIN v) /\ Len(s.order) = 0 /\ DOMAIN s.order = {} /\ Range(s.order) = {}
    BY <1>1 DEF Range
  <1>3. ASSUME NEW c \in DOMAIN v
        PROVE  s.degree[c] = Cardinality(Unmet(v, c, Range(s.order))) /\ s.degree[c] \in Int
    <2>1. Unmet(v, c, {}) = {i \in DOMAIN v[c].deps : v[c].deps[i] \in DOMAIN v}
      BY DEF Unmet
    <2>2. s.degree[c] = Cardinality(Unmet(v, c, {}))
      BY <1>1, <2>1 DEF InDegree
    <2>3. Cardinality(Unmet(v, c, {})) \in Nat
      BY UnmetIs
    <2> QED BY <1>2, <2>2, <2>3
  <1>4. s.taken \in [DOMAIN v -> BOOLEAN] /\ s.degree \in [DOMAIN v -> Int]
        /\ \A c \in DOMAIN v : s.taken[c] <=> c \in Range(s.order)
    BY <1>1, <1>2, <1>3
  <1>5. SortState(v, s, 0)
    BY <1>1, <1>2, <1>3, <1>4 DEF SortState
  <1> QED BY <1>5 DEF s

\* The scan finds a task that beats every other that waits.
LEMMA BestIs ==
  ASSUME NEW v \in TaskVectors, NEW s, Waiting(v, s) # {}
  PROVE  Best(v, s) \in Waiting(v, s) /\ \A c \in Waiting(v, s) \ {Best(v, s)} : Beats(v, Best(v, s), c)
  <1> DEFINE S == Waiting(v, s)
             R == {p \in S \X S : Beats(v, p[2], p[1])}
  <1>1. IsFiniteSet(S) /\ S # {} /\ S \subseteq DOMAIN v
    <2>1. S \in SUBSET DOMAIN v
      BY DEF Waiting
    <2> QED BY <2>1, VectorIs, FS_Subset
  <1>2. Orders(R, S)
    <2>1. \A c \in S : v[c].priority \in Int /\ c \in Int
      BY <1>1, VectorIs
    <2> HIDE DEF S
    <2> QED BY <2>1 DEF Orders, Beats
  <1>3. PICK m \in S : \A x \in S \ {m} : <<x, m>> \in R
    <2> HIDE DEF S, R
    <2> QED BY <1>1, <1>2, LastOne
  <1>4. \A x \in S \ {m} : Beats(v, m, x)
    BY <1>3
  <1> QED BY <1>4 DEF Best

\* A turn of the sort takes the best of those that are ready.
LEMMA SortTakes ==
  ASSUME NEW v \in TaskVectors, NEW s, NEW i \in Nat, SortState(v, s, i), Waiting(v, s) # {}
  PROVE  SortState(v, SortTurn(v, s), i + 1)
  <1> DEFINE b == Best(v, s)
             r == s.order
             R == Range(r)
             n == Len(r)
             p == Append(r, b)
             t == SortTurn(v, s)
  <1>1. /\ s.order \in Seq(DOMAIN v) /\ s.taken \in [DOMAIN v -> BOOLEAN] /\ s.degree \in [DOMAIN v -> Int]
        /\ \A g, h \in DOMAIN r : g # h => r[g] # r[h]
        /\ \A c \in DOMAIN v : s.taken[c] <=> c \in R
        /\ \A c \in DOMAIN v : s.degree[c] = Cardinality(Unmet(v, c, R))
        /\ \A h \in DOMAIN r : Needs(v, r[h]) \subseteq Firsts(r, h - 1)
        /\ \A h \in DOMAIN r : \A c \in DOMAIN v :
             c \notin Firsts(r, h) /\ Needs(v, c) \subseteq Firsts(r, h - 1) => Beats(v, r[h], c)
        /\ n = i
    BY Zenon DEF SortState
  <1>2. n \in Nat /\ DOMAIN r = 1..n
    BY <1>1, LenProperties
  <1>3. b \in Waiting(v, s) /\ \A c \in Waiting(v, s) \ {b} : Beats(v, b, c)
    BY BestIs
  <1>4. /\ t = [order |-> t.order, taken |-> t.taken, degree |-> t.degree] /\ t.order = p
        /\ t.taken = [s.taken EXCEPT ![b] = TRUE]
        /\ t.degree = [c \in DOMAIN v |-> s.degree[c] - Listed(v, c, b)]
    BY DEF SortTurn
  <1> HIDE DEF b, t
  <1>5. b \in DOMAIN v /\ b \notin R /\ Needs(v, b) \subseteq R
    <2>1. b \in DOMAIN v /\ ~s.taken[b] /\ s.degree[b] = 0
      BY <1>3 DEF Waiting
    <2>2. Cardinality(Unmet(v, b, R)) = 0
      BY <1>1, <2>1
    <2> HIDE DEF R
    <2> QED BY <1>1, <2>1, <2>2, UnmetIs
  <1>6. /\ p \in Seq(DOMAIN v) /\ Len(p) = n + 1 /\ DOMAIN p = 1..(n + 1) /\ p[n + 1] = b
        /\ \A h \in 1..n : p[h] = r[h]
    <2>1. p \in Seq(DOMAIN v) /\ Len(p) = n + 1 /\ p[n + 1] = b /\ \A h \in 1..n : p[h] = r[h]
      BY <1>1, <1>2, <1>5, AppendProperties
    <2> HIDE DEF p
    <2> QED BY <2>1, LenProperties
  <1> HIDE DEF p, n
  <1>7. Range(p) = R \cup {b}
    <2>1. 1..(n + 1) = (1..n) \cup {n + 1}
      BY <1>2
    <2> QED BY <1>2, <1>6, <2>1 DEF Range
  <1>8. \A h \in 0..n : Firsts(p, h) = Firsts(r, h)
    <2> SUFFICES ASSUME NEW h \in 0..n PROVE Firsts(p, h) = Firsts(r, h)
      OBVIOUS
    <2>1. {y \in DOMAIN p : y <= h} = {y \in DOMAIN r : y <= h}
      BY <1>2, <1>6
    <2>2. \A y \in {z \in DOMAIN r : z <= h} : p[y] = r[y]
      BY <1>2, <1>6
    <2> QED BY <2>1, <2>2 DEF Firsts
  <1>9. Firsts(r, n) = R /\ Firsts(p, n) = R /\ Firsts(p, n + 1) = R \cup {b}
    <2>1. {y \in DOMAIN r : y <= n} = DOMAIN r /\ {y \in DOMAIN p : y <= n + 1} = DOMAIN p /\ n \in 0..n
      BY <1>2, <1>6
    <2>2. Firsts(r, n) = R /\ Firsts(p, n + 1) = Range(p)
      BY <2>1 DEF Firsts, Range
    <2> QED BY <1>7, <1>8, <2>1, <2>2
  <1>10. \A g, h \in DOMAIN p : g # h => p[g] # p[h]
    <2>1. \A g \in 1..n : p[g] \in R
      BY <1>2, <1>6 DEF Range
    <2> SUFFICES ASSUME NEW g \in DOMAIN p, NEW h \in DOMAIN p, g # h PROVE p[g] # p[h]
      OBVIOUS
    <2> HIDE DEF R
    <2>2. (g = n + 1 \/ g \in 1..n) /\ (h = n + 1 \/ h \in 1..n)
      BY <1>2, <1>6
    <2> QED BY <1>1, <1>2, <1>5, <1>6, <2>1, <2>2
  <1>11. t.taken \in [DOMAIN v -> BOOLEAN] /\ \A c \in DOMAIN v : t.taken[c] <=> c \in R \cup {b}
    <2> HIDE DEF R
    <2> QED BY <1>1, <1>4, <1>5
  <1>12. \A c \in DOMAIN v : t.degree[c] = Cardinality(Unmet(v, c, R \cup {b})) /\ t.degree[c] \in Int
    <2> SUFFICES ASSUME NEW c \in DOMAIN v
                 PROVE  t.degree[c] = Cardinality(Unmet(v, c, R \cup {b})) /\ t.degree[c] \in Int
      OBVIOUS
    <2> HIDE DEF R
    <2>1. Cardinality(Unmet(v, c, R \cup {b})) = Cardinality(Unmet(v, c, R)) - Listed(v, c, b)
      BY <1>5, Lowered
    <2>2. t.degree[c] = s.degree[c] - Listed(v, c, b) /\ s.degree[c] = Cardinality(Unmet(v, c, R))
      BY <1>1, <1>4
    <2>3. Cardinality(Unmet(v, c, R \cup {b})) \in Nat
      BY UnmetIs
    <2> QED BY <2>1, <2>2, <2>3
  <1>13. t.degree \in [DOMAIN v -> Int]
    BY <1>4, <1>12
  <1>14. \A h \in DOMAIN p : Needs(v, p[h]) \subseteq Firsts(p, h - 1)
    <2> SUFFICES ASSUME NEW h \in DOMAIN p PROVE Needs(v, p[h]) \subseteq Firsts(p, h - 1)
      OBVIOUS
    <2> HIDE DEF R
    <2>1. CASE h \in 1..n
      <3>1. h - 1 \in 0..n /\ p[h] = r[h]
        BY <1>2, <1>6, <2>1
      <3> QED BY <1>1, <1>2, <1>8, <2>1, <3>1
    <2>2. CASE h = n + 1
      <3>1. h - 1 = n /\ p[h] = b
        BY <1>2, <1>6, <2>2
      <3> QED BY <1>5, <1>9, <3>1
    <2> QED BY <1>2, <1>6, <2>1, <2>2
  <1>15. \A h \in DOMAIN p : \A c \in DOMAIN v :
           c \notin Firsts(p, h) /\ Needs(v, c) \subseteq Firsts(p, h - 1) => Beats(v, p[h], c)
    <2> SUFFICES ASSUME NEW h \in DOMAIN p, NEW c \in DOMAIN v,
                        c \notin Firsts(p, h), Needs(v, c) \subseteq Firsts(p, h - 1)
                 PROVE  Beats(v, p[h], c)
      OBVIOUS
    <2> HIDE DEF R
    <2>1. CASE h \in 1..n
      <3>1. h - 1 \in 0..n /\ h \in 0..n /\ p[h] = r[h]
        BY <1>2, <1>6, <2>1
      <3>2. Firsts(p, h) = Firsts(r, h) /\ Firsts(p, h - 1) = Firsts(r, h - 1)
        BY <1>8, <3>1
      <3> QED BY <1>1, <1>2, <2>1, <3>1, <3>2
    <2>2. CASE h = n + 1
      <3>1. h - 1 = n /\ p[h] = b
        BY <1>2, <1>6, <2>2
      <3>2. c \notin R /\ c # b /\ Needs(v, c) \subseteq R
        BY <1>9, <2>2, <3>1
      <3>3. s.degree[c] = 0 /\ ~s.taken[c]
        BY <1>1, <3>2, UnmetIs
      <3>4. c \in Waiting(v, s)
        BY <3>3 DEF Waiting
      <3> QED BY <1>3, <3>1, <3>2, <3>4
    <2> QED BY <1>2, <1>6, <2>1, <2>2
  <1>16. Len(t.order) = i + 1
    BY <1>1, <1>4, <1>6 DEF n
  <1>17. \A c \in DOMAIN v : t.degree[c] = Cardinality(Unmet(v, c, Range(t.order)))
    BY <1>4, <1>7, <1>12
  <1>18. \A c \in DOMAIN v : t.taken[c] <=> c \in Range(t.order)
    BY <1>4, <1>7, <1>11
  <1>19. t.order = p /\ t = [order |-> t.order, taken |-> t.taken, degree |-> t.degree] /\ p \in Seq(DOMAIN v)
         /\ t.taken \in [DOMAIN v -> BOOLEAN]
    BY <1>4, <1>6, <1>11
  <1>20. SortState(v, t, i + 1)
    BY <1>10, <1>13, <1>14, <1>15, <1>16, <1>17, <1>18, <1>19, Zenon DEF SortState
  <1> QED BY <1>20 DEF t

\* Every turn keeps it.
LEMMA SortTurns ==
  ASSUME NEW v \in TaskVectors, NEW s, NEW i \in Nat, SortState(v, s, i)
  PROVE  SortState(v, SortTurn(v, s), i + 1)
  <1>1. CASE Waiting(v, s) = {}
    <2>1. SortTurn(v, s) = s
      BY <1>1 DEF SortTurn
    <2> QED BY <1>1, <2>1, Zenon DEF SortState
  <1>2. CASE Waiting(v, s) # {}
    BY <1>2, SortTakes
  <1> QED BY <1>1, <1>2

SortTable(v, g) == g = [i \in 0..Len(v) |-> IF i = 0 THEN SortStart(v) ELSE SortTurn(v, g[i - 1])]

\* The turns of the sort exist.
LEMMA SortTableExists ==
  ASSUME NEW v \in TaskVectors
  PROVE  \E g : SortTable(v, g)
  <1> DEFINE n == Len(v)
             X == [order : Seq(DOMAIN v), taken : [DOMAIN v -> BOOLEAN], degree : [DOMAIN v -> Int]]
             x == SortStart(v)
             F == [a \in (1..n) \X X |-> IF SortState(v, a[2], a[1] - 1) THEN SortTurn(v, a[2]) ELSE a[2]]
  <1>0. n \in Nat
    BY VectorIs
  <1>1. \A s, i : SortState(v, s, i) => s \in X
    <2> SUFFICES ASSUME NEW s, NEW i, SortState(v, s, i) PROVE s \in X
      OBVIOUS
    <2>1. s = [order |-> s.order, taken |-> s.taken, degree |-> s.degree] /\ s.order \in Seq(DOMAIN v)
          /\ s.taken \in [DOMAIN v -> BOOLEAN] /\ s.degree \in [DOMAIN v -> Int]
      BY Zenon DEF SortState
    <2> QED BY <2>1
  <1>2. x \in X
    BY <1>1, SortBegins
  <1>3. ASSUME NEW k \in 1..n, NEW s \in X
        PROVE  /\ F[<<k, s>>] \in X
               /\ SortState(v, s, k - 1) => F[<<k, s>>] = SortTurn(v, s) /\ SortState(v, F[<<k, s>>], k)
    <2>1. k - 1 \in Nat /\ (k - 1) + 1 = k
      BY <1>0
    <2>2. F[<<k, s>>] = IF SortState(v, s, k - 1) THEN SortTurn(v, s) ELSE s
      BY <1>0
    <2> HIDE DEF F, X, n
    <2>3. CASE SortState(v, s, k - 1)
      <3>1. SortState(v, SortTurn(v, s), k)
        BY <2>1, <2>3, SortTurns
      <3> QED BY <1>1, <2>2, <2>3, <3>1
    <2>4. CASE ~SortState(v, s, k - 1)
      BY <2>2, <2>4
    <2> QED BY <2>3, <2>4
  <1>4. F \in [(1..n) \X X -> X]
    <2>1. \A a \in (1..n) \X X : F[a] \in X
      <3> SUFFICES ASSUME NEW a \in (1..n) \X X PROVE F[a] \in X
        OBVIOUS
      <3>1. PICK k \in 1..n, s \in X : a = <<k, s>>
        OBVIOUS
      <3> HIDE DEF F, X, n
      <3> QED BY <1>3, <3>1
    <2>2. F = [a \in (1..n) \X X |-> F[a]]
      OBVIOUS
    <2> HIDE DEF F, X, n
    <2> QED BY <2>1, <2>2
  <1> HIDE DEF F, X, n, x
  <1>5. PICK g : Carried(X, n, x, F, g)
    BY <1>0, <1>2, <1>4, Unfolds
  <1>6. g \in [0..n -> X] /\ g[0] = x /\ \A k \in 1..n : g[k] = F[<<k, g[k - 1]>>]
    BY <1>5 DEF Carried
  <1> DEFINE W == {i \in Nat : i <= n => SortState(v, g[i], i)}
  <1>7. 0 \in W
    BY <1>6, SortBegins DEF x
  <1>8. ASSUME NEW i \in Nat, i \in W PROVE i + 1 \in W
    <2> SUFFICES ASSUME i + 1 <= n PROVE SortState(v, g[i + 1], i + 1)
      OBVIOUS
    <2>1. i + 1 \in 1..n /\ i \in 0..n /\ (i + 1) - 1 = i /\ i <= n
      BY <1>0
    <2>2. SortState(v, g[i], i) /\ g[i] \in X
      BY <1>6, <1>8, <2>1
    <2> HIDE DEF W
    <2>3. g[i + 1] = F[<<i + 1, g[i]>>]
      BY <1>6, <2>1
    <2>4. SortState(v, F[<<i + 1, g[i]>>], i + 1)
      BY <1>3, <2>1, <2>2
    <2> QED BY <2>3, <2>4
  <1>9. \A i \in 0..n : SortState(v, g[i], i)
    <2>1. Nat \subseteq W
      <3> HIDE DEF W
      <3> QED BY <1>7, <1>8, SetInduction
    <2> QED BY <1>0, <2>1
  <1>10. ASSUME NEW i \in 0..n PROVE g[i] = IF i = 0 THEN SortStart(v) ELSE SortTurn(v, g[i - 1])
    <2>1. CASE i = 0
      BY <1>6, <2>1 DEF x
    <2>2. CASE i # 0
      <3>1. i \in 1..n /\ i - 1 \in 0..n
        BY <1>0, <2>2
      <3>2. SortState(v, g[i - 1], i - 1) /\ g[i - 1] \in X
        BY <1>6, <1>9, <3>1
      <3> QED BY <1>3, <1>6, <2>2, <3>1, <3>2
    <2> QED BY <2>1, <2>2
  <1>11. g = [i \in 0..n |-> IF i = 0 THEN SortStart(v) ELSE SortTurn(v, g[i - 1])]
    BY <1>6, <1>10
  <1> QED BY <1>11 DEF SortTable, n

\* What holds of the order the sort ends with.
OrderOf(v, r) ==
    /\ r \in Seq(DOMAIN v)
    /\ \A g, h \in DOMAIN r : g # h => r[g] # r[h]
    /\ \A h \in DOMAIN r : Needs(v, r[h]) \subseteq Firsts(r, h - 1)
    /\ \A h \in DOMAIN r : \A c \in DOMAIN v :
         c \notin Firsts(r, h) /\ Needs(v, c) \subseteq Firsts(r, h - 1) => Beats(v, r[h], c)
    /\ \A c \in DOMAIN v : Needs(v, c) \subseteq Range(r) => c \in Range(r)

\* So the sort of a task vector is the order it should be.
LEMMA SortEnds ==
  ASSUME NEW v \in TaskVectors
  PROVE  OrderOf(v, TopologicalSort(v))
  <1> DEFINE n == Len(v)
             k == CHOOSE g : SortTable(v, g)
  <1>1. SortTable(v, k)
    BY SortTableExists
  <1>2. TopologicalSort(v) = k[n].order
    BY DEF TopologicalSort, SortTable, SortStart
  <1>3. n \in Nat /\ Cardinality(DOMAIN v) = n /\ IsFiniteSet(DOMAIN v)
    BY VectorIs
  <1>4. k = [i \in 0..n |-> IF i = 0 THEN SortStart(v) ELSE SortTurn(v, k[i - 1])]
    BY <1>1 DEF SortTable
  <1> HIDE DEF k, n
  <1> DEFINE W == {i \in Nat : i <= n => SortState(v, k[i], i)}
  <1>5. 0 \in W
    <2>1. k[0] = SortStart(v)
      BY <1>3, <1>4
    <2> QED BY <2>1, SortBegins
  <1>6. ASSUME NEW i \in Nat, i \in W PROVE i + 1 \in W
    <2> SUFFICES ASSUME i + 1 <= n PROVE SortState(v, k[i + 1], i + 1)
      OBVIOUS
    <2>1. i + 1 \in 0..n /\ i + 1 # 0 /\ (i + 1) - 1 = i /\ i <= n
      BY <1>3
    <2>2. k[i + 1] = SortTurn(v, k[i])
      BY <1>4, <2>1
    <2>3. SortState(v, k[i], i)
      BY <1>6, <2>1
    <2> HIDE DEF W
    <2> QED BY <2>2, <2>3, SortTurns
  <1>7. SortState(v, k[n], n)
    <2>1. Nat \subseteq W
      <3> HIDE DEF W
      <3> QED BY <1>5, <1>6, SetInduction
    <2> QED BY <1>3, <2>1
  <1> DEFINE s == k[n]
             r == s.order
  <1>8. /\ r \in Seq(DOMAIN v)
        /\ \A g, h \in DOMAIN r : g # h => r[g] # r[h]
        /\ \A c \in DOMAIN v : s.taken[c] <=> c \in Range(r)
        /\ \A c \in DOMAIN v : s.degree[c] = Cardinality(Unmet(v, c, Range(r)))
        /\ \A h \in DOMAIN r : Needs(v, r[h]) \subseteq Firsts(r, h - 1)
        /\ \A h \in DOMAIN r : \A c \in DOMAIN v :
             c \notin Firsts(r, h) /\ Needs(v, c) \subseteq Firsts(r, h - 1) => Beats(v, r[h], c)
        /\ Len(r) = n \/ Waiting(v, s) = {}
    BY <1>7, Zenon DEF SortState
  <1> HIDE DEF s
  <1>9. ASSUME NEW c \in DOMAIN v, Needs(v, c) \subseteq Range(r) PROVE c \in Range(r)
    <2>1. CASE Len(r) = n
      <3>1. Range(r) = DOMAIN v
        BY <1>3, <1>8, <2>1, Distinct
      <3> QED BY <3>1
    <2>2. CASE Waiting(v, s) = {}
      <3>1. s.degree[c] = 0
        BY <1>8, <1>9, UnmetIs
      <3>2. s.taken[c]
        BY <2>2, <3>1 DEF Waiting
      <3> QED BY <1>8, <3>2
    <2> QED BY <1>8, <2>1, <2>2
  <1> HIDE DEF r
  <1>10. OrderOf(v, r)
    BY <1>8, <1>9, Zenon DEF OrderOf
  <1> QED BY <1>2, <1>10 DEF r, s

\* SortExact, of any order with those properties.
LEMMA OrderIsExact ==
  ASSUME NEW v \in TaskVectors, NEW r, OrderOf(v, r)
  PROVE  /\ Len(r) = Len(v) <=>
              \E s \in SetToSeqs(DOMAIN v) : \A i, j \in DOMAIN s : s[i] \in Needs(v, s[j]) => i < j
         /\ \A i, j \in DOMAIN r : i < j =>
              /\ r[i] # r[j] /\ r[j] \notin Needs(v, r[i])
              /\ Needs(v, r[j]) \subseteq {r[h] : h \in 1..(i - 1)} => Beats(v, r[i], r[j])
  <1>1. /\ r \in Seq(DOMAIN v)
        /\ \A g, h \in DOMAIN r : g # h => r[g] # r[h]
        /\ \A h \in DOMAIN r : Needs(v, r[h]) \subseteq Firsts(r, h - 1)
        /\ \A h \in DOMAIN r : \A c \in DOMAIN v :
             c \notin Firsts(r, h) /\ Needs(v, c) \subseteq Firsts(r, h - 1) => Beats(v, r[h], c)
        /\ \A c \in DOMAIN v : Needs(v, c) \subseteq Range(r) => c \in Range(r)
    BY DEF OrderOf
  <1>2. DOMAIN r = 1..Len(r) /\ Len(r) \in Nat
    BY <1>1, LenProperties
  <1>3. IsFiniteSet(DOMAIN v) /\ Cardinality(DOMAIN v) = Len(v)
    BY VectorIs
  <1>4. (Len(r) = Len(v) <=> Range(r) = DOMAIN v) /\ (Len(r) = Len(v) => r \in SetToSeqs(DOMAIN v))
    BY <1>1, <1>3, Distinct
  <1>5. ASSUME NEW i \in DOMAIN r, NEW j \in DOMAIN r, r[i] \in Needs(v, r[j]) PROVE i < j
    <2>1. PICK h \in DOMAIN r : h <= j - 1 /\ r[h] = r[i]
      BY <1>1, <1>5 DEF Firsts
    <2>2. h = i
      BY <1>1, <2>1
    <2> QED BY <1>2, <2>1, <2>2
  <1>6. ASSUME NEW s \in SetToSeqs(DOMAIN v), \A i, j \in DOMAIN s : s[i] \in Needs(v, s[j]) => i < j
        PROVE  Len(r) = Len(v)
    <2> SUFFICES ASSUME ~(DOMAIN v \subseteq Range(r)) PROVE FALSE
      <3>1. Range(r) \subseteq DOMAIN v
        BY <1>1, <1>2 DEF Range
      <3> QED BY <1>4, <3>1
    <2>1. s \in Seq(DOMAIN v) /\ Range(s) = DOMAIN v
      BY <1>3, WholeRange
    <2>2. PICK i \in DOMAIN s : s[i] \notin Range(r) /\ \A j \in DOMAIN s : j < i => s[j] \in Range(r)
      BY <2>1, FirstOutside
    <2>3. s[i] \in DOMAIN v
      BY <2>1 DEF Range
    <2>4. Needs(v, s[i]) \subseteq Range(r)
      <3> SUFFICES ASSUME NEW x \in Needs(v, s[i]) PROVE x \in Range(r)
        OBVIOUS
      <3>1. x \in DOMAIN v
        BY DEF Needs
      <3>2. PICK j \in DOMAIN s : s[j] = x
        BY <2>1, <3>1 DEF Range
      <3> QED BY <1>6, <2>2, <3>2
    <2> QED BY <1>1, <2>2, <2>3, <2>4
  <1>7. ASSUME NEW i \in DOMAIN r, NEW j \in DOMAIN r, i < j
        PROVE  /\ r[i] # r[j] /\ r[j] \notin Needs(v, r[i])
               /\ Needs(v, r[j]) \subseteq {r[h] : h \in 1..(i - 1)} => Beats(v, r[i], r[j])
    <2>1. r[i] # r[j]
      BY <1>1, <1>2, <1>7
    <2>2. r[j] \notin Needs(v, r[i])
      BY <1>2, <1>5, <1>7
    <2>3. {r[h] : h \in 1..(i - 1)} = Firsts(r, i - 1)
      <3>1. 1..(i - 1) = {x \in DOMAIN r : x <= i - 1}
        BY <1>2
      <3> QED BY <3>1 DEF Firsts
    <2>4. r[j] \notin Firsts(r, i)
      BY <1>1, <1>2, <1>7 DEF Firsts
    <2>5. r[j] \in DOMAIN v
      BY <1>1, <1>2
    <2> QED BY <1>1, <2>1, <2>2, <2>3, <2>4, <2>5
  <1>8. Len(r) = Len(v) =>
          \E s \in SetToSeqs(DOMAIN v) : \A i, j \in DOMAIN s : s[i] \in Needs(v, s[j]) => i < j
    BY <1>4, <1>5
  <1> QED BY <1>6, <1>7, <1>8
-----------------------------------------------------------------------------
(* The loaded DAG, the sorted vector and the tiers: Scheduler.             *)

\* What is ready is what is unblocked.
LEMMA ReadyAre ==
  ASSUME WellFormed(dag)
  PROVE  Range(ReadyTasks) = {dag.keys[i] : i \in Unblocked}
  <1> DEFINE S == Unblocked
             R == {p \in S \X S : Ahead(p[1], p[2])}
             ranked == CHOOSE s \in SetToSeqs(Unblocked) : \A i, j \in DOMAIN s : i < j => Ahead(s[i], s[j])
  <1>1. IsFiniteSet(S) /\ S \subseteq DOMAIN dag.keys
    <2>1. S \in SUBSET DOMAIN dag.keys
      BY DEF Unblocked
    <2>2. DOMAIN dag.keys = 1..Len(dag.keys) /\ Len(dag.keys) \in Nat
      BY DEF WellFormed
    <2>3. IsFiniteSet(DOMAIN dag.keys)
      BY <2>2, FS_Interval
    <2> QED BY <2>1, <2>3, FS_Subset
  <1>2. \A i \in S : dag.priority[dag.keys[i]] \in Int /\ i \in Int
    BY <1>1 DEF WellFormed, Keys, Range
  <1>3. Orders(R, S)
    <2> HIDE DEF S
    <2> QED BY <1>2 DEF Orders, Ahead
  <1>4. PICK s : Lists(s, R, S)
    <2> HIDE DEF R, S
    <2> QED BY <1>1, <1>3, Listing
  <1>5. \E t \in SetToSeqs(Unblocked) : \A i, j \in DOMAIN t : i < j => Ahead(t[i], t[j])
    BY <1>4 DEF Lists
  <1>6. ranked \in SetToSeqs(S)
    BY <1>5
  <1>7. ReadyTasks = [i \in DOMAIN ranked |-> dag.keys[ranked[i]]]
    BY DEF ReadyTasks
  <1> HIDE DEF ranked, S
  <1>8. Range(ranked) = S
    BY <1>1, <1>6, WholeRange
  <1>9. Range(ReadyTasks) = {dag.keys[i] : i \in S}
    BY <1>7, <1>8 DEF Range
  <1> QED BY <1>9 DEF S

\* The invariant of the DAG and the vector: what was answered is what Kahn's
\* algorithm says, what is loaded was accepted, and each task that completed had
\* its dependencies completed before it.
OrdersInv ==
    /\ dag \in Dags \cup {NoDag} /\ offered \in Dags \cup {NoDag} /\ accepted \in BOOLEAN
    /\ accepted <=> KahnAccepts(offered)
    /\ KahnAccepts(dag)
    /\ done \in Seq(Keys(dag))
    /\ \A g, h \in DOMAIN done : g # h => done[g] # done[h]
    /\ \A h \in DOMAIN done : DependenciesOf(dag, done[h]) \subseteq Firsts(done, h - 1)
    /\ vec \in TaskVectors /\ (vec = <<>> \/ vec \in Vectors)
    /\ OrderOf(vec, order)

\* At first nothing is loaded.
LEMMA OrdersBegin == SchedulerInit => OrdersInv
  <1> SUFFICES ASSUME SchedulerInit PROVE OrdersInv
    OBVIOUS
  <1>1. dag = NoDag /\ offered = NoDag /\ accepted = TRUE /\ done = <<>> /\ vec = <<>> /\ order = <<>>
    BY DEF SchedulerInit
  <1>2. KahnAccepts(NoDag)
    <2>1. WellFormed(NoDag)
      BY DagsWellFormed
    <2>2. KahnQueue(NoDag) \in Seq(Keys(NoDag))
      BY <2>1, KahnSettles DEF Settled
    <2>3. Keys(NoDag) = {} /\ Len(NoDag.keys) = 0
      BY DEF Keys, NoDag, Range
    <2>4. KahnQueue(NoDag) = <<>>
      BY <2>2, <2>3
    <2> QED BY <2>3, <2>4 DEF KahnAccepts
  <1>3. done \in Seq(Keys(dag)) /\ DOMAIN done = {}
    BY <1>1
  <1>4. vec \in TaskVectors /\ DOMAIN vec = {} /\ DOMAIN order = {} /\ order \in Seq(DOMAIN vec)
    BY <1>1 DEF TaskVectors
  <1>5. OrderOf(vec, order)
    BY <1>4 DEF OrderOf
  <1> QED BY <1>1, <1>2, <1>3, <1>4, <1>5 DEF OrdersInv

\* A load, accepted or refused, keeps the orders.
LEMMA LoadStepKeeps ==
  ASSUME OrdersInv, LoadStep
  PROVE  OrdersInv'
  <1>1. ASSUME NEW d \in Dags, LoadDag(d) PROVE OrdersInv'
    <2>1. /\ offered' = d /\ accepted' = KahnAccepts(d) /\ dag' = IF accepted' THEN d ELSE dag
          /\ done' = IF accepted' THEN <<>> ELSE done
          /\ vec' = vec /\ order' = order
      BY <1>1 DEF LoadDag
    <2>2. KahnAccepts(d) \in BOOLEAN
      BY DEF KahnAccepts
    <2>3. CASE KahnAccepts(d)
      <3>1. dag' = d /\ done' = <<>>
        BY <2>1, <2>3
      <3>2. done' \in Seq(Keys(d)) /\ DOMAIN done' = {}
        BY <3>1
      <3> QED BY <2>1, <2>2, <2>3, <3>1, <3>2 DEF OrdersInv
    <2>4. CASE ~KahnAccepts(d)
      <3>1. dag' = dag /\ done' = done
        BY <2>1, <2>4
      <3> QED BY <2>1, <2>2, <2>4, <3>1 DEF OrdersInv
    <2> QED BY <2>3, <2>4
  <1>2. ASSUME NEW v \in Vectors, SortTasks(v) PROVE OrdersInv'
    <2>1. vec' = v /\ order' = TopologicalSort(v)
          /\ UNCHANGED <<dag, offered, accepted, done>>
      BY <1>2 DEF SortTasks
    <2>2. v \in TaskVectors
      BY VectorsAssumption DEF TaskVectors
    <2>3. OrderOf(v, TopologicalSort(v))
      BY <2>2, SortEnds
    <2> QED BY <2>1, <2>2, <2>3 DEF OrdersInv
  <1> QED BY <1>1, <1>2 DEF LoadStep

\* A task that finishes had its dependencies finished.
LEMMA FinishKeeps ==
  ASSUME OrdersInv, NEW k, Finish(k)
  PROVE  OrdersInv'
  <1> DEFINE n == Len(done)
  <1>1. /\ k \in Range(ReadyTasks) /\ done' = Append(done, k)
        /\ UNCHANGED <<dag, offered, accepted, vec, order>>
    BY DEF Finish
  <1>2. /\ done \in Seq(Keys(dag))
        /\ \A g, h \in DOMAIN done : g # h => done[g] # done[h]
        /\ \A h \in DOMAIN done : DependenciesOf(dag, done[h]) \subseteq Firsts(done, h - 1)
        /\ WellFormed(dag)
    BY DagsWellFormed DEF OrdersInv
  <1>3. k \in Keys(dag) /\ k \notin Range(done) /\ DependenciesOf(dag, k) \subseteq Range(done)
    <2>1. PICK i \in Unblocked : k = dag.keys[i]
      BY <1>1, <1>2, ReadyAre
    <2> QED BY <2>1 DEF Unblocked, DependenciesMet, Keys, Range
  <1>4. n \in Nat /\ DOMAIN done = 1..n
    BY <1>2, LenProperties
  <1>5. /\ done' \in Seq(Keys(dag)) /\ DOMAIN done' = 1..(n + 1) /\ done'[n + 1] = k
        /\ \A h \in 1..n : done'[h] = done[h]
    <2>1. done' \in Seq(Keys(dag)) /\ Len(done') = n + 1 /\ done'[n + 1] = k /\ \A h \in 1..n : done'[h] = done[h]
      BY <1>1, <1>2, <1>3, AppendProperties
    <2> QED BY <2>1, LenProperties
  <1> HIDE DEF n
  <1>6. \A g, h \in DOMAIN done' : g # h => done'[g] # done'[h]
    <2> SUFFICES ASSUME NEW g \in DOMAIN done', NEW h \in DOMAIN done', g # h PROVE done'[g] # done'[h]
      OBVIOUS
    <2>1. \A i \in 1..n : done'[i] # k
      BY <1>3, <1>4, <1>5 DEF Range
    <2>2. (g = n + 1 \/ g \in 1..n) /\ (h = n + 1 \/ h \in 1..n)
      BY <1>4, <1>5
    <2> QED BY <1>2, <1>4, <1>5, <2>1, <2>2
  <1>7. \A h \in 0..n : Firsts(done, h) \subseteq Firsts(done', h)
    <2> SUFFICES ASSUME NEW h \in 0..n, NEW x \in Firsts(done, h) PROVE x \in Firsts(done', h)
      OBVIOUS
    <2>1. PICK i \in DOMAIN done : i <= h /\ x = done[i]
      BY DEF Firsts
    <2>2. i \in DOMAIN done' /\ x = done'[i]
      BY <1>4, <1>5, <2>1
    <2> QED BY <2>1, <2>2 DEF Firsts
  <1>8. Firsts(done, n) = Range(done)
    <2>1. {x \in DOMAIN done : x <= n} = DOMAIN done
      BY <1>4
    <2> QED BY <2>1 DEF Firsts, Range
  <1>9. \A h \in DOMAIN done' : DependenciesOf(dag, done'[h]) \subseteq Firsts(done', h - 1)
    <2> SUFFICES ASSUME NEW h \in DOMAIN done' PROVE DependenciesOf(dag, done'[h]) \subseteq Firsts(done', h - 1)
      OBVIOUS
    <2>1. CASE h = n + 1
      <3>1. h - 1 = n /\ n \in 0..n /\ done'[h] = k
        BY <1>4, <1>5, <2>1
      <3> QED BY <1>3, <1>7, <1>8, <3>1
    <2>2. CASE h \in 1..n
      <3>1. h - 1 \in 0..n /\ done'[h] = done[h] /\ h \in DOMAIN done
        BY <1>4, <1>5, <2>2
      <3> QED BY <1>2, <1>7, <3>1
    <2> QED BY <1>4, <1>5, <2>1, <2>2
  <1> QED BY <1>1, <1>5, <1>6, <1>9, Zenon DEF OrdersInv

\* Every step of the scheduler keeps the orders.
LEMMA OrdersStep ==
  ASSUME OrdersInv, [SchedulerNext]_schedulerVars
  PROVE  OrdersInv'
  <1>1. CASE LoadStep
    BY <1>1, LoadStepKeeps
  <1>2. ASSUME NEW k \in Keys(dag), Finish(k) PROVE OrdersInv'
    BY <1>2, FinishKeeps
  <1>3. CASE UNCHANGED <<dag, offered, accepted, done, vec, order>>
    BY <1>3 DEF OrdersInv
  <1>4. CASE QueueStep
    BY <1>3, <1>4 DEF QueueStep, Enqueue, Dequeue
  <1>5. CASE UNCHANGED schedulerVars
    BY <1>3, <1>5 DEF schedulerVars
  <1> QED BY <1>1, <1>2, <1>4, <1>5 DEF SchedulerNext

\* What the invariant says of the DAG that was offered and of the one that is loaded.
LEMMA OrdersSay ==
  ASSUME OrdersInv
  PROVE  KahnExact /\ RunsThrough /\ SortExact
  <1>1. KahnExact
    <2>1. WellFormed(offered) /\ (accepted <=> KahnAccepts(offered))
      BY DagsWellFormed DEF OrdersInv
    <2> QED BY <2>1, KahnIsExact DEF KahnExact
  <1>2. /\ done \in Seq(Keys(dag)) /\ WellFormed(dag) /\ KahnAccepts(dag)
        /\ \A g, h \in DOMAIN done : g # h => done[g] # done[h]
        /\ \A h \in DOMAIN done : DependenciesOf(dag, done[h]) \subseteq Firsts(done, h - 1)
    BY DagsWellFormed DEF OrdersInv
  <1>3. DOMAIN done = 1..Len(done) /\ Len(done) \in Nat
    BY <1>2, LenProperties
  <1>4. NeverStuck
    <2> SUFFICES ASSUME Range(done) # Keys(dag) PROVE ReadyTasks # <<>>
      BY DEF NeverStuck
    <2> DEFINE w == KahnQueue(dag)
    <2>1. w \in Seq(Keys(dag)) /\ \A h \in DOMAIN w : DependenciesOf(dag, w[h]) \subseteq Firsts(w, h - 1)
      BY <1>2, KahnSettles DEF Settled
    <2>2. Range(w) = Keys(dag)
      BY <1>2, KahnIsExact
    <2>3. Range(done) \subseteq Keys(dag)
      BY <1>2, <1>3 DEF Range
    <2> HIDE DEF w
    <2>4. PICK i \in DOMAIN w : w[i] \notin Range(done) /\ \A j \in DOMAIN w : j < i => w[j] \in Range(done)
      BY <2>1, <2>2, <2>3, FirstOutside
    <2>5. DependenciesOf(dag, w[i]) \subseteq Range(done)
      <3> SUFFICES ASSUME NEW x \in DependenciesOf(dag, w[i]) PROVE x \in Range(done)
        OBVIOUS
      <3>1. PICK j \in DOMAIN w : j <= i - 1 /\ x = w[j]
        BY <2>1 DEF Firsts
      <3>2. DOMAIN w \subseteq Int
        BY <2>1
      <3>3. j < i
        BY <3>1, <3>2
      <3> QED BY <2>4, <3>1, <3>3
    <2>6. PICK h \in DOMAIN dag.keys : dag.keys[h] = w[i]
      BY <2>2 DEF Keys, Range
    <2>7. h \in Unblocked
      BY <2>4, <2>5, <2>6 DEF Unblocked, DependenciesMet
    <2>8. Range(ReadyTasks) # {}
      BY <1>2, <2>7, ReadyAre
    <2> QED BY <2>8 DEF Range
  <1>5. RunsForward
    <2> SUFFICES ASSUME NEW i \in DOMAIN done, NEW j \in DOMAIN done, <<done[i], done[j]>> \in dag.edges
                 PROVE  i < j
      BY <1>2 DEF RunsForward
    <2>1. done[i] \in DependenciesOf(dag, done[j])
      BY <1>2, EdgesAre
    <2>2. PICK h \in DOMAIN done : h <= j - 1 /\ done[h] = done[i]
      BY <1>2, <2>1 DEF Firsts
    <2>3. h = i
      BY <1>2, <2>2
    <2> QED BY <1>3, <2>2, <2>3
  <1>6. SortExact
    <2>1. vec \in TaskVectors /\ OrderOf(vec, order)
      BY DEF OrdersInv
    <2>2. /\ Len(order) = Len(vec) <=>
               \E s \in SetToSeqs(DOMAIN vec) : \A i, j \in DOMAIN s : s[i] \in Needs(vec, s[j]) => i < j
          /\ \A i, j \in DOMAIN order : i < j =>
               /\ order[i] # order[j] /\ order[j] \notin Needs(vec, order[i])
               /\ Needs(vec, order[j]) \subseteq {order[h] : h \in 1..(i - 1)} => Beats(vec, order[i], order[j])
      BY <2>1, OrderIsExact
    <2> QED BY <2>2, Zenon DEF SortExact, Beats
  <1> QED BY <1>1, <1>4, <1>5, <1>6 DEF RunsThrough
-----------------------------------------------------------------------------
Waitings == [priority : Priorities, at : Nat]

\* A tier holds the tasks of its own priorities, in the order they came.
TiersInv ==
    /\ queues \in [Tiers -> Seq(Waitings)] /\ arrivals \in Nat /\ arrivals <= MaxArrivals
    /\ taken \in Seq(Waitings) /\ loads \in 0..MaxLoads
    /\ \A t \in Tiers : \A i \in DOMAIN queues[t] :
         TierOf(queues[t][i].priority) = t /\ queues[t][i].at < arrivals
    /\ \A t \in Tiers : \A i, j \in DOMAIN queues[t] : i < j => queues[t][i].at < queues[t][j].at

\* Every priority has its tier.
LEMMA TierIs == ASSUME NEW p \in Int PROVE TierOf(p) \in Tiers
  BY DEF TierOf, Tiers

\* At first the tiers are empty.
LEMMA TiersBegin == SchedulerInit => TiersInv
  <1> SUFFICES ASSUME SchedulerInit PROVE TiersInv
    OBVIOUS
  <1>1. queues = [t \in Tiers |-> <<>>] /\ arrivals = 0 /\ taken = <<>> /\ loads = 0
    BY DEF SchedulerInit
  <1>2. \A t \in Tiers : queues[t] = <<>> /\ DOMAIN queues[t] = {}
    BY <1>1
  <1>3. queues \in [Tiers -> Seq(Waitings)] /\ taken \in Seq(Waitings)
    BY <1>1
  <1> QED BY <1>1, <1>2, <1>3, LimitsAssumption DEF TiersInv

\* An arrival goes to the end of its tier.
LEMMA EnqueueKeeps ==
  ASSUME TiersInv, NEW p \in Priorities, Enqueue(p)
  PROVE  TiersInv'
  <1> DEFINE t == TierOf(p)
             e == [priority |-> p, at |-> arrivals]
  <1>1. t \in Tiers /\ e \in Waitings /\ p \in Int
    BY PrioritiesAssumption, TierIs DEF TiersInv, Waitings
  <1>2. /\ arrivals < MaxArrivals /\ arrivals' = arrivals + 1
        /\ queues' = [queues EXCEPT ![t] = Append(@, e)] /\ UNCHANGED <<taken, loads>>
    BY DEF Enqueue
  <1>3. e.priority = p /\ e.at = arrivals /\ TierOf(p) = t
    OBVIOUS
  <1> HIDE DEF t, e
  <1>4. /\ queues \in [Tiers -> Seq(Waitings)] /\ arrivals \in Nat
        /\ \A u \in Tiers : Len(queues[u]) \in Nat /\ DOMAIN queues[u] = 1..Len(queues[u])
    BY LenProperties DEF TiersInv
  <1>5. \A u \in Tiers : u # t => queues'[u] = queues[u]
    BY <1>2, <1>4
  <1> DEFINE n == Len(queues[t])
  <1>6. /\ queues'[t] \in Seq(Waitings) /\ DOMAIN queues'[t] = 1..(n + 1)
        /\ queues'[t][n + 1] = e /\ \A i \in 1..n : queues'[t][i] = queues[t][i]
    <2>1. queues'[t] = Append(queues[t], e)
      BY <1>1, <1>2, <1>4
    <2>2. queues[t] \in Seq(Waitings)
      BY <1>1, <1>4
    <2>3. /\ Append(queues[t], e) \in Seq(Waitings) /\ Len(Append(queues[t], e)) = n + 1
          /\ Append(queues[t], e)[n + 1] = e /\ \A i \in 1..n : Append(queues[t], e)[i] = queues[t][i]
      BY <1>1, <2>2, AppendProperties
    <2> QED BY <2>1, <2>3, LenProperties
  <1>7. queues' \in [Tiers -> Seq(Waitings)]
    BY <1>1, <1>2, <1>4, <1>6
  <1>8. \A u \in Tiers : \A i \in DOMAIN queues[u] :
          TierOf(queues[u][i].priority) = u /\ queues[u][i].at < arrivals /\ queues[u][i].at \in Nat
    <2> SUFFICES ASSUME NEW u \in Tiers, NEW i \in DOMAIN queues[u]
                 PROVE  TierOf(queues[u][i].priority) = u /\ queues[u][i].at < arrivals /\ queues[u][i].at \in Nat
      OBVIOUS
    <2>1. queues[u][i] \in Waitings
      BY <1>4, ElementOfSeq
    <2> QED BY <2>1 DEF TiersInv, Waitings
  <1>9. ASSUME NEW u \in Tiers, NEW i \in DOMAIN queues'[u]
        PROVE  TierOf(queues'[u][i].priority) = u /\ queues'[u][i].at < arrivals'
    <2>1. CASE u # t
      <3>1. queues'[u] = queues[u]
        BY <1>5, <2>1
      <3> QED BY <1>2, <1>4, <1>8, <3>1
    <2>2. CASE u = t /\ i = n + 1
      BY <1>2, <1>3, <1>4, <1>6, <2>2
    <2>3. CASE u = t /\ i # n + 1
      <3>1. i \in 1..n
        BY <1>1, <1>4, <1>6, <2>3
      <3> QED BY <1>1, <1>2, <1>4, <1>6, <1>8, <2>3, <3>1
    <2> QED BY <2>1, <2>2, <2>3
  <1>10. ASSUME NEW u \in Tiers, NEW i \in DOMAIN queues'[u], NEW j \in DOMAIN queues'[u], i < j
         PROVE  queues'[u][i].at < queues'[u][j].at
    <2>0. \A k, l \in DOMAIN queues[u] : k < l => queues[u][k].at < queues[u][l].at
      BY DEF TiersInv
    <2>1. CASE u # t
      BY <1>5, <1>10, <2>0, <2>1
    <2>2. CASE u = t
      <3>1. n \in Nat /\ DOMAIN queues[t] = 1..n /\ i \in 1..n /\ (j = n + 1 \/ j \in 1..n)
        BY <1>1, <1>4, <1>6, <1>10, <2>2
      <3>2. CASE j = n + 1
        BY <1>1, <1>3, <1>6, <1>8, <2>2, <3>1, <3>2
      <3>3. CASE j \in 1..n
        BY <1>6, <1>10, <2>0, <2>2, <3>1, <3>3
      <3> QED BY <3>1, <3>2, <3>3
    <2> QED BY <2>1, <2>2
  <1>11. arrivals' \in Nat /\ arrivals' <= MaxArrivals /\ taken' \in Seq(Waitings) /\ loads' \in 0..MaxLoads
    BY <1>2, <1>4, LimitsAssumption DEF TiersInv
  <1> QED BY <1>7, <1>9, <1>10, <1>11 DEF TiersInv

\* dequeue takes the first of the highest tier that holds one.
LEMMA DequeueKeeps ==
  ASSUME TiersInv, Dequeue
  PROVE  TiersInv'
  <1>1. PICK t \in Tiers : /\ queues[t] # <<>> /\ taken' = <<Head(queues[t])>>
                           /\ queues' = [queues EXCEPT ![t] = Tail(@)] /\ UNCHANGED <<arrivals, loads>>
    BY DEF Dequeue
  <1>2. queues \in [Tiers -> Seq(Waitings)] /\ queues[t] \in Seq(Waitings)
    BY DEF TiersInv
  <1>3. /\ Head(queues[t]) \in Waitings /\ Tail(queues[t]) \in Seq(Waitings)
        /\ Len(queues[t]) \in Nat /\ DOMAIN queues[t] = 1..Len(queues[t])
        /\ DOMAIN Tail(queues[t]) = 1..(Len(queues[t]) - 1)
        /\ \A i \in 1..(Len(queues[t]) - 1) : Tail(queues[t])[i] = queues[t][i + 1]
    <2>1. /\ Head(queues[t]) \in Waitings /\ Tail(queues[t]) \in Seq(Waitings)
          /\ Len(Tail(queues[t])) = Len(queues[t]) - 1
          /\ \A i \in 1..Len(Tail(queues[t])) : Tail(queues[t])[i] = queues[t][i + 1]
      BY <1>1, <1>2, HeadTailProperties
    <2> QED BY <1>2, <2>1, LenProperties
  <1>4. queues'[t] = Tail(queues[t]) /\ \A u \in Tiers : u # t => queues'[u] = queues[u]
    BY <1>1, <1>2
  <1>b. \A i \in DOMAIN queues'[t] : i \in Int /\ i + 1 \in DOMAIN queues[t] /\ queues'[t][i] = queues[t][i + 1]
    <2> DEFINE m == Len(queues[t])
    <2>1. /\ m \in Nat /\ DOMAIN queues[t] = 1..m /\ DOMAIN queues'[t] = 1..(m - 1)
          /\ \A i \in 1..(m - 1) : queues'[t][i] = queues[t][i + 1]
      BY <1>3, <1>4
    <2> HIDE DEF m
    <2>2. \A i \in 1..(m - 1) : i \in Int /\ i + 1 \in 1..m
      BY <2>1
    <2> QED BY <2>1, <2>2
  <1>5. queues' \in [Tiers -> Seq(Waitings)] /\ taken' \in Seq(Waitings)
    BY <1>1, <1>2, <1>3
  <1>6. ASSUME NEW u \in Tiers, NEW i \in DOMAIN queues'[u]
        PROVE  TierOf(queues'[u][i].priority) = u /\ queues'[u][i].at < arrivals'
    <2>1. CASE u # t
      BY <1>1, <1>4, <2>1 DEF TiersInv
    <2>2. CASE u = t
      <3>1. i + 1 \in DOMAIN queues[t] /\ queues'[u][i] = queues[t][i + 1]
        BY <1>b, <2>2
      <3> QED BY <1>1, <2>2, <3>1 DEF TiersInv
    <2> QED BY <2>1, <2>2
  <1>7. ASSUME NEW u \in Tiers, NEW i \in DOMAIN queues'[u], NEW j \in DOMAIN queues'[u], i < j
        PROVE  queues'[u][i].at < queues'[u][j].at
    <2>0. \A k, l \in DOMAIN queues[u] : k < l => queues[u][k].at < queues[u][l].at
      BY DEF TiersInv
    <2>1. CASE u # t
      BY <1>4, <1>7, <2>0, <2>1
    <2>2. CASE u = t
      <3>1. /\ i + 1 \in DOMAIN queues[t] /\ queues'[u][i] = queues[t][i + 1]
            /\ j + 1 \in DOMAIN queues[t] /\ queues'[u][j] = queues[t][j + 1] /\ i + 1 < j + 1
        <4>1. i \in Int /\ j \in Int
          BY <1>b, <2>2
        <4> QED BY <1>b, <1>7, <2>2, <4>1
      <3> QED BY <2>0, <2>2, <3>1
    <2> QED BY <2>1, <2>2
  <1> QED BY <1>1, <1>5, <1>6, <1>7 DEF TiersInv

\* Every step of the scheduler keeps the tiers.
LEMMA TiersStep ==
  ASSUME TiersInv, [SchedulerNext]_schedulerVars
  PROVE  TiersInv'
  <1>1. ASSUME NEW p \in Priorities, Enqueue(p) PROVE TiersInv'
    BY <1>1, EnqueueKeeps
  <1>2. CASE Dequeue
    BY <1>2, DequeueKeeps
  <1>3. CASE UNCHANGED <<queues, arrivals, taken>> /\ loads' \in 0..MaxLoads
    BY <1>3 DEF TiersInv
  <1>4. CASE LoadStep
    <2>1. UNCHANGED <<queues, arrivals, taken>> /\ loads < MaxLoads /\ loads' = loads + 1
      BY <1>4 DEF LoadStep, LoadDag, SortTasks
    <2>2. loads' \in 0..MaxLoads
      BY <2>1, LimitsAssumption DEF TiersInv
    <2> QED BY <1>3, <2>1, <2>2
  <1>5. ASSUME NEW k \in Keys(dag), Finish(k) PROVE TiersInv'
    <2>1. UNCHANGED <<queues, arrivals, taken, loads>>
      BY <1>5 DEF Finish
    <2> QED BY <1>3, <2>1 DEF TiersInv
  <1>6. CASE UNCHANGED schedulerVars
    <2>1. UNCHANGED <<queues, arrivals, taken, loads>>
      BY <1>6 DEF schedulerVars
    <2> QED BY <1>3, <2>1 DEF TiersInv
  <1> QED BY <1>1, <1>2, <1>4, <1>5, <1>6 DEF SchedulerNext, QueueStep

\* Dequeue takes the head of the highest tier, which nothing that waits outranks.
LEMMA TakenFirst ==
  ASSUME TiersInv, Dequeue, NEW w \in Waiters
  PROVE  LET x == taken'[1] IN
           \/ w.priority < x.priority
           \/ /\ x.at <= w.at
              /\ w.priority = x.priority \/ x.priority >= 4 \/ w.priority <= 0
  <1>1. PICK t \in Tiers : /\ queues[t] # <<>> /\ taken' = <<Head(queues[t])>>
                           /\ \A u \in Tiers : u > t => queues[u] = <<>>
    BY DEF Dequeue
  <1>2. queues \in [Tiers -> Seq(Waitings)] /\ queues[t] \in Seq(Waitings)
    BY DEF TiersInv
  <1>a. PICK u \in Tiers : w \in Range(queues[u])
    BY DEF Waiters
  <1>3. PICK i \in DOMAIN queues[u] : w = queues[u][i]
    BY <1>a DEF Range
  <1> DEFINE x == Head(queues[t])
  <1>4. 1 \in DOMAIN queues[t] /\ x = queues[t][1] /\ x \in Waitings
    BY <1>1, <1>2
  <1>5. w \in Waitings /\ DOMAIN queues[u] = 1..Len(queues[u]) /\ Len(queues[u]) \in Nat
    BY <1>2, <1>3, ElementOfSeq, LenProperties
  <1>6. TierOf(x.priority) = t /\ TierOf(w.priority) = u
    BY <1>3, <1>4 DEF TiersInv
  <1>7. u <= t
    <2>1. queues[u] # <<>>
      BY <1>3
    <2> QED BY <1>1, <2>1 DEF Tiers
  <1>8. x.priority \in Int /\ w.priority \in Int /\ x.at \in Nat /\ w.at \in Nat
    BY <1>4, <1>5, PrioritiesAssumption DEF Waitings
  <1>9. taken'[1] = x
    BY <1>1
  <1>10. CASE u < t
    <2>1. w.priority < x.priority
      BY <1>6, <1>8, <1>10 DEF TierOf, Tiers
    <2> QED BY <1>9, <2>1
  <1>11. CASE u = t
    <2>1. x.at <= w.at
      <3>1. CASE i = 1
        BY <1>3, <1>4, <1>8, <1>11, <3>1
      <3>2. CASE i # 1
        <4>1. 1 < i
          BY <1>3, <1>5, <3>2
        <4>2. queues[t][1].at < queues[t][i].at
          BY <1>3, <1>4, <1>11, <4>1 DEF TiersInv
        <4> QED BY <1>3, <1>4, <1>8, <1>11, <4>2
      <3> QED BY <3>1, <3>2
    <2>2. w.priority = x.priority \/ x.priority >= 4 \/ w.priority <= 0
      BY <1>6, <1>8, <1>11 DEF TierOf, Tiers
    <2> QED BY <1>9, <2>1, <2>2
  <1> QED BY <1>7, <1>10, <1>11 DEF Tiers
-----------------------------------------------------------------------------
(* The inference queue.                                                    *)

\* The types, with what a thread's place says of the request it holds.
ThreadsInv ==
    /\ InferenceTypeOK
    /\ \A w \in Workers : IF at[w] = "run" THEN running[w] \in Requests ELSE running[w] = NoRequest

\* An open request has exactly one place, and only open requests have one; a
\* request waits on the level of its priority.
PlacesInv ==
    /\ \A l \in Levels : \A i \in DOMAIN levels[l] :
         /\ reply[levels[l][i]] = "open" /\ MapPriority(priority[levels[l][i]]) = l
         /\ \A w \in Workers : running[w] # levels[l][i]
    /\ \A l, m \in Levels : \A i \in DOMAIN levels[l], j \in DOMAIN levels[m] :
         levels[l][i] = levels[m][j] => l = m /\ i = j
    /\ \A w \in Workers : running[w] # NoRequest =>
         /\ reply[running[w]] = "open"
         /\ \A x \in Workers : x # w => running[x] # running[w]
    /\ \A q \in Requests : reply[q] = "open" =>
         (\E l \in Levels : \E i \in DOMAIN levels[l] : levels[l][i] = q) \/ \E w \in Workers : running[w] = q

InferenceInv == ThreadsInv /\ PlacesInv

\* Every priority has its level.
LEMMA LevelOf == \A p \in Int : MapPriority(p) \in Levels
  BY DEF MapPriority, Levels

\* A level is a sequence of requests.
LEMMA LevelsAre ==
  ASSUME InferenceTypeOK, NEW l \in Levels
  PROVE  /\ levels[l] \in Seq(Requests) /\ Len(levels[l]) \in Nat /\ DOMAIN levels[l] = 1..Len(levels[l])
         /\ \A i \in DOMAIN levels[l] : levels[l][i] \in Requests
  <1>1. levels[l] \in Seq(Requests)
    BY DEF InferenceTypeOK
  <1> QED BY <1>1, LenProperties, ElementOfSeq

\* At first nothing waits.
LEMMA InferenceBegins == InferenceInit => InferenceInv
  <1> SUFFICES ASSUME InferenceInit PROVE InferenceInv
    OBVIOUS
  <1>1. /\ levels = [l \in Levels |-> <<>>]
        /\ priority = [q \in Requests |-> 0] /\ reply = [q \in Requests |-> "none"]
        /\ running = [w \in Workers |-> NoRequest] /\ at = [w \in Workers |-> "head"]
        /\ stop = [w \in Workers |-> FALSE]
    BY DEF InferenceInit
  <1>2. \A l \in Levels : levels[l] = <<>> /\ DOMAIN levels[l] = {}
    BY <1>1
  <1>3. levels \in [Levels -> Seq(Requests)]
    BY <1>1
  <1>4. InferenceTypeOK
    BY <1>1, <1>3 DEF InferenceTypeOK
  <1>5. ThreadsInv
    BY <1>1, <1>4 DEF ThreadsInv
  <1>6. PlacesInv
    BY <1>1, <1>2 DEF PlacesInv
  <1> QED BY <1>5, <1>6 DEF InferenceInv

\* A request enters at the end of its level.
LEMMA EnqueueRequestKeeps ==
  ASSUME InferenceInv, NEW q \in Requests, NEW p \in TaskPriorities, EnqueueRequest(q, p)
  PROVE  InferenceInv'
  <1> DEFINE l0 == MapPriority(p)
             n == Len(levels[l0])
  <1>1. /\ reply[q] = "none" /\ reply' = [reply EXCEPT ![q] = "open"]
        /\ priority' = [priority EXCEPT ![q] = p]
        /\ levels' = [levels EXCEPT ![l0] = Append(@, q)]
        /\ UNCHANGED <<running, at, stop>>
    BY DEF EnqueueRequest
  <1>2. InferenceTypeOK /\ ThreadsInv /\ PlacesInv /\ l0 \in Levels
    BY LevelOf, TaskPrioritiesAssumption DEF InferenceInv, ThreadsInv
  <1>3. MapPriority(p) = l0
    OBVIOUS
  <1> HIDE DEF l0
  <1>4. /\ levels' \in [Levels -> Seq(Requests)]
        /\ DOMAIN levels'[l0] = 1..(n + 1) /\ n \in Nat /\ DOMAIN levels[l0] = 1..n
        /\ levels'[l0][n + 1] = q /\ \A i \in 1..n : levels'[l0][i] = levels[l0][i]
        /\ \A l \in Levels : l # l0 => levels'[l] = levels[l]
    <2>1. levels[l0] \in Seq(Requests) /\ n \in Nat /\ DOMAIN levels[l0] = 1..n
      BY <1>2, LevelsAre
    <2>2. levels'[l0] = Append(levels[l0], q) /\ \A l \in Levels : l # l0 => levels'[l] = levels[l]
      BY <1>1, <1>2 DEF InferenceTypeOK
    <2>3. /\ Append(levels[l0], q) \in Seq(Requests) /\ Len(Append(levels[l0], q)) = n + 1
          /\ Append(levels[l0], q)[n + 1] = q /\ \A i \in 1..n : Append(levels[l0], q)[i] = levels[l0][i]
      BY <2>1, AppendProperties
    <2>4. DOMAIN levels'[l0] = 1..(n + 1)
      BY <2>2, <2>3, LenProperties
    <2>5. levels' \in [Levels -> Seq(Requests)]
      BY <1>1, <1>2, <2>2, <2>3 DEF InferenceTypeOK
    <2> QED BY <2>1, <2>2, <2>3, <2>4, <2>5
  <1> HIDE DEF n
  <1>5. ThreadsInv'
    BY <1>1, <1>2, <1>4 DEF ThreadsInv, InferenceTypeOK
  <1>6. \A x \in Requests : reply'[x] = IF x = q THEN "open" ELSE reply[x]
    BY <1>1, <1>2 DEF InferenceTypeOK
  <1>7. \A x \in Requests : priority'[x] = IF x = q THEN p ELSE priority[x]
    BY <1>1, <1>2 DEF InferenceTypeOK
  <1>8. ASSUME NEW l \in Levels, NEW i \in DOMAIN levels'[l]
        PROVE  (l = l0 /\ i = n + 1 /\ levels'[l][i] = q)
               \/ (i \in DOMAIN levels[l] /\ levels'[l][i] = levels[l][i] /\ levels[l][i] # q /\ levels[l][i] \in Requests)
    <2>0. \A j \in DOMAIN levels[l] : levels[l][j] # q /\ levels[l][j] \in Requests
      BY <1>1, <1>2, LevelsAre DEF PlacesInv
    <2>1. CASE l # l0
      BY <1>4, <2>0, <2>1
    <2>2. CASE l = l0
      <3>1. i = n + 1 \/ i \in 1..n
        BY <1>4, <2>2
      <3> QED BY <1>4, <2>0, <2>2, <3>1
    <2> QED BY <2>1, <2>2
  <1>9. \A w \in Workers : running[w] # q
    BY <1>1, <1>2, NoRequestAssumption DEF PlacesInv
  <1>10. ASSUME NEW l \in Levels, NEW i \in DOMAIN levels'[l]
         PROVE  /\ reply'[levels'[l][i]] = "open" /\ MapPriority(priority'[levels'[l][i]]) = l
                /\ \A w \in Workers : running'[w] # levels'[l][i]
    <2>1. CASE l = l0 /\ i = n + 1 /\ levels'[l][i] = q
      BY <1>1, <1>3, <1>6, <1>7, <1>9, <2>1
    <2>2. CASE i \in DOMAIN levels[l] /\ levels'[l][i] = levels[l][i] /\ levels[l][i] # q /\ levels[l][i] \in Requests
      BY <1>1, <1>2, <1>6, <1>7, <2>2 DEF PlacesInv
    <2> QED BY <1>8, <2>1, <2>2
  <1>11. ASSUME NEW l \in Levels, NEW m \in Levels, NEW i \in DOMAIN levels'[l], NEW j \in DOMAIN levels'[m],
                levels'[l][i] = levels'[m][j]
         PROVE  l = m /\ i = j
    BY <1>2, <1>8, <1>11 DEF PlacesInv
  <1>12. \A w \in Workers : running'[w] # NoRequest =>
           /\ reply'[running'[w]] = "open"
           /\ \A x \in Workers : x # w => running'[x] # running'[w]
    BY <1>1, <1>2, <1>6 DEF PlacesInv, ThreadsInv, InferenceTypeOK
  <1>13. ASSUME NEW x \in Requests, reply'[x] = "open"
         PROVE  (\E l \in Levels : \E i \in DOMAIN levels'[l] : levels'[l][i] = x) \/ \E w \in Workers : running'[w] = x
    <2>1. CASE x = q
      <3>1. n + 1 \in DOMAIN levels'[l0]
        BY <1>4
      <3> QED BY <1>2, <1>4, <2>1, <3>1
    <2>2. CASE x # q
      <3>1. reply[x] = "open"
        BY <1>6, <1>13, <2>2
      <3>2. CASE \E w \in Workers : running[w] = x
        BY <1>1, <3>2
      <3>3. CASE \E l \in Levels : \E i \in DOMAIN levels[l] : levels[l][i] = x
        <4>1. PICK l \in Levels : \E i \in DOMAIN levels[l] : levels[l][i] = x
          BY <3>3
        <4>2. PICK i \in DOMAIN levels[l] : levels[l][i] = x
          BY <4>1
        <4>3. i \in DOMAIN levels'[l] /\ levels'[l][i] = x
          <5>1. CASE l # l0
            BY <1>4, <4>2, <5>1
          <5>2. CASE l = l0
            <6>1. i \in 1..n
              BY <1>4, <4>2, <5>2
            <6>2. i \in 1..(n + 1)
              BY <1>4, <6>1
            <6> QED BY <1>4, <4>2, <5>2, <6>1, <6>2
          <5> QED BY <5>1, <5>2
        <4> QED BY <4>3
      <3> QED BY <1>2, <3>1, <3>2, <3>3 DEF PlacesInv
    <2> QED BY <2>1, <2>2
  <1>14. PlacesInv'
    BY <1>10, <1>11, <1>12, <1>13 DEF PlacesInv
  <1> QED BY <1>5, <1>14 DEF InferenceInv

\* A request goes from its level into the hands of one thread.
LEMMA TakeRequestKeeps ==
  ASSUME InferenceInv, NEW w \in Workers, TakeRequest(w)
  PROVE  InferenceInv'
  <1>1. PICK l0 \in Levels :
          /\ levels[l0] # <<>> /\ running' = [running EXCEPT ![w] = Head(levels[l0])]
          /\ levels' = [levels EXCEPT ![l0] = Tail(@)]
    BY DEF TakeRequest, Urgent
  <1>2. /\ at[w] = "take" /\ at' = [at EXCEPT ![w] = "run"] /\ UNCHANGED <<priority, reply, stop>>
        /\ InferenceTypeOK /\ ThreadsInv /\ PlacesInv
    BY DEF TakeRequest, InferenceInv, ThreadsInv
  <1> DEFINE q == levels[l0][1]
             n == Len(levels[l0])
  <1>3. /\ n \in Nat /\ n >= 1 /\ DOMAIN levels[l0] = 1..n /\ q \in Requests
        /\ levels' \in [Levels -> Seq(Requests)] /\ DOMAIN levels'[l0] = 1..(n - 1)
        /\ \A i \in 1..(n - 1) : levels'[l0][i] = levels[l0][i + 1]
        /\ \A l \in Levels : l # l0 => levels'[l] = levels[l]
        /\ running' = [running EXCEPT ![w] = q]
    <2>1. levels[l0] \in Seq(Requests) /\ n \in Nat /\ DOMAIN levels[l0] = 1..n
      BY <1>2, LevelsAre
    <2>2. n >= 1 /\ Head(levels[l0]) = q
      BY <1>1, <2>1
    <2>3. q \in Requests
      BY <2>1, <2>2, ElementOfSeq
    <2>4. levels'[l0] = Tail(levels[l0]) /\ \A l \in Levels : l # l0 => levels'[l] = levels[l]
      BY <1>1, <1>2 DEF InferenceTypeOK
    <2>5. /\ Tail(levels[l0]) \in Seq(Requests) /\ Len(Tail(levels[l0])) = n - 1
          /\ \A i \in 1..(n - 1) : Tail(levels[l0])[i] = levels[l0][i + 1]
      BY <1>1, <2>1, HeadTailProperties
    <2>6. DOMAIN levels'[l0] = 1..(n - 1)
      BY <2>4, <2>5, LenProperties
    <2>7. levels' \in [Levels -> Seq(Requests)]
      BY <1>1, <1>2, <2>5 DEF InferenceTypeOK
    <2> QED BY <1>1, <2>1, <2>2, <2>3, <2>4, <2>5, <2>6, <2>7
  <1>4. 1 \in DOMAIN levels[l0]
    BY <1>3
  <1>5. reply[q] = "open" /\ \A x \in Workers : running[x] # q
    BY <1>2, <1>4 DEF PlacesInv
  <1>6. running[w] = NoRequest /\ \A x \in Workers : running'[x] = IF x = w THEN q ELSE running[x]
    BY <1>2, <1>3 DEF ThreadsInv, InferenceTypeOK
  <1>7. ThreadsInv'
    <2>1. \A x \in Workers : at'[x] = IF x = w THEN "run" ELSE at[x]
      BY <1>2 DEF InferenceTypeOK
    <2>2. InferenceTypeOK'
      BY <1>2, <1>3 DEF InferenceTypeOK
    <2>3. \A x \in Workers : IF at'[x] = "run" THEN running'[x] \in Requests ELSE running'[x] = NoRequest
      BY <1>2, <1>3, <1>6, <2>1 DEF ThreadsInv
    <2> QED BY <2>2, <2>3 DEF ThreadsInv
  \* Where an element of the new levels was before.
  <1>8. ASSUME NEW l \in Levels, NEW i \in DOMAIN levels'[l]
        PROVE  LET h == IF l = l0 THEN i + 1 ELSE i IN
                 h \in DOMAIN levels[l] /\ levels'[l][i] = levels[l][h] /\ levels[l][h] # q
    <2>1. CASE l # l0
      <3>1. i \in DOMAIN levels[l] /\ levels'[l][i] = levels[l][i]
        BY <1>3, <2>1
      <3>2. levels[l][i] # q
        BY <1>2, <1>4, <2>1, <3>1 DEF PlacesInv
      <3> QED BY <2>1, <3>1, <3>2
    <2>2. CASE l = l0
      <3>1. i + 1 \in DOMAIN levels[l0] /\ levels'[l][i] = levels[l0][i + 1] /\ i + 1 # 1
        BY <1>3, <2>2
      <3>2. levels[l0][i + 1] # q
        BY <1>2, <1>4, <3>1 DEF PlacesInv
      <3> QED BY <2>2, <3>1, <3>2
    <2> QED BY <2>1, <2>2
  <1> HIDE DEF q, n
  <1>9. ASSUME NEW l \in Levels, NEW i \in DOMAIN levels'[l]
        PROVE  /\ reply'[levels'[l][i]] = "open" /\ MapPriority(priority'[levels'[l][i]]) = l
               /\ \A x \in Workers : running'[x] # levels'[l][i]
    BY <1>2, <1>6, <1>8 DEF PlacesInv
  <1>10. ASSUME NEW l \in Levels, NEW m \in Levels, NEW i \in DOMAIN levels'[l], NEW j \in DOMAIN levels'[m],
                levels'[l][i] = levels'[m][j]
         PROVE  l = m /\ i = j
    <2>1. DOMAIN levels'[l] \subseteq Int /\ DOMAIN levels'[m] \subseteq Int
      BY <1>3
    <2> DEFINE g == IF l = l0 THEN i + 1 ELSE i
               h == IF m = l0 THEN j + 1 ELSE j
    <2>2. g \in DOMAIN levels[l] /\ h \in DOMAIN levels[m] /\ levels[l][g] = levels[m][h]
      BY <1>8, <1>10
    <2>3. l = m /\ g = h
      <3> HIDE DEF g, h
      <3> QED BY <1>2, <2>2 DEF PlacesInv
    <2> QED BY <2>1, <2>3
  <1>11. \A x \in Workers : running'[x] # NoRequest =>
           /\ reply'[running'[x]] = "open"
           /\ \A y \in Workers : y # x => running'[y] # running'[x]
    BY <1>2, <1>5, <1>6 DEF PlacesInv
  <1>12. ASSUME NEW y \in Requests, reply'[y] = "open"
         PROVE  (\E l \in Levels : \E i \in DOMAIN levels'[l] : levels'[l][i] = y) \/ \E x \in Workers : running'[x] = y
    <2>1. CASE \E x \in Workers : running[x] = y
      BY <1>6, <2>1, NoRequestAssumption
    <2>2. CASE \E l \in Levels : \E i \in DOMAIN levels[l] : levels[l][i] = y
      <3>1. PICK l \in Levels : \E i \in DOMAIN levels[l] : levels[l][i] = y
        BY <2>2
      <3>2. PICK i \in DOMAIN levels[l] : levels[l][i] = y
        BY <3>1
      <3>3. CASE l # l0
        BY <1>3, <3>2, <3>3
      <3>4. CASE l = l0 /\ i = 1
        BY <1>6, <3>2, <3>4 DEF q
      <3>5. CASE l = l0 /\ i # 1
        <4>1. i - 1 \in 1..(n - 1) /\ (i - 1) + 1 = i
          BY <1>3, <3>5
        <4> QED BY <1>3, <3>2, <3>5, <4>1
      <3> QED BY <3>3, <3>4, <3>5
    <2> QED BY <1>2, <1>12, <2>1, <2>2 DEF PlacesInv
  <1>13. PlacesInv'
    BY <1>9, <1>10, <1>11, <1>12 DEF PlacesInv
  <1> QED BY <1>7, <1>13 DEF InferenceInv

\* An answer ends the request in hand.
LEMMA SettleKeeps ==
  ASSUME InferenceInv, NEW w \in Workers, Settle(w)
  PROVE  InferenceInv'
  <1>1. PICK a \in {"ok", "error"} : reply' = [reply EXCEPT ![running[w]] = a]
    BY DEF Settle
  <1>2. /\ at[w] = "run" /\ running' = [running EXCEPT ![w] = NoRequest] /\ at' = [at EXCEPT ![w] = "head"]
        /\ UNCHANGED <<levels, priority, stop>>
        /\ InferenceTypeOK /\ ThreadsInv /\ PlacesInv
    BY DEF Settle, InferenceInv, ThreadsInv
  <1> DEFINE q == running[w]
  <1>3. q \in Requests /\ q # NoRequest
    BY <1>2, NoRequestAssumption DEF ThreadsInv
  <1>4. \A x \in Requests : reply'[x] = IF x = q THEN a ELSE reply[x]
    BY <1>1, <1>2, <1>3 DEF InferenceTypeOK
  <1>5. \A x \in Workers : running'[x] = IF x = w THEN NoRequest ELSE running[x]
    BY <1>2 DEF InferenceTypeOK
  <1>6. \A x \in Workers : at'[x] = IF x = w THEN "head" ELSE at[x]
    BY <1>2 DEF InferenceTypeOK
  <1>7. ThreadsInv'
    <2>1. InferenceTypeOK'
      BY <1>1, <1>2, <1>3 DEF InferenceTypeOK
    <2>2. \A x \in Workers : IF at'[x] = "run" THEN running'[x] \in Requests ELSE running'[x] = NoRequest
      BY <1>2, <1>5, <1>6 DEF ThreadsInv
    <2> QED BY <2>1, <2>2 DEF ThreadsInv
  <1>8. \A l \in Levels : \A i \in DOMAIN levels[l] : levels[l][i] # q /\ levels[l][i] \in Requests
    BY <1>2, LevelsAre DEF PlacesInv
  <1>9. \A x \in Workers : x # w => running[x] # q
    BY <1>2, <1>3 DEF PlacesInv
  <1> HIDE DEF q
  <1>10. ASSUME NEW l \in Levels, NEW i \in DOMAIN levels'[l]
         PROVE  /\ reply'[levels'[l][i]] = "open" /\ MapPriority(priority'[levels'[l][i]]) = l
                /\ \A x \in Workers : running'[x] # levels'[l][i]
    BY <1>2, <1>4, <1>5, <1>8, NoRequestAssumption DEF PlacesInv
  <1>11. \A l, m \in Levels : \A i \in DOMAIN levels'[l], j \in DOMAIN levels'[m] :
           levels'[l][i] = levels'[m][j] => l = m /\ i = j
    BY <1>2 DEF PlacesInv
  <1>12. ASSUME NEW x \in Workers, running'[x] # NoRequest
         PROVE  /\ reply'[running'[x]] = "open"
                /\ \A y \in Workers : y # x => running'[y] # running'[x]
    <2>1. x # w /\ running'[x] = running[x] /\ running[x] # q /\ running[x] \in Requests
      BY <1>2, <1>5, <1>9, <1>12 DEF InferenceTypeOK
    <2> QED BY <1>2, <1>4, <1>5, <1>12, <2>1 DEF PlacesInv
  <1>13. ASSUME NEW y \in Requests, reply'[y] = "open"
         PROVE  (\E l \in Levels : \E i \in DOMAIN levels'[l] : levels'[l][i] = y) \/ \E x \in Workers : running'[x] = y
    <2>1. y # q /\ reply[y] = "open"
      BY <1>4, <1>13
    <2>2. CASE \E x \in Workers : running[x] = y
      BY <1>5, <2>1, <2>2 DEF q
    <2>3. CASE \E l \in Levels : \E i \in DOMAIN levels[l] : levels[l][i] = y
      BY <1>2, <2>3
    <2> QED BY <1>2, <2>1, <2>2, <2>3 DEF PlacesInv
  <1>14. PlacesInv'
    BY <1>10, <1>11, <1>12, <1>13 DEF PlacesInv
  <1> QED BY <1>7, <1>14 DEF InferenceInv

\* Every step of the inference queue keeps the places.
LEMMA InferenceStep ==
  ASSUME InferenceInv, [InferenceNext]_iqVars
  PROVE  InferenceInv'
  <1>1. ASSUME NEW q \in Requests, NEW p \in TaskPriorities, EnqueueRequest(q, p) PROVE InferenceInv'
    BY <1>1, EnqueueRequestKeeps
  <1>2. ASSUME NEW w \in Workers, TakeRequest(w) PROVE InferenceInv'
    BY <1>2, TakeRequestKeeps
  <1>3. ASSUME NEW w \in Workers, Settle(w) PROVE InferenceInv'
    BY <1>3, SettleKeeps
  <1>4. ASSUME UNCHANGED <<levels, priority, reply, running>>, ThreadsInv' PROVE InferenceInv'
    BY <1>4 DEF InferenceInv, PlacesInv
  <1>5. ASSUME NEW w \in Workers, SeeStop(w) PROVE InferenceInv'
    <2>1. ThreadsInv'
      BY <1>5 DEF SeeStop, InferenceInv, ThreadsInv, InferenceTypeOK
    <2> QED BY <1>4, <1>5, <2>1 DEF SeeStop
  <1>6. ASSUME NEW w \in Workers, Nap(w) PROVE InferenceInv'
    <2>1. ThreadsInv'
      BY <1>6 DEF Nap, AfterEmpty, InferenceInv, ThreadsInv, InferenceTypeOK
    <2> QED BY <1>4, <1>6, <2>1 DEF Nap
  <1>7. ASSUME NEW w \in Workers, StopWorker(w) PROVE InferenceInv'
    <2>1. ThreadsInv'
      BY <1>7 DEF StopWorker, InferenceInv, ThreadsInv, InferenceTypeOK
    <2> QED BY <1>4, <1>7, <2>1 DEF StopWorker
  <1>8. CASE UNCHANGED iqVars
    <2>1. ThreadsInv'
      BY <1>8 DEF iqVars, InferenceInv, ThreadsInv, InferenceTypeOK
    <2> QED BY <1>4, <1>8, <2>1 DEF iqVars
  <1> QED BY <1>1, <1>2, <1>3, <1>5, <1>6, <1>7, <1>8 DEF InferenceNext, WorkerStep

\* One place, said with lengths.
LEMMA InOnePlace ==
  ASSUME InferenceInv
  PROVE  OnePlace
  <1> SUFFICES ASSUME NEW q \in Requests, reply[q] = "open"
               PROVE  InQueue(q) # (\E w \in Workers : running[w] = q)
    BY DEF OnePlace
  <1>1. \A l \in Levels : DOMAIN levels[l] = 1..Len(levels[l])
    BY LevelsAre DEF InferenceInv, ThreadsInv
  <1>2. InQueue(q) <=> \E l \in Levels : \E i \in DOMAIN levels[l] : levels[l][i] = q
    BY <1>1 DEF InQueue
  <1>3. InQueue(q) \/ \E w \in Workers : running[w] = q
    BY <1>2 DEF InferenceInv, PlacesInv
  <1>4. ~(InQueue(q) /\ \E w \in Workers : running[w] = q)
    BY <1>2 DEF InferenceInv, PlacesInv
  <1>5. InQueue(q) \in BOOLEAN
    BY DEF InQueue
  <1> QED BY <1>3, <1>4, <1>5

\* What is taken comes from the most urgent level that is not empty.
LEMMA TakenIsUrgent ==
  ASSUME TaskPriorities \subseteq 0..4, InferenceInv, [InferenceNext]_iqVars,
         NEW w \in Workers, running[w] # running'[w], running'[w] # NoRequest,
         NEW x \in Requests, InQueue(x)
  PROVE  priority[x] <= priority[running'[w]]
  <1>1. TakeRequest(w)
    <2>1. running \in [Workers -> Requests \cup {NoRequest}]
      BY DEF InferenceInv, ThreadsInv, InferenceTypeOK
    <2>2. ~UNCHANGED running /\ ~UNCHANGED iqVars
      BY DEF iqVars
    <2>3. PICK v \in Workers : TakeRequest(v) \/ Settle(v)
      BY <2>2 DEF InferenceNext, WorkerStep, EnqueueRequest, SeeStop, Nap, StopWorker
    <2>4. \A u \in Workers : u # v => running'[u] = running[u]
      BY <2>1, <2>3 DEF TakeRequest, Settle
    <2>5. v = w
      BY <2>4
    <2>6. ~Settle(w)
      BY <2>1 DEF Settle
    <2> QED BY <2>3, <2>5, <2>6
  <1>2. PICK l \in Levels : /\ levels[l] # <<>> /\ \A m \in Levels : m < l => levels[m] = <<>>
                            /\ running' = [running EXCEPT ![w] = Head(levels[l])]
    BY <1>1 DEF TakeRequest, Urgent
  <1>3. \A m \in Levels : levels[m] \in Seq(Requests) /\ Len(levels[m]) \in Nat /\ DOMAIN levels[m] = 1..Len(levels[m])
    BY LevelsAre DEF InferenceInv, ThreadsInv
  <1>4. 1 \in DOMAIN levels[l] /\ Head(levels[l]) = levels[l][1] /\ running'[w] = levels[l][1]
    BY <1>2, <1>3 DEF InferenceInv, ThreadsInv, InferenceTypeOK
  <1>5. PICK m \in Levels : \E i \in 1..Len(levels[m]) : levels[m][i] = x
    BY DEF InQueue
  <1>6. PICK i \in DOMAIN levels[m] : levels[m][i] = x
    BY <1>3, <1>5
  <1>7. m >= l
    <2>1. levels[m] # <<>>
      BY <1>6
    <2> QED BY <1>2, <2>1 DEF Levels
  <1>8. MapPriority(priority[x]) = m /\ MapPriority(priority[running'[w]]) = l
    BY <1>4, <1>6 DEF InferenceInv, PlacesInv
  <1>9. running'[w] \in Requests
    BY <1>3, <1>4
  <1>10. priority[x] \in 0..4 /\ priority[running'[w]] \in 0..4
    <2>1. priority \in [Requests -> TaskPriorities \cup {0}]
      BY DEF InferenceInv, ThreadsInv, InferenceTypeOK
    <2>2. priority[x] \in TaskPriorities \cup {0} /\ priority[running'[w]] \in TaskPriorities \cup {0}
      BY <1>9, <2>1
    <2>3. TaskPriorities \cup {0} \subseteq 0..4
      OBVIOUS
    <2> QED BY <2>2, <2>3
  <1> QED BY <1>7, <1>8, <1>10 DEF MapPriority, Levels
-----------------------------------------------------------------------------
(* The audit chain is a window on the sequence of everything ever linked:  *)
(* WindowExact gives every entry, the anchor and the last hash by their    *)
(* places in that sequence.                                                *)

\* The hash of the k-th entry ever linked, s being all of them; the genesis hash
\* before the first.
Nth(s, k) == IF k = 0 THEN Genesis ELSE s[k]

\* The k-th entry as record stored it.
Linked(s, k) == [id |-> Nth(s, k), prev |-> Nth(s, k - 1),
                 sig |-> Sign(Nth(s, k), Nth(s, k - 1))]

\* How many entries have been evicted.
Dropped == Len(linked) - Len(entries)

WindowExact ==
    /\ Len(entries) = IF Len(linked) < MaxEntries THEN Len(linked) ELSE MaxEntries
    /\ \A i \in 1..Len(entries) : entries[i] = Linked(linked, Dropped + i)
    /\ firstValid = Nth(linked, Dropped)
    /\ lastHash = Nth(linked, Len(linked))

\* An id is built once, linked once, and being built by one thread at most.
IdsFresh ==
    /\ \A k \in 1..Len(linked) : linked[k] <= built
    /\ \A k, l \in 1..Len(linked) : k # l => linked[k] # linked[l]
    /\ \A w \in Recorders : building[w] <= built
    /\ \A w \in Recorders : building[w] # 0 =>
         /\ \A k \in 1..Len(linked) : linked[k] # building[w]
         /\ \A v \in Recorders : v # w => building[v] # building[w]

AuditInv == AuditTypeOK /\ WindowExact /\ IdsFresh

Entries == [id : 1..MaxRecords, prev : Nat, sig : Nat \X Nat]

\* The invariant holds of an empty chain.
LEMMA AuditInitInv == AuditInit => AuditInv
<1> SUFFICES ASSUME AuditInit PROVE AuditInv
  OBVIOUS
<1>1. AuditTypeOK
  BY RecordsAssumption DEF AuditInit, AuditTypeOK, Genesis
<1>2. WindowExact
  BY CapacityAssumption DEF AuditInit, WindowExact, Dropped, Nth
<1>3. IdsFresh
  BY DEF AuditInit, IdsFresh
<1> QED BY <1>1, <1>2, <1>3 DEF AuditInv

\* It is kept by a thread that builds an entry outside the lock.
LEMMA BuildInv ==
    ASSUME AuditInv, NEW w \in Recorders, Build(w)
    PROVE  AuditInv'
<1>1. built \in Nat /\ built' = built + 1 /\ built < MaxRecords
      /\ building' = [building EXCEPT ![w] = built + 1]
      /\ UNCHANGED <<entries, lastHash, firstValid, linked>>
  BY RecordsAssumption DEF AuditInv, AuditTypeOK, Build
<1>2. AuditTypeOK'
  BY <1>1, RecordsAssumption DEF AuditInv, AuditTypeOK
<1>3. WindowExact'
  BY <1>1 DEF AuditInv, WindowExact, Dropped, Linked, Nth, Sign, Genesis
<1>4. IdsFresh'
  <2>1. /\ \A k \in 1..Len(linked) : linked[k] \in 1..MaxRecords /\ linked[k] <= built
        /\ \A v \in Recorders : building[v] \in 0..MaxRecords /\ building[v] <= built
    <3>1. \A k \in 1..Len(linked) : linked[k] \in 1..MaxRecords
      BY ElementOfSeq DEF AuditInv, AuditTypeOK
    <3> QED BY <3>1 DEF AuditInv, AuditTypeOK, IdsFresh
  <2> QED BY <1>1, <2>1, RecordsAssumption DEF AuditInv, AuditTypeOK, IdsFresh
<1> QED BY <1>2, <1>3, <1>4 DEF AuditInv

\* It is kept by the locked section, at capacity and below.
LEMMA RecordInv ==
    ASSUME AuditInv, NEW w \in Recorders, Record(w)
    PROVE  AuditInv'
<1> DEFINE x == building[w]
           n == Len(linked)
           e == [id |-> x, prev |-> lastHash, sig |-> Sign(x, lastHash)]
           rest == IF AtCapacity THEN Tail(entries) ELSE entries
<1>1. /\ x # 0 /\ x \in 1..MaxRecords
      /\ building' = [building EXCEPT ![w] = 0]
      /\ lastHash' = x
      /\ firstValid' = IF AtCapacity THEN entries[1].id ELSE firstValid
      /\ entries' = Append(rest, e)
      /\ linked' = Append(linked, x)
      /\ built' = built
  <2>1. x # 0 /\ x \in 1..MaxRecords
    BY RecordsAssumption DEF AuditInv, AuditTypeOK, Record
  <2> QED BY <2>1 DEF Record, EntryHash, Anchor
<1>2. linked \in Seq(1..MaxRecords) /\ entries \in Seq(Entries) /\ e \in Entries
      /\ n \in Nat /\ Len(entries) \in Nat
  <2>1. lastHash \in Nat /\ x \in Nat /\ x \in 1..MaxRecords
    BY <1>1, RecordsAssumption DEF AuditInv, AuditTypeOK
  <2>2. e \in Entries
    BY <2>1 DEF Entries, Sign
  <2>3. linked \in Seq(1..MaxRecords) /\ entries \in Seq(Entries)
    BY DEF AuditInv, AuditTypeOK, Entries
  <2> QED BY <2>2, <2>3, LenProperties
<1>3. /\ linked' \in Seq(1..MaxRecords) /\ Len(linked') = n + 1
      /\ \A k \in 1..n : linked'[k] = linked[k]
      /\ linked'[n + 1] = x
  BY <1>1, <1>2
<1>4. \A k \in 0..n : Nth(linked', k) = Nth(linked, k)
  BY <1>2, <1>3 DEF Nth, Genesis
<1>5. Nth(linked', n + 1) = x
  BY <1>2, <1>3 DEF Nth
<1>6. \A k \in 1..n : Linked(linked', k) = Linked(linked, k)
  <2> SUFFICES ASSUME NEW k \in 1..n PROVE Linked(linked', k) = Linked(linked, k)
    OBVIOUS
  <2>1. k \in 0..n /\ k - 1 \in 0..n
    BY <1>2
  <2>2. Nth(linked', k) = Nth(linked, k) /\ Nth(linked', k - 1) = Nth(linked, k - 1)
    BY <1>4, <2>1
  <2> QED BY <2>2 DEF Linked
<1>7. Linked(linked', n + 1) = e
  <2>1. lastHash = Nth(linked', n) /\ n + 1 - 1 = n
    BY <1>2, <1>4 DEF AuditInv, WindowExact
  <2> QED BY <1>5, <2>1 DEF Linked, Sign
<1>8. /\ rest \in Seq(Entries) /\ Len(rest) = IF AtCapacity THEN Len(entries) - 1 ELSE Len(entries)
      /\ \A i \in 1..Len(rest) : rest[i] = IF AtCapacity THEN entries[i + 1] ELSE entries[i]
  <2>1. CASE AtCapacity
    <3>1. entries # <<>>
      BY <1>2, <2>1, CapacityAssumption DEF AtCapacity
    <3> QED BY <1>2, <2>1, <3>1, HeadTailProperties
  <2>2. CASE ~AtCapacity
    BY <1>2, <2>2
  <2> QED BY <2>1, <2>2
<1> HIDE DEF rest, e, x, n
<1>9. /\ entries' \in Seq(Entries) /\ Len(entries') = Len(rest) + 1
      /\ \A i \in 1..Len(rest) : entries'[i] = rest[i]
      /\ entries'[Len(rest) + 1] = e
  BY <1>1, <1>2, <1>8, AppendProperties
<1>10. AuditTypeOK'
  <2>1. AtCapacity => entries[1].id \in Nat
    <3> SUFFICES ASSUME AtCapacity PROVE entries[1].id \in Nat
      OBVIOUS
    <3>1. 1 \in 1..Len(entries)
      BY <1>2, CapacityAssumption DEF AtCapacity
    <3>2. entries[1] \in Entries
      BY <1>2, <3>1, ElementOfSeq
    <3> QED BY <3>2, RecordsAssumption DEF Entries
  <2>2. lastHash' \in Nat /\ firstValid' \in Nat
    BY <1>1, <2>1, RecordsAssumption DEF AuditInv, AuditTypeOK
  <2>3. building' \in [Recorders -> 0..MaxRecords] /\ built' \in 0..MaxRecords
    BY <1>1, RecordsAssumption DEF AuditInv, AuditTypeOK
  <2> QED BY <1>3, <1>9, <2>2, <2>3 DEF AuditTypeOK, Entries
<1>11. WindowExact'
  <2>1. /\ Len(entries) = IF n < MaxEntries THEN n ELSE MaxEntries
        /\ \A i \in 1..Len(entries) : entries[i] = Linked(linked, n - Len(entries) + i)
        /\ firstValid = Nth(linked, n - Len(entries))
    BY DEF AuditInv, WindowExact, Dropped, n
  <2>2. MaxEntries \in Nat /\ MaxEntries >= 1
    BY CapacityAssumption
  <2>3. CASE AtCapacity
    <3>1. Len(entries) = MaxEntries /\ n >= MaxEntries /\ Len(rest) = MaxEntries - 1
          /\ Len(entries') = MaxEntries
      BY <1>2, <1>8, <1>9, <2>1, <2>2, <2>3 DEF AtCapacity
    <3>2. Dropped' = n + 1 - MaxEntries
      <4>1. Len(linked') = n + 1
        BY <1>3
      <4> QED BY <1>2, <2>2, <3>1, <4>1 DEF Dropped
    <3>3. ASSUME NEW i \in 1..Len(entries')
          PROVE  entries'[i] = Linked(linked', n + 1 - MaxEntries + i)
      <4>1. CASE i = MaxEntries
        BY <1>2, <1>7, <1>9, <2>2, <3>1, <4>1
      <4>2. CASE i < MaxEntries
        <5>1. i \in 1..Len(rest) /\ i + 1 \in 1..Len(entries)
          BY <2>2, <3>1, <4>2
        <5>2. entries'[i] = entries[i + 1]
          BY <1>8, <1>9, <2>3, <5>1
        <5>3. entries[i + 1] = Linked(linked, n - MaxEntries + (i + 1))
          BY <2>1, <3>1, <5>1
        <5>4. n - MaxEntries + (i + 1) = n + 1 - MaxEntries + i /\ n + 1 - MaxEntries + i \in 1..n
          BY <1>2, <2>2, <3>1, <4>2
        <5> QED BY <1>6, <5>2, <5>3, <5>4
      <4> QED BY <2>2, <3>1, <4>1, <4>2
    <3>4. firstValid' = Nth(linked', n + 1 - MaxEntries)
      <4>1. 1 \in 1..Len(entries) /\ n - MaxEntries + 1 \in 0..n
            /\ n - MaxEntries + 1 = n + 1 - MaxEntries
        BY <1>2, <2>2, <3>1
      <4>2. firstValid' = Nth(linked, n - MaxEntries + 1)
        <5>1. entries[1] = Linked(linked, n - MaxEntries + 1)
          BY <2>1, <3>1, <4>1
        <5> QED BY <1>1, <2>3, <5>1 DEF Linked
      <4> QED BY <1>4, <4>1, <4>2
    <3>5. lastHash' = Nth(linked', n + 1) /\ Len(linked') = n + 1
      BY <1>1, <1>3, <1>5
    <3>6. Len(entries') = IF Len(linked') < MaxEntries THEN Len(linked') ELSE MaxEntries
      BY <1>2, <1>3, <2>2, <3>1
    <3> QED BY <3>2, <3>3, <3>4, <3>5, <3>6 DEF WindowExact
  <2>4. CASE ~AtCapacity
    <3>1. Len(entries) = n /\ n < MaxEntries /\ Len(rest) = n /\ Len(entries') = n + 1
      BY <1>2, <1>8, <1>9, <2>1, <2>2, <2>4 DEF AtCapacity
    <3>2. Dropped' = 0
      BY <1>2, <1>3, <3>1 DEF Dropped
    <3>3. ASSUME NEW i \in 1..Len(entries')
          PROVE  entries'[i] = Linked(linked', 0 + i)
      <4>1. CASE i = n + 1
        BY <1>2, <1>7, <1>9, <3>1, <4>1
      <4>2. CASE i < n + 1
        <5>1. i \in 1..Len(rest) /\ i \in 1..Len(entries) /\ i \in 1..n
              /\ n - Len(entries) + i = i /\ 0 + i = i
          BY <1>2, <3>1, <4>2
        <5>2. entries'[i] = entries[i]
          BY <1>8, <1>9, <2>4, <5>1
        <5>3. entries[i] = Linked(linked, i)
          BY <2>1, <5>1
        <5> QED BY <1>6, <5>1, <5>2, <5>3
      <4> QED BY <1>2, <3>1, <4>1, <4>2
    <3>4. firstValid' = Nth(linked', 0)
      <4>1. n - Len(entries) = 0 /\ 0 \in 0..n
        BY <1>2, <3>1
      <4> QED BY <1>1, <1>4, <2>1, <2>4, <4>1
    <3>5. lastHash' = Nth(linked', n + 1) /\ Len(linked') = n + 1
      BY <1>1, <1>3, <1>5
    <3>6. Len(entries') = IF Len(linked') < MaxEntries THEN Len(linked') ELSE MaxEntries
      BY <1>2, <1>3, <2>2, <3>1
    <3> QED BY <3>2, <3>3, <3>4, <3>5, <3>6 DEF WindowExact
  <2> QED BY <2>3, <2>4
<1>12. IdsFresh'
  <2>1. /\ \A k \in 1..n : linked[k] <= built /\ linked[k] # x /\ linked[k] \in 1..MaxRecords
        /\ \A k, l \in 1..n : k # l => linked[k] # linked[l]
        /\ x <= built
        /\ \A v \in Recorders : building[v] <= built /\ (v # w => building[v] # x)
    <3>1. \A k \in 1..n : linked[k] \in 1..MaxRecords
      BY <1>2, ElementOfSeq DEF n
    <3> QED BY <1>1, <3>1 DEF AuditInv, IdsFresh, x, n
  <2>2. \A k \in 1..Len(linked') : linked'[k] <= built'
    BY <1>1, <1>2, <1>3, <2>1
  <2>3. \A k, l \in 1..Len(linked') : k # l => linked'[k] # linked'[l]
    BY <1>2, <1>3, <2>1
  <2>4. \A v \in Recorders : building'[v] <= built'
    BY <1>1, <2>1, RecordsAssumption DEF AuditInv, AuditTypeOK
  <2>5. ASSUME NEW v \in Recorders, building'[v] # 0
        PROVE  /\ \A k \in 1..Len(linked') : linked'[k] # building'[v]
               /\ \A u \in Recorders : u # v => building'[u] # building'[v]
    <3>1. v # w /\ building'[v] = building[v]
      BY <1>1, <2>5 DEF AuditInv, AuditTypeOK
    <3>2. \A k \in 1..n : linked[k] # building[v]
      BY <2>5, <3>1 DEF AuditInv, IdsFresh, n
    <3>3. \A k \in 1..Len(linked') : linked'[k] # building'[v]
      BY <1>2, <1>3, <2>1, <3>1, <3>2
    <3>4. \A u \in Recorders : u # v => building'[u] # building'[v]
      BY <1>1, <2>5, <3>1 DEF AuditInv, AuditTypeOK, IdsFresh
    <3> QED BY <3>3, <3>4
  <2> QED BY <2>2, <2>3, <2>4, <2>5 DEF IdsFresh
<1> QED BY <1>10, <1>11, <1>12 DEF AuditInv

\* A recorder's step keeps the invariant, whoever else is recording.
LEMMA AuditStep == AuditInv /\ [AuditNext]_auditVars => AuditInv'
<1> SUFFICES ASSUME AuditInv, [AuditNext]_auditVars PROVE AuditInv'
  OBVIOUS
<1>1. ASSUME NEW w \in Recorders, Build(w) PROVE AuditInv'
  BY <1>1, BuildInv
<1>2. ASSUME NEW w \in Recorders, Record(w) PROVE AuditInv'
  BY <1>2, RecordInv
<1>3. CASE UNCHANGED auditVars
  BY <1>3 DEF AuditInv, AuditTypeOK, WindowExact, IdsFresh, Dropped, Linked, Nth, Sign,
              Genesis, auditVars
<1> QED BY <1>1, <1>2, <1>3 DEF AuditNext

\* The invariant of the chain, whoever records.
LEMMA AuditInvHolds == AuditSpec => []AuditInv
BY AuditStep, AuditInitInv, PTL DEF AuditSpec

\* The chain's fields hold what their types say.
THEOREM AuditTypeCorrect == AuditSpec => []AuditTypeOK
BY AuditInvHolds, PTL DEF AuditInv

\* The window the invariant describes is a chain verify accepts.
LEMMA WindowIsSound == ASSUME AuditInv PROVE ChainSound
<1>1. Len(entries) \in Nat /\ Len(linked) \in Nat /\ Dropped \in Nat
  <2>1. Len(entries) \in Nat /\ Len(linked) \in Nat
    BY LenProperties DEF AuditInv, AuditTypeOK
  <2> QED BY <2>1, CapacityAssumption DEF AuditInv, WindowExact, Dropped
<1>2. ASSUME NEW i \in 1..Len(entries) PROVE LinkHolds(entries, i)
  <2>1. entries[i] = Linked(linked, Dropped + i)
    BY DEF AuditInv, WindowExact
  <2>2. HashBefore(entries, i) = Nth(linked, (Dropped + i) - 1)
    <3>1. CASE i = 1
      <4>1. (Dropped + i) - 1 = Dropped
        BY <1>1, <3>1
      <4> QED BY <3>1, <4>1 DEF AuditInv, WindowExact, HashBefore
    <3>2. CASE i # 1
      <4>1. i - 1 \in 1..Len(entries) /\ Dropped + (i - 1) = (Dropped + i) - 1
        BY <1>1, <3>2
      <4>2. entries[i - 1] = Linked(linked, (Dropped + i) - 1)
        BY <4>1 DEF AuditInv, WindowExact
      <4> QED BY <3>2, <4>2 DEF HashBefore, EntryHash, Linked
    <3> QED BY <3>1, <3>2
  <2>3. /\ entries[i].prev = Nth(linked, (Dropped + i) - 1)
        /\ entries[i].sig = Sign(entries[i].id, entries[i].prev)
    <3> DEFINE k == Dropped + i
    <3>1. entries[i] = Linked(linked, k)
      BY <2>1
    <3> HIDE DEF k
    <3>2. /\ entries[i].prev = Nth(linked, k - 1)
          /\ entries[i].sig = Sign(entries[i].id, entries[i].prev)
      BY <3>1 DEF Linked
    <3> QED BY <3>2 DEF k
  <2> QED BY <2>2, <2>3 DEF LinkHolds, EntryHash
<1>3. ASSUME NEW i \in 1..Len(entries)
      PROVE  entries[i].id = linked[Len(linked) - Len(entries) + i]
  <2>1. entries[i] = Linked(linked, Dropped + i)
    BY DEF AuditInv, WindowExact
  <2>2. Dropped + i # 0
    BY <1>1
  <2> QED BY <2>1, <2>2 DEF Linked, Nth, Dropped
<1> QED BY <1>2, <1>3 DEF ChainSound, Verify, AuditInv, WindowExact

\* However recorders interleave and however much was evicted, verify accepts
\* the chain, and it holds the newest entries in order.
THEOREM ChainIsSound == AuditSpec => []ChainSound
BY WindowIsSound, AuditInvHolds, PTL

\* No two places of the chain have the same hash before them.
LEMMA LinksDiffer ==
    ASSUME AuditInv, NEW i \in 1..Len(entries), NEW j \in 1..Len(entries), i < j
    PROVE  entries[i].prev # entries[j].prev
<1>1. Len(entries) \in Nat /\ Len(linked) \in Nat /\ Dropped \in Nat /\ Dropped + Len(entries) = Len(linked)
  <2>1. Len(entries) \in Nat /\ Len(linked) \in Nat
    BY LenProperties DEF AuditInv, AuditTypeOK
  <2> QED BY <2>1, CapacityAssumption DEF AuditInv, WindowExact, Dropped
<1>2. /\ entries[i] = Linked(linked, Dropped + i)
      /\ entries[j] = Linked(linked, Dropped + j)
  BY DEF AuditInv, WindowExact
<1>3. /\ entries[i].prev = Nth(linked, (Dropped + i) - 1)
      /\ entries[j].prev = Nth(linked, (Dropped + j) - 1)
  <2> DEFINE k == Dropped + i
             l == Dropped + j
  <2>1. entries[i] = Linked(linked, k) /\ entries[j] = Linked(linked, l)
    BY <1>2
  <2> HIDE DEF k, l
  <2>2. entries[i].prev = Nth(linked, k - 1) /\ entries[j].prev = Nth(linked, l - 1)
    BY <2>1 DEF Linked
  <2> QED BY <2>2 DEF k, l
<1>4. (Dropped + i) - 1 \in 0..Len(linked) /\ (Dropped + j) - 1 \in 1..Len(linked)
      /\ (Dropped + i) - 1 # (Dropped + j) - 1
  BY <1>1
<1>5. \A k \in 1..Len(linked) : linked[k] \in 1..MaxRecords
  BY ElementOfSeq DEF AuditInv, AuditTypeOK
<1>6. CASE (Dropped + i) - 1 = 0
  BY <1>3, <1>4, <1>5, <1>6, RecordsAssumption DEF Nth, Genesis
<1>7. CASE (Dropped + i) - 1 # 0
  <2>1. (Dropped + i) - 1 \in 1..Len(linked) /\ (Dropped + j) - 1 # 0
    BY <1>1, <1>4, <1>7
  <2> QED BY <1>3, <1>4, <1>7, <2>1 DEF Nth, AuditInv, IdsFresh
<1> QED BY <1>6, <1>7

\* What verify says of a chain that somebody has changed.
LEMMA WindowIsGuarded == ASSUME AuditInv, ChainSound PROVE TamperShows
<1>0. entries \in Seq(Entries) /\ Len(entries) \in Nat
  BY LenProperties DEF AuditInv, AuditTypeOK, Entries
<1>1. \A i \in 1..Len(entries) : /\ entries[i].prev = HashBefore(entries, i)
                                 /\ entries[i].sig = Sign(entries[i].id, entries[i].prev)
  BY DEF ChainSound, Verify, LinkHolds, EntryHash
<1>2. ASSUME NEW i \in 1..(Len(entries) - 1) PROVE ~Verify(RemoveAt(entries, i))
  <2> DEFINE a == SubSeq(entries, 1, i - 1)
             b == SubSeq(entries, i + 1, Len(entries))
             s == a \o b
  <2>1. a \in Seq(Entries) /\ Len(a) = i - 1 /\ \A k \in 1..(i - 1) : a[k] = entries[k]
    BY <1>0, SubSeqProperties
  <2>2. b \in Seq(Entries) /\ Len(b) = Len(entries) - i /\ b[1] = entries[i + 1]
    BY <1>0, SubSeqProperties
  <2> HIDE DEF a, b
  <2>3. Len(s) = Len(entries) - 1 /\ s[i] = entries[i + 1]
        /\ \A k \in 1..(i - 1) : s[k] = entries[k]
    <3>1. /\ Len(s) = Len(a) + Len(b)
          /\ \A k \in 1..(Len(a) + Len(b)) : s[k] = IF k <= Len(a) THEN a[k] ELSE b[k - Len(a)]
      BY <2>1, <2>2, ConcatProperties
    <3>2. Len(s) = Len(entries) - 1
      BY <1>0, <2>1, <2>2, <3>1
    <3>3. i \in 1..(Len(a) + Len(b)) /\ ~(i <= Len(a)) /\ i - Len(a) = 1
      BY <1>0, <2>1, <2>2
    <3>4. s[i] = b[1]
      BY <3>1, <3>3
    <3>5. ASSUME NEW k \in 1..(i - 1) PROVE s[k] = entries[k]
      <4>1. k \in 1..(Len(a) + Len(b)) /\ k <= Len(a)
        BY <1>0, <2>1, <2>2
      <4> QED BY <2>1, <3>1, <4>1
    <3> QED BY <2>2, <3>2, <3>4, <3>5
  <2> HIDE DEF s
  <2>4. HashBefore(s, i) = HashBefore(entries, i)
    BY <1>0, <2>3 DEF HashBefore
  <2>5. entries[i].prev # entries[i + 1].prev
    BY <1>0, LinksDiffer
  <2>6. ~LinkHolds(s, i)
    BY <1>0, <1>1, <2>3, <2>4, <2>5 DEF LinkHolds
  <2>7. RemoveAt(entries, i) = s
    BY DEF RemoveAt, s, a, b
  <2> QED BY <1>0, <2>3, <2>6, <2>7 DEF Verify
<1>3. ASSUME NEW i \in 1..Len(entries), NEW j \in 1..Len(entries), i < j
      PROVE  ~Verify([entries EXCEPT ![i] = entries[j], ![j] = entries[i]])
  <2> DEFINE s == [entries EXCEPT ![i] = entries[j], ![j] = entries[i]]
  <2>1. Len(s) = Len(entries) /\ s[i] = entries[j] /\ \A k \in 1..(i - 1) : s[k] = entries[k]
    BY <1>0, <1>3
  <2> HIDE DEF s
  <2>2. HashBefore(s, i) = HashBefore(entries, i)
    BY <1>0, <2>1 DEF HashBefore
  <2>3. entries[i].prev # entries[j].prev
    BY <1>3, LinksDiffer
  <2>4. ~LinkHolds(s, i)
    BY <1>1, <2>1, <2>2, <2>3 DEF LinkHolds
  <2> QED BY <2>1, <2>4 DEF Verify, s
<1>4. ASSUME NEW i \in 1..Len(entries), NEW id \in 1..MaxRecords, id # entries[i].id
      PROVE  ~Verify([entries EXCEPT ![i].id = id])
  <2> DEFINE s == [entries EXCEPT ![i].id = id]
  <2>1. entries[i] \in Entries
    BY <1>0, ElementOfSeq
  <2>2. Len(s) = Len(entries) /\ s[i].id = id /\ s[i].sig = entries[i].sig
    BY <1>0, <2>1 DEF Entries
  <2> HIDE DEF s
  <2>3. s[i].sig # Sign(s[i].id, HashBefore(s, i))
    BY <1>1, <1>4, <2>2 DEF Sign
  <2> QED BY <2>2, <2>3 DEF Verify, LinkHolds, EntryHash, s
<1> QED BY <1>2, <1>3, <1>4 DEF TamperShows

\* verify notices an entry that was taken out, two that changed places, and one
\* whose data was changed.
THEOREM TamperingShows == AuditSpec => []TamperShows
BY WindowIsGuarded, AuditInvHolds, ChainIsSound, PTL
-----------------------------------------------------------------------------
(* The parts side by side: every step of one is a step or a stutter of     *)
(* each, so an invariant of a part is one of the whole.                    *)

\* A step of one part leaves the others alone.
LEMMA EachService ==
  ASSUME [ServicesNext]_servicesVars
  PROVE  [SchedulerNext]_schedulerVars /\ [AuditNext]_auditVars /\ [InferenceNext]_iqVars
  <1>1. CASE UNCHANGED servicesVars
    BY <1>1 DEF servicesVars
  <1>2. CASE ServicesNext
    <2>1. CASE QueueStep /\ UNCHANGED <<auditVars, iqVars>>
      BY <2>1 DEF SchedulerNext
    <2>2. CASE LoadStep /\ UNCHANGED <<auditVars, iqVars>>
      BY <2>2 DEF SchedulerNext
    <2>3. CASE (\E k \in Keys(dag) : Finish(k)) /\ UNCHANGED <<auditVars, iqVars>>
      BY <2>3 DEF SchedulerNext
    <2>4. CASE AuditNext /\ UNCHANGED <<schedulerVars, iqVars>>
      BY <2>4
    <2>5. CASE InferenceNext /\ UNCHANGED <<schedulerVars, auditVars>>
      BY <2>5
    <2> QED BY <1>2, <2>1, <2>2, <2>3, <2>4, <2>5 DEF ServicesNext
  <1> QED BY <1>1, <1>2

\* What each part keeps, together.
ServicesInv == OrdersInv /\ TiersInv /\ AuditInv /\ InferenceInv

\* The invariants of the parts hold side by side.
LEMMA ServicesInvHolds == ServicesSpec => []ServicesInv
  <1>1. ServicesInit => ServicesInv
    BY OrdersBegin, TiersBegin, AuditInitInv, InferenceBegins DEF ServicesInit, ServicesInv
  <1>2. ServicesInv /\ [ServicesNext]_servicesVars => ServicesInv'
    <2> SUFFICES ASSUME ServicesInv, [ServicesNext]_servicesVars PROVE ServicesInv'
      OBVIOUS
    <2>1. [SchedulerNext]_schedulerVars /\ [AuditNext]_auditVars /\ [InferenceNext]_iqVars
      BY EachService
    <2>2. OrdersInv' /\ TiersInv'
      BY <2>1, OrdersStep, TiersStep DEF ServicesInv
    <2>3. AuditInv'
      BY <2>1, AuditStep DEF ServicesInv
    <2>4. InferenceInv'
      BY <2>1, InferenceStep DEF ServicesInv
    <2> QED BY <2>2, <2>3, <2>4 DEF ServicesInv
  <1> QED BY <1>1, <1>2, PTL DEF ServicesSpec

\* The scheduler's variables hold what the code could store in them.
LEMMA SchedulerTyped == ASSUME OrdersInv, TiersInv PROVE SchedulerTypeOK
  <1>1. /\ queues \in [Tiers -> Seq([priority : Priorities, at : Nat])]
        /\ taken \in Seq([priority : Priorities, at : Nat])
    BY DEF TiersInv, Waitings
  <1>2. arrivals \in 0..MaxArrivals /\ loads \in 0..MaxLoads
    BY LimitsAssumption DEF TiersInv
  <1>3. /\ dag = NoDag \/ dag \in Dags
        /\ offered = NoDag \/ offered \in Dags
        /\ accepted \in BOOLEAN /\ done \in Seq(Keys(dag))
        /\ vec = <<>> \/ vec \in Vectors
    BY DEF OrdersInv
  <1>4. order \in Seq(DOMAIN vec)
    BY DEF OrdersInv, OrderOf
  <1> QED BY <1>1, <1>2, <1>3, <1>4 DEF SchedulerTypeOK

\* For any DAGs, vectors, recorders and requests: load_dag accepts exactly the
\* DAGs whose keys can be ordered, one that was accepted runs through along its
\* edges and never gets stuck, verify notices tampering, and every variable keeps
\* its type.
THEOREM ServicesAreSound == ServicesSpec => []ServicesSound
  <1>1. ServicesInv => ServicesSound
    <2> SUFFICES ASSUME ServicesInv PROVE ServicesSound
      OBVIOUS
    <2>1. SchedulerTypeOK
      BY SchedulerTyped DEF ServicesInv
    <2>2. KahnExact /\ RunsThrough
      BY OrdersSay DEF ServicesInv
    <2>3. AuditTypeOK /\ TamperShows
      BY WindowIsSound, WindowIsGuarded DEF ServicesInv, AuditInv
    <2>4. InferenceTypeOK
      BY DEF ServicesInv, InferenceInv, ThreadsInv
    <2> QED BY <2>1, <2>2, <2>3, <2>4 DEF ServicesSound, ServicesTypeOK
  <1> QED BY <1>1, ServicesInvHolds, PTL

\* The order a DAG crew runs its tasks in is complete exactly when one exists,
\* goes forward along every dependency, and is the one its priorities and the
\* places in the vector fix, for any task vector.
THEOREM SortIsExact == ServicesSpec => []SortExact
  <1>1. ServicesInv => SortExact
    BY OrdersSay DEF ServicesInv
  <1> QED BY <1>1, ServicesInvHolds, PTL

\* An open inference request is in the queue or with one thread, never both and
\* never neither, for any requests, workers and drainers.
THEOREM OpenInOnePlace == ServicesSpec => []OnePlace
  <1>1. ServicesInv => OnePlace
    BY InOnePlace DEF ServicesInv
  <1> QED BY <1>1, ServicesInvHolds, PTL

\* dequeue never takes a task that a waiting one outranks, and of equals takes the
\* one that came first, for any priorities, those outside the range included.
THEOREM TiersServeInOrder == ServicesSpec => TakesInOrder
  <1>1. ServicesInv /\ [ServicesNext]_servicesVars =>
          [taken' # taken => \A w \in Waiters :
             LET x == taken'[1] IN
               \/ w.priority < x.priority
               \/ /\ x.at <= w.at
                  /\ w.priority = x.priority \/ x.priority >= 4 \/ w.priority <= 0]_schedulerVars
    <2> SUFFICES ASSUME ServicesInv, [ServicesNext]_servicesVars, taken' # taken, NEW w \in Waiters
                 PROVE  LET x == taken'[1] IN
                          \/ w.priority < x.priority
                          \/ /\ x.at <= w.at
                             /\ w.priority = x.priority \/ x.priority >= 4 \/ w.priority <= 0
      OBVIOUS
    <2>1. [SchedulerNext]_schedulerVars
      BY EachService
    <2>2. Dequeue
      BY <2>1 DEF SchedulerNext, schedulerVars, QueueStep, LoadStep, Enqueue, LoadDag, SortTasks, Finish
    <2> QED BY <2>2, TakenFirst DEF ServicesInv
  <1> QED BY <1>1, ServicesInvHolds, PTL DEF ServicesSpec, TakesInOrder

\* Where callers give one of the five priorities, what a thread takes is not
\* outranked by anything it leaves in the queue.
THEOREM TakenInTurn ==
  ASSUME TaskPriorities \subseteq 0..4
  PROVE  ServicesSpec => NotOutranked
  <1>1. ServicesInv /\ [ServicesNext]_servicesVars =>
          [\A w \in Workers : running[w] # running'[w] /\ running'[w] # NoRequest =>
             \A x \in Requests : InQueue(x) => priority[x] <= priority[running'[w]]]_iqVars
    <2> SUFFICES ASSUME ServicesInv, [ServicesNext]_servicesVars,
                        NEW w \in Workers, running[w] # running'[w], running'[w] # NoRequest,
                        NEW x \in Requests, InQueue(x)
                 PROVE  priority[x] <= priority[running'[w]]
      OBVIOUS
    <2>1. [InferenceNext]_iqVars
      BY EachService
    <2> QED BY <2>1, TakenIsUrgent DEF ServicesInv
  <1> QED BY <1>1, ServicesInvHolds, PTL DEF ServicesSpec, NotOutranked
-----------------------------------------------------------------------------
(* Fleet coordination.                                                     *)

\* The nodes that take part are the nodes whose progress is kept.
TrackedTakePart == \A r \in Runs : tracked[r] = nodes[r]

\* What ties the answers to the count, whatever the status is.
RetriedIsCounted == \A t \in Tasks :
    /\ retried[t] = IF count[t] <= MaxRetries THEN count[t] ELSE MaxRetries
    /\ status[t] = "failed" => count[t] > MaxRetries
    /\ status[t] = "reassigned" => count[t] <= MaxRetries

IndInv == TypeOK /\ TrackedTakePart /\ NoStuckWait /\ RetriedIsCounted

\* The places a plan gives are nodes.
LEMMA PlacesAreNodes ==
    ASSUME NEW plan \in Plans
    PROVE  {plan.place[t] : t \in DOMAIN plan.place} \subseteq Nodes
BY PlansAssumption

\* When the count says that not all are in, somebody who takes part is missing.
LEMMA SomebodyMissing ==
    ASSUME NEW N \in SUBSET Nodes, NEW A \in SUBSET Nodes, ~AllReached(N, A)
    PROVE  N \ A # {}
<1>1. IsFiniteSet(N) /\ IsFiniteSet(A)
  BY NodesAssumption, FS_Subset
<1>2. Cardinality(N) \in Nat /\ Cardinality(A) \in Nat
  BY <1>1, FS_CardinalityType
<1>3. ASSUME N \subseteq A PROVE FALSE
  <2>1. Cardinality(N) <= Cardinality(A)
    BY <1>1, <1>3, FS_Subset
  <2> QED BY <1>2, <2>1 DEF AllReached
<1> QED BY <1>3

\* When it says that all are in, and nobody was counted who does not take part,
\* all are in.
LEMMA NobodyMissing ==
    ASSUME NEW N \in SUBSET Nodes, NEW A \in SUBSET N, AllReached(N, A)
    PROVE  N \subseteq A
<1>1. IsFiniteSet(N) /\ IsFiniteSet(A)
  BY NodesAssumption, FS_Subset
<1>2. Cardinality(N) \in Nat /\ Cardinality(A) \in Nat
  BY <1>1, FS_CardinalityType
<1>3. Cardinality(A) <= Cardinality(N)
  BY <1>1, FS_Subset
<1>4. Cardinality(A) = Cardinality(N)
  BY <1>2, <1>3 DEF AllReached
<1> QED BY <1>1, <1>4, FS_Subset

\* The invariant holds of a new coordinator.
LEMMA InitInv == Init => IndInv
<1> SUFFICES ASSUME Init PROVE IndInv
  OBVIOUS
<1>1. TypeOK
  BY RetriesAssumption DEF Init, RunsInit, TypeOK, RunsTypeOK, Phases, Absent, Statuses
<1>2. TrackedTakePart
  BY DEF Init, RunsInit, TrackedTakePart
<1>3. NoStuckWait
  BY DEF Init, RunsInit, NoStuckWait, Phase, WaitingAt
<1>4. RetriedIsCounted
  BY RetriesAssumption DEF Init, RetriedIsCounted
<1> QED BY <1>1, <1>2, <1>3, <1>4 DEF IndInv

\* The invariant's part about runs.
RunsInv == RunsTypeOK /\ TrackedTakePart /\ NoStuckWait

\* The invariant's part about tasks.
TasksInv ==
    /\ status \in [Tasks -> Statuses]
    /\ count \in [Tasks -> 0..MaxFailures]
    /\ retried \in [Tasks -> 0..MaxFailures]
    /\ RetriedIsCounted

\* create_run keeps the runs' part, evicting or not.
LEMMA CreateRunInv ==
    ASSUME RunsInv, NEW r \in Runs, NEW N \in SUBSET Nodes, CreateRun(r, N)
    PROVE  RunsInv'
<1>1. RunsTypeOK'
  BY DEF RunsInv, RunsTypeOK, CreateRun, Phases, Absent
<1>2. TrackedTakePart'
  BY DEF RunsInv, TrackedTakePart, CreateRun
<1>3. NoStuckWait'
  BY DEF RunsInv, RunsTypeOK, NoStuckWait, CreateRun, Phase, WaitingAt
<1> QED BY <1>1, <1>2, <1>3 DEF RunsInv

\* An arrival keeps it: the run waits only if somebody is missing.
LEMMA ReachBarrierInv ==
    ASSUME RunsInv, NEW r \in Runs, NEW n \in Nodes, NEW b \in Barriers,
           ReachBarrier(r, n, b)
    PROVE  RunsInv'
<1> DEFINE A == arrived[r][b] \cup {n}
<1>1. nodes[r] \in SUBSET Nodes /\ A \in SUBSET Nodes
  BY DEF RunsInv, RunsTypeOK
<1>2. RunsTypeOK'
  BY DEF RunsInv, RunsTypeOK, ReachBarrier, Phases
<1>3. TrackedTakePart'
  BY DEF RunsInv, TrackedTakePart, ReachBarrier
<1>4. NoStuckWait'
  <2> SUFFICES ASSUME NEW s \in Runs, NEW c \in Barriers, phase'[s] = WaitingAt(c)
               PROVE  /\ arrived'[s][c] # {}
                      /\ nodes'[s] \ arrived'[s][c] # {}
                      /\ tracked'[s] = nodes'[s]
    BY DEF NoStuckWait
  <2>1. CASE s # r
    BY <2>1 DEF RunsInv, RunsTypeOK, NoStuckWait, ReachBarrier
  <2>2. CASE s = r
    <3>1. ~AllReached(nodes[r], A) /\ c = b
      BY <2>2 DEF RunsInv, RunsTypeOK, ReachBarrier, Phase, WaitingAt
    <3>2. nodes[r] \ A # {}
      BY <1>1, <3>1, SomebodyMissing
    <3>3. arrived'[s][c] = A /\ nodes' = nodes
      BY <2>2, <3>1 DEF RunsInv, RunsTypeOK, ReachBarrier
    <3> QED BY <2>2, <3>2, <3>3, <1>3 DEF TrackedTakePart
  <2> QED BY <2>1, <2>2
<1> QED BY <1>2, <1>3, <1>4 DEF RunsInv

\* A removal keeps it: who is left to wait for is still missing.
LEMMA RemoveNodeInv ==
    ASSUME RunsInv, NEW r \in Runs, NEW n \in Nodes, RemoveNode(r, n)
    PROVE  RunsInv'
<1>1. RunsTypeOK'
  BY DEF RunsInv, RunsTypeOK, RemoveNode, Phases
<1>2. TrackedTakePart'
  BY DEF RunsInv, RunsTypeOK, TrackedTakePart, RemoveNode
<1>3. NoStuckWait'
  <2> SUFFICES ASSUME NEW s \in Runs, NEW c \in Barriers, phase'[s] = WaitingAt(c)
               PROVE  /\ arrived'[s][c] # {}
                      /\ nodes'[s] \ arrived'[s][c] # {}
                      /\ tracked'[s] = nodes'[s]
    BY DEF NoStuckWait
  <2>1. CASE s # r
    BY <2>1 DEF RunsInv, RunsTypeOK, NoStuckWait, RemoveNode
  <2>2. CASE s = r
    <3>1. phase[r] = WaitingAt(c) /\ c \notin Satisfied(r, n)
      BY <2>2 DEF RunsInv, RunsTypeOK, RemoveNode, Phase, WaitingAt
    <3>2. arrived[r][c] # {}
      BY <3>1 DEF RunsInv, NoStuckWait
    <3>3. ~ ((nodes[r] \ {n}) \subseteq arrived[r][c])
      BY <3>1, <3>2 DEF Satisfied
    <3>4. arrived'[s][c] = arrived[r][c] /\ nodes'[s] = nodes[r] \ {n}
      BY <2>2, <3>1 DEF RunsInv, RunsTypeOK, RemoveNode
    <3> QED BY <3>2, <3>3, <3>4, <1>2 DEF TrackedTakePart
  <2> QED BY <2>1, <2>2
<1> QED BY <1>1, <1>2, <1>3 DEF RunsInv

\* Every call on a run keeps the runs' part.
LEMMA RunStepInv ==
    ASSUME RunsInv, NEW r \in Runs, RunStep(r)
    PROVE  RunsInv'
<1>1. ASSUME NEW n \in Nodes, ReportProgress(r, n) PROVE RunsInv'
  BY <1>1 DEF RunsInv, RunsTypeOK, TrackedTakePart, NoStuckWait, ReportProgress, Advanced,
              Phases, Phase, WaitingAt
<1>2. CASE Checkpoint(r)
  BY <1>2 DEF RunsInv, RunsTypeOK, TrackedTakePart, NoStuckWait, Checkpoint, Advanced,
              Phases, Phase, WaitingAt
<1>3. ASSUME NEW n \in Nodes, NEW b \in Barriers, ReachBarrier(r, n, b) PROVE RunsInv'
  BY <1>3, ReachBarrierInv
<1>4. ASSUME NEW b \in Barriers, ForceBarrier(r, b) PROVE RunsInv'
  BY <1>4 DEF RunsInv, RunsTypeOK, TrackedTakePart, NoStuckWait, ForceBarrier, Phases,
              Phase, WaitingAt
<1>5. ASSUME NEW n \in Nodes, RemoveNode(r, n) PROVE RunsInv'
  BY <1>5, RemoveNodeInv
<1>6. ASSUME NEW p \in Terminals, EndRun(r, p) PROVE RunsInv'
  <2>1. p \in Phases
    BY <1>6 DEF Phases
  <2>2. \A b \in Barriers : WaitingAt(b) \notin Terminals
    BY DEF Terminals, Phase, WaitingAt
  <2> QED BY <1>6, <2>1, <2>2 DEF RunsInv, RunsTypeOK, TrackedTakePart, NoStuckWait, EndRun
<1> QED BY <1>1, <1>2, <1>3, <1>4, <1>5, <1>6 DEF RunStep

\* What does not touch the runs keeps their part.
LEMMA RunsStutter == ASSUME RunsInv, UNCHANGED runVars PROVE RunsInv'
BY DEF RunsInv, RunsTypeOK, TrackedTakePart, NoStuckWait, runVars

\* What does not touch the tasks keeps theirs.
LEMMA TasksStutter == ASSUME TasksInv, UNCHANGED taskVars PROVE TasksInv'
BY DEF TasksInv, RetriedIsCounted, taskVars

\* A fan-out keeps the tasks' part, counts of dropped tasks going with them.
LEMMA FanOutTasks ==
    ASSUME TasksInv, NEW r \in Runs, NEW plan \in Plans, FanOut(r, plan)
    PROVE  TasksInv'
<1>1. /\ status' \in [Tasks -> Statuses]
      /\ count' \in [Tasks -> 0..MaxFailures]
      /\ retried' \in [Tasks -> 0..MaxFailures]
  BY RetriesAssumption DEF TasksInv, FanOut, CountsKept, Statuses
<1>2. RetriedIsCounted'
  BY RetriesAssumption DEF TasksInv, RetriedIsCounted, FanOut, CountsKept
<1> QED BY <1>1, <1>2 DEF TasksInv

\* A completion, a failure and a reassignment keep it.
LEMMA TaskStepInv ==
    ASSUME TasksInv, NEW t \in Tasks, TaskStep(t)
    PROVE  TasksInv'
<1>1. CASE TaskCompleted(t)
  BY <1>1 DEF TasksInv, RetriedIsCounted, TaskCompleted, Statuses
<1>2. CASE TaskFailed(t)
  <2>1. count[t] \in 0..MaxFailures /\ count[t] < MaxFailures
    BY <1>2 DEF TasksInv, TaskFailed
  <2>2. count' = [count EXCEPT ![t] = count[t] + 1]
    BY <1>2 DEF TaskFailed
  <2>3. count' \in [Tasks -> 0..MaxFailures] /\ count'[t] = count[t] + 1
    BY <2>1, <2>2, RetriesAssumption DEF TasksInv
  <2>4. status' \in [Tasks -> Statuses]
    BY <1>2 DEF TasksInv, TaskFailed, Statuses
  <2>5. retried' \in [Tasks -> 0..MaxFailures]
    BY <1>2, <2>1, <2>3, RetriesAssumption DEF TasksInv, RetriedIsCounted, TaskFailed, MayRetry
  <2>6. RetriedIsCounted'
    BY <1>2, <2>1, <2>2, <2>3, RetriesAssumption DEF TasksInv, RetriedIsCounted, TaskFailed, MayRetry
  <2> QED BY <2>3, <2>4, <2>5, <2>6 DEF TasksInv
<1>3. CASE Reassign(t)
  BY <1>3 DEF TasksInv, RetriedIsCounted, Reassign, Statuses
<1> QED BY <1>1, <1>2, <1>3 DEF TaskStep

\* The two parts make up the invariant.
LEMMA IndInvParts == IndInv <=> RunsInv /\ TasksInv
BY DEF IndInv, TypeOK, RunsInv, TasksInv

\* Every step keeps the invariant.
LEMMA NextInv == IndInv /\ [Next]_vars => IndInv'
<1> SUFFICES ASSUME RunsInv, TasksInv, [Next]_vars PROVE RunsInv' /\ TasksInv'
  BY IndInvParts DEF IndInv, TypeOK, RunsInv, TasksInv
<1>1. ASSUME NEW r \in Runs, NEW plan \in Plans, FanOut(r, plan) PROVE RunsInv' /\ TasksInv'
  BY <1>1, PlacesAreNodes, CreateRunInv, FanOutTasks DEF FanOut
<1>2. ASSUME NEW t \in Tasks, TaskStep(t) PROVE RunsInv' /\ TasksInv'
  <2>1. UNCHANGED runVars
    BY <1>2 DEF TaskStep, TaskCompleted, TaskFailed, Reassign
  <2> QED BY <1>2, <2>1, RunsStutter, TaskStepInv
<1>3. ASSUME NEW r \in Runs, RunStep(r), UNCHANGED taskVars PROVE RunsInv' /\ TasksInv'
  BY <1>3, RunStepInv, TasksStutter
<1>4. CASE UNCHANGED vars
  BY <1>4, RunsStutter, TasksStutter DEF vars
<1> QED BY <1>1, <1>2, <1>3, <1>4 DEF Next

\* The invariant of the coordinator.
LEMMA InvHolds == Spec => []IndInv
BY InitInv, NextInv, PTL DEF Spec

\* The coordinator's maps and the runs' state hold what their types say.
THEOREM TypeCorrect == Spec => []TypeOK
BY InvHolds, PTL DEF IndInv

\* A run never waits for nobody: remove_node's test for the survivors and
\* reach_barrier's count together leave no run at a barrier that nobody who
\* takes part can still reach.
THEOREM WaitsForSomebody == Spec => []NoStuckWait
BY InvHolds, PTL DEF IndInv

\* max_retries is the number of retries of a known task: what task_failed
\* answered, through reassignment, late failures, fan-outs and eviction.
THEOREM RetriesAreExact == Spec => []RetryExact
<1>1. IndInv => RetryExact
  BY RetriesAssumption DEF IndInv, TypeOK, RetriedIsCounted, RetryExact
<1> QED BY <1>1, InvHolds, PTL

\* An arrival that opens a barrier was the last one missing, unless a removed
\* node's arrival was counted: the two counts of reach_barrier agree with the
\* sets they stand for as long as only participants are counted.
THEOREM BarrierOpensForAll == Spec => OpensForAll
<1>1. ASSUME RunsTypeOK, NEW r \in Runs, NEW n \in Nodes, NEW b \in Barriers,
             ReachBarrier(r, n, b), phase'[r] = Phase("running"),
             arrived[r][b] \subseteq nodes[r]
      PROVE  nodes[r] \subseteq arrived'[r][b]
  <2>1. AllReached(nodes[r], arrived[r][b] \cup {n})
    BY <1>1 DEF RunsTypeOK, ReachBarrier, Phase, WaitingAt
  <2>2. nodes[r] \in SUBSET Nodes /\ arrived[r][b] \cup {n} \in SUBSET nodes[r]
    BY <1>1 DEF RunsTypeOK, ReachBarrier
  <2>3. arrived'[r][b] = arrived[r][b] \cup {n}
    BY <1>1 DEF RunsTypeOK, ReachBarrier
  <2> QED BY <2>1, <2>2, <2>3, NobodyMissing
<1>2. IndInv => [\A r \in Runs, n \in Nodes, b \in Barriers :
                   ReachBarrier(r, n, b) /\ phase'[r] = Phase("running") =>
                     \/ nodes[r] \subseteq arrived'[r][b]
                     \/ ~ (arrived[r][b] \subseteq nodes[r])]_runVars
  BY <1>1 DEF IndInv, TypeOK
<1> QED BY <1>2, InvHolds, PTL DEF OpensForAll

\* Progress reports, checkpoints and removals never revive an ended run, and
\* eviction takes ended runs only, with their barriers.
THEOREM EndedRunsStand == Spec => EndedStands
<1> DEFINE Stands(r) ==
      phase'[r] # phase[r] =>
        /\ r \in Ended =>
             \/ phase'[r] \in Terminals \cup {Phase("gone")}
             \/ \E b \in Barriers : ForceBarrier(r, b) \/ \E n \in Nodes : ReachBarrier(r, n, b)
        /\ phase'[r] = Phase("gone") =>
             r \in Ended /\ \A b \in Barriers : arrived'[r][b] = {}
<1>0. ASSUME RunsTypeOK, NEW r \in Runs, RunStep(r), NEW s \in Runs, s # r
      PROVE  phase'[s] = phase[s]
  BY <1>0 DEF RunsTypeOK, RunStep, ReportProgress, Checkpoint, ReachBarrier, ForceBarrier,
              RemoveNode, EndRun
<1>1. ASSUME RunsTypeOK, NEW r \in Runs, RunStep(r) PROVE Stands(r)
  <2>0. Phase("gone") \notin Terminals /\ Phase("running") # Phase("gone")
        /\ Phase("initializing") \notin Terminals
        /\ \A b \in Barriers : WaitingAt(b) \notin Terminals \cup {Phase("gone")}
    BY DEF Terminals, Phase, WaitingAt
  <2>p. phase[r] # Phase("gone")
    BY <1>1 DEF RunStep, ReportProgress, Checkpoint, ReachBarrier, ForceBarrier,
                RemoveNode, EndRun, Present, Absent
  <2>1. ASSUME NEW n \in Nodes, ReportProgress(r, n) PROVE Stands(r)
    BY <1>1, <2>0, <2>p, <2>1 DEF RunsTypeOK, ReportProgress, Advanced, Ended
  <2>2. CASE Checkpoint(r)
    BY <1>1, <2>0, <2>p, <2>2 DEF RunsTypeOK, Checkpoint, Advanced, Ended
  <2>3. ASSUME NEW n \in Nodes, NEW b \in Barriers, ReachBarrier(r, n, b) PROVE Stands(r)
    <3>1. phase'[r] # Phase("gone")
      BY <1>1, <2>0, <2>3 DEF RunsTypeOK, ReachBarrier
    <3> QED BY <2>3, <3>1
  <2>4. ASSUME NEW b \in Barriers, ForceBarrier(r, b) PROVE Stands(r)
    <3>1. phase'[r] # Phase("gone")
      BY <1>1, <2>0, <2>4 DEF RunsTypeOK, ForceBarrier
    <3> QED BY <2>4, <3>1
  <2>5. ASSUME NEW n \in Nodes, RemoveNode(r, n) PROVE Stands(r)
    <3>1. phase'[r] # phase[r] =>
            phase'[r] = Phase("running") /\ \E b \in Barriers : phase[r] = WaitingAt(b)
      BY <1>1, <2>5 DEF RunsTypeOK, RemoveNode, Satisfied
    <3> QED BY <2>0, <3>1 DEF Ended
  <2>6. ASSUME NEW p \in Terminals, EndRun(r, p) PROVE Stands(r)
    BY <1>1, <2>0, <2>6 DEF RunsTypeOK, EndRun
  <2> QED BY <1>1, <2>1, <2>2, <2>3, <2>4, <2>5, <2>6 DEF RunStep
<1>2. ASSUME RunsTypeOK, NEW r \in Runs, NEW N, CreateRun(r, N), NEW s \in Runs PROVE Stands(s)
  <2>1. phase[s] # Phase("gone") /\ phase'[s] = Phase("gone") => s \in EvictedRuns
    BY <1>2 DEF RunsTypeOK, CreateRun, Phase
  <2>2. s \in Ended => phase'[s] \in {phase[s], Phase("gone")}
    <3>1. Phase("unmade") \notin Terminals
      BY DEF Terminals, Phase
    <3>2. s \in Ended => s # r
      BY <1>2, <3>1 DEF CreateRun, Ended
    <3> QED BY <1>2, <3>2 DEF RunsTypeOK, CreateRun
  <2>3. s \in EvictedRuns => s \in Ended /\ \A b \in Barriers : arrived'[s][b] = {}
    BY <1>2 DEF CreateRun, EvictedRuns
  <2> QED BY <2>1, <2>2, <2>3
<1>3. IndInv /\ [Next]_vars => [\A r \in Runs : Stands(r)]_runVars
  <2> SUFFICES ASSUME RunsTypeOK, Next PROVE (\A r \in Runs : Stands(r)) \/ UNCHANGED runVars
    BY DEF IndInv, TypeOK, vars
  <2>1. ASSUME NEW r \in Runs, NEW plan \in Plans, FanOut(r, plan)
        PROVE  \A s \in Runs : Stands(s)
    BY <2>1, <1>2 DEF FanOut
  <2>2. ASSUME NEW t \in Tasks, TaskStep(t) PROVE UNCHANGED runVars
    BY <2>2 DEF TaskStep, TaskCompleted, TaskFailed, Reassign
  <2>3. ASSUME NEW r \in Runs, RunStep(r) PROVE \A s \in Runs : Stands(s)
    BY <2>3, <1>0, <1>1
  <2> QED BY <2>1, <2>2, <2>3 DEF Next
<1> QED BY <1>3, InvHolds, PTL DEF EndedStands, Spec
=============================================================================
