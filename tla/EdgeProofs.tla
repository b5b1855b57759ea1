----------------------------- MODULE EdgeProofs -----------------------------
(***************************************************************************)
(* Theorems about the parts around the server and its tools, each by       *)
(* itself as MCEdge runs them: validation of a request, authentication and *)
(* routes, the server's stores, the sandboxes, the registry of tools and   *)
(* its downloads, the grade of the security audit, the loader of           *)
(* definitions and the redaction of responses.  For any requests,          *)
(* environments, directories, packages, texts and limits, and finitely     *)
(* many crews in the metrics.                                              *)
(***************************************************************************)
EXTENDS MCEdge, FiniteSetTheorems, SequenceTheorems, NaturalsInduction, WellFoundedInduction, TLAPS

-----------------------------------------------------------------------------
(* Induction, and least numbers.                                           *)

\* Induction over the numbers, of a set of them.
LEMMA SetInduction ==
  ASSUME NEW S, 0 \in S, \A n \in Nat : n \in S => n + 1 \in S
  PROVE  Nat \subseteq S
  <1> DEFINE T == Nat \ S
  <1>1. SUFFICES ASSUME T # {} PROVE FALSE
    OBVIOUS
  <1>2. PICK x \in T : \A y \in T : ~(<<y, x>> \in OpToRel(<, Nat))
    BY <1>1, NatLessThanWellFounded, WFMin, Zenon
  <1>3. x \in Nat /\ x \notin S
    OBVIOUS
  <1>4. x # 0 /\ x - 1 \in Nat /\ x - 1 < x /\ (x - 1) + 1 = x
    BY <1>3
  <1>5. x - 1 \in T
    BY <1>3, <1>4
  <1>6. <<x - 1, x>> \in OpToRel(<, Nat)
    BY <1>3, <1>4 DEF OpToRel
  <1> QED BY <1>2, <1>5, <1>6, Zenon

\* A set of numbers has a least one.
LEMMA LeastNat ==
  ASSUME NEW S \in SUBSET Nat, S # {}
  PROVE  \E x \in S : \A y \in S : x <= y
  <1>1. PICK x \in S : \A y \in S : ~(<<y, x>> \in OpToRel(<, Nat))
    <2>1. IsWellFoundedOn(OpToRel(<, Nat), Nat)
      BY NatLessThanWellFounded
    <2> QED BY <2>1, WFMin, Zenon
  <1>2. \A y \in S : ~(y < x)
    BY <1>1 DEF OpToRel
  <1> QED BY <1>2

-----------------------------------------------------------------------------
(* A step moves one part.                                                  *)

\* What moves with a step of the registry of tools.
registryVars == <<entries, scan, tools, calls>>

\* Every step of the whole is a step of a part or leaves it as it was.
LEMMA EachEdge ==
  ASSUME [EdgeNext]_edgeVars
  PROVE  /\ [RequestNext]_requestVars /\ [HttpNext]_httpVars
         /\ [RateNext]_rateVars /\ [VersionNext]_versionVars /\ [MetricNext]_metricVars
         /\ [ChildNext]_childVars /\ [WasmNext]_wasmVars /\ [KavachNext]_<<kavach>>
         /\ [RegistryNext]_registryVars /\ [FetchNext]_<<fetch>>
         /\ [AssessmentNext]_<<assessment>> /\ [TextNext]_textVars /\ [LoaderNext]_loaderVars
  <1>0. CASE UNCHANGED edgeVars
    BY <1>0 DEF edgeVars, storeVars, sandboxVars, toolVars, registryVars, defVars
  <1>1. [RequestNext]_requestVars
    BY <1>0 DEF EdgeNext, Only, edgeVars
  <1>2. [HttpNext]_httpVars
    BY <1>0 DEF EdgeNext, Only, edgeVars
  <1>3. [RateNext]_rateVars
    BY <1>0 DEF EdgeNext, Only, edgeVars, storeVars, VersionNext, SaveVersion, Rollback, MetricNext,
                MetricStep, CountStarted, CountActive, CountCompleted, ScrapeTotal, ScrapeActive
  <1>4. [VersionNext]_versionVars
    BY <1>0 DEF EdgeNext, Only, edgeVars, storeVars, RateNext, EvictStale, RateTick, RateCheck, MetricNext,
                MetricStep, CountStarted, CountActive, CountCompleted, ScrapeTotal, ScrapeActive
  <1>5. [MetricNext]_metricVars
    BY <1>0 DEF EdgeNext, Only, edgeVars, storeVars, RateNext, EvictStale, RateTick, RateCheck,
                VersionNext, SaveVersion, Rollback
  <1>6. [ChildNext]_childVars
    BY <1>0 DEF EdgeNext, Only, edgeVars, sandboxVars, WasmNext, EnterWasm, WasmStep, TickerSleeps, TickerFires,
                LeaveWasm, WasmStops, KavachNext, KavachStep, CreateKavach, StartKavach, ExecKavach,
                StopKavach, DestroyKavach
  <1>7. [WasmNext]_wasmVars
    BY <1>0 DEF EdgeNext, Only, edgeVars, sandboxVars, ChildNext, ParentStep, Dispatch, Spawn, WriteInput,
                InputWritten, ReadOutput, Collected, WaitTimedOut, ChildStep,
                KavachNext, KavachStep, CreateKavach, StartKavach, ExecKavach, StopKavach, DestroyKavach
  <1>8. [KavachNext]_<<kavach>>
    BY <1>0 DEF EdgeNext, Only, edgeVars, sandboxVars, ChildNext, ParentStep, Dispatch, Spawn, WriteInput,
                InputWritten, ReadOutput, Collected, WaitTimedOut, ChildStep,
                WasmNext, EnterWasm, WasmStep, TickerSleeps, TickerFires, LeaveWasm, WasmStops
  <1>9. [RegistryNext]_registryVars
    BY <1>0 DEF EdgeNext, Only, edgeVars, toolVars, registryVars, FetchNext, StartFetch, FetchHead, FetchBody
  <1>10. [FetchNext]_<<fetch>>
    BY <1>0 DEF EdgeNext, Only, edgeVars, toolVars, RegistryNext, ScanEntry, ScanFails, ScanEnds, RemoveTool,
                LookUp, ToolReturns
  <1>11. [AssessmentNext]_<<assessment>>
    BY <1>0 DEF EdgeNext, Only, edgeVars
  <1>12. [TextNext]_textVars
    BY <1>0 DEF EdgeNext, Only, edgeVars
  <1>13. [LoaderNext]_loaderVars
    BY <1>0 DEF EdgeNext, Only, edgeVars, defVars, PackageNext, ExportPackage, ImportPackage
  <1> QED BY <1>1, <1>2, <1>3, <1>4, <1>5, <1>6, <1>7, <1>8, <1>9, <1>10, <1>11, <1>12, <1>13
-----------------------------------------------------------------------------
(* The server's small stores.                                              *)

Buckets == [tokens : 0..Burst, at : Nat, known : BOOLEAN]

\* What a key can have got through, all in all.
Allowed(k) == Burst + Rate * rateClock + Gift * evictions[k]

\* A key has got through what its bucket lacks and no more, and between two evictions
\* of a bucket lies its use and an interval.
RateInv ==
    /\ rateClock \in Nat /\ passed \in [Keys -> Nat] /\ buckets \in [Keys -> Buckets]
    /\ evictions \in [Keys -> Nat]
    /\ \A k \in Keys :
          /\ buckets[k].at <= rateClock
          /\ passed[k] + Filled(buckets[k]) <= Allowed(k)
          /\ evictions[k] * EvictionInterval <= IF buckets[k].known THEN buckets[k].at ELSE rateClock

\* Products of numbers: closed, and growing with a factor.
LEMMA Product ==
  ASSUME NEW a \in Nat, NEW b \in Nat, NEW c \in Nat
  PROVE  /\ a * b \in Nat /\ a * 0 = 0 /\ a * (b + 1) = a * b + a
         /\ b <= c => a * b <= a * c
  <1>1. a * b \in Nat /\ a * 0 = 0 /\ a * (b + 1) = a * b + a
    OBVIOUS
  <1>2. ASSUME b <= c PROVE a * b <= a * c
    <2>1. PICK d \in Nat : c = b + d
      <3>1. c - b \in Nat /\ c = b + (c - b)
        BY <1>2
      <3> QED BY <3>1
    <2>2. a * c = a * b + a * d /\ a * d \in Nat /\ a * b \in Nat
      BY <2>1
    <2> QED BY <2>2
  <1> QED BY <1>1, <1>2

\* The limits of the rate limiter are numbers.
LEMMA RateNumbers ==
  /\ {Rate, Burst, EvictionInterval, Gift} \subseteq Nat
  /\ Burst <= Rate * EvictionInterval + Gift /\ Rate * EvictionInterval \in Nat
  <1>1. {Rate, Burst, EvictionInterval} \subseteq Nat
    BY ServerStoresAssumption
  <1>2. Rate * EvictionInterval \in Nat
    BY <1>1, Product
  <1> DEFINE filled == Rate * EvictionInterval
  <1>3. Gift = IF Burst > filled THEN Burst - filled ELSE 0
    BY DEF Gift
  <1>4. filled \in Nat
    BY <1>2
  <1> HIDE DEF filled
  <1>5. Gift \in Nat /\ Burst <= filled + Gift
    BY <1>1, <1>3, <1>4
  <1> QED BY <1>1, <1>4, <1>5 DEF filled

\* What is allowed is a number.
LEMMA AllowedIs ==
  ASSUME rateClock \in Nat, evictions \in [Keys -> Nat], NEW k \in Keys
  PROVE  Allowed(k) \in Nat /\ Rate * rateClock \in Nat /\ Gift * evictions[k] \in Nat
  <1>1. Rate \in Nat /\ Burst \in Nat /\ Gift \in Nat /\ evictions[k] \in Nat
    BY RateNumbers
  <1>2. Rate * rateClock \in Nat /\ Gift * evictions[k] \in Nat
    BY <1>1, Product
  <1> QED BY <1>1, <1>2 DEF Allowed

\* A bucket holds between none and Burst, and at the time of its last use what it had.
LEMMA FilledIs ==
  ASSUME rateClock \in Nat, NEW b \in Buckets, b.at <= rateClock
  PROVE  Filled(b) \in 0..Burst
  <1>1. b.tokens \in 0..Burst /\ b.at \in Nat /\ rateClock - b.at \in Nat /\ Rate \in Nat /\ Burst \in Nat
    BY RateNumbers DEF Buckets
  <1>2. Rate * (rateClock - b.at) \in Nat
    BY <1>1, Product
  <1> DEFINE t == b.tokens + Rate * (rateClock - b.at)
  <1>3. t \in Nat
    BY <1>1, <1>2
  <1>4. Filled(b) = IF t > Burst \/ ~b.known THEN Burst ELSE t
    BY DEF Filled
  <1> HIDE DEF t
  <1> QED BY <1>1, <1>3, <1>4

\* At first no client has a bucket.
LEMMA RateBegins == ServerStoresInit => RateInv
  <1> SUFFICES ASSUME ServerStoresInit PROVE RateInv
    OBVIOUS
  <1>1. /\ buckets = [k \in Keys |-> Full] /\ rateClock = 0 /\ passed = [k \in Keys |-> 0]
        /\ evictions = [k \in Keys |-> 0]
    BY DEF ServerStoresInit
  <1>2. Full \in Buckets /\ Full.at = 0 /\ Full.known = FALSE
    BY RateNumbers DEF Full, Buckets
  <1>3. Filled(Full) = Burst
    BY <1>2 DEF Filled
  <1>4. Rate * rateClock = 0 /\ Gift * 0 = 0 /\ 0 * EvictionInterval = 0
    BY <1>1, RateNumbers
  <1>5. ASSUME NEW k \in Keys
        PROVE  /\ buckets[k].at <= rateClock /\ passed[k] + Filled(buckets[k]) <= Allowed(k)
               /\ evictions[k] * EvictionInterval <= IF buckets[k].known THEN buckets[k].at ELSE rateClock
    <2>1. buckets[k] = Full /\ passed[k] = 0 /\ evictions[k] = 0
      BY <1>1
    <2>2. Allowed(k) = Burst
      BY <1>4, <2>1, RateNumbers DEF Allowed
    <2> QED BY <1>1, <1>2, <1>3, <1>4, <2>1, <2>2, RateNumbers
  <1> QED BY <1>1, <1>2, <1>5 DEF RateInv

\* A check, an eviction and a tick of the clock keep the buckets.
LEMMA RateStep ==
  ASSUME RateInv, [RateNext]_rateVars
  PROVE  RateInv'
  <1>0. /\ rateClock \in Nat /\ passed \in [Keys -> Nat] /\ buckets \in [Keys -> Buckets]
        /\ evictions \in [Keys -> Nat]
        /\ Rate \in Nat /\ Burst \in Nat /\ EvictionInterval \in Nat /\ Gift \in Nat
        /\ \A k \in Keys : /\ buckets[k].at <= rateClock /\ Filled(buckets[k]) \in 0..Burst
                           /\ passed[k] + Filled(buckets[k]) <= Allowed(k)
    BY RateNumbers, FilledIs DEF RateInv
  <1>a. \A k \in Keys :
          evictions[k] * EvictionInterval <= IF buckets[k].known THEN buckets[k].at ELSE rateClock
    BY DEF RateInv
  <1>b. \A k \in Keys : evictions[k] * EvictionInterval \in Nat /\ buckets[k].at \in Nat
    BY <1>0, Product DEF Buckets
  <1>1. CASE UNCHANGED rateVars
    BY <1>1 DEF rateVars, RateInv, Filled, Allowed
  <1>2. CASE RateTick
    <2>1. rateClock' = rateClock + 1 /\ UNCHANGED <<buckets, passed, evictions>>
      BY <1>2 DEF RateTick
    <2>2. ASSUME NEW k \in Keys
          PROVE  /\ buckets[k].at <= rateClock' /\ passed[k] + Filled(buckets[k])' <= Allowed(k)'
                 /\ evictions[k] * EvictionInterval <= IF buckets[k].known THEN buckets[k].at ELSE rateClock'
      <3>1. buckets[k].tokens \in 0..Burst /\ buckets[k].at \in Nat /\ buckets[k].at <= rateClock
        BY <1>0 DEF Buckets
      <3> DEFINE d == rateClock - buckets[k].at
      <3>2. d \in Nat /\ rateClock' - buckets[k].at = d + 1
        <4>1. rateClock \in Nat /\ rateClock' = rateClock + 1
          BY <1>0, <2>1
        <4> QED BY <3>1, <4>1
      <3> HIDE DEF d
      <3>3. Rate * (d + 1) = Rate * d + Rate /\ Rate * d \in Nat
            /\ Rate * rateClock' = Rate * rateClock + Rate /\ Rate * rateClock \in Nat
        BY <1>0, <2>1, <3>2, Product
      <3> DEFINE t == buckets[k].tokens + Rate * d
                 u == buckets[k].tokens + Rate * (d + 1)
      <3>4. t \in Nat /\ u = t + Rate
        BY <1>0, <3>1, <3>3
      <3>5. Filled(buckets[k]) = IF t > Burst \/ ~buckets[k].known THEN Burst ELSE t
        BY DEF Filled, d
      <3>6. Filled(buckets[k])' = IF u > Burst \/ ~buckets[k].known THEN Burst ELSE u
        BY <2>1, <3>2 DEF Filled
      <3> HIDE DEF t, u
      <3>7. Filled(buckets[k])' <= Filled(buckets[k]) + Rate /\ Filled(buckets[k])' \in Int
        BY <1>0, <3>4, <3>5, <3>6
      <3>8. buckets[k].at <= rateClock'
        <4>1. rateClock \in Nat /\ rateClock' = rateClock + 1
          BY <1>0, <2>1
        <4> QED BY <3>1, <4>1
      <3>9. passed[k] + Filled(buckets[k]) <= Allowed(k) /\ passed[k] \in Nat /\ Filled(buckets[k]) \in Int
        BY <1>0
      <3>10. Allowed(k)' = Allowed(k) + Rate /\ Allowed(k) \in Nat
        <4>1. Allowed(k) \in Nat /\ Gift * evictions[k] \in Nat
          BY <1>0, AllowedIs
        <4>2. Allowed(k)' = Burst + Rate * rateClock' + Gift * evictions[k]
          BY <2>1 DEF Allowed
        <4>3. Allowed(k) = Burst + Rate * rateClock + Gift * evictions[k]
          BY DEF Allowed
        <4> QED BY <1>0, <3>3, <4>1, <4>2, <4>3
      <3>11. passed[k] + Filled(buckets[k])' <= Allowed(k)'
        BY <1>0, <3>7, <3>9, <3>10
      <3>12. evictions[k] * EvictionInterval <= IF buckets[k].known THEN buckets[k].at ELSE rateClock'
        <4>1. /\ evictions[k] * EvictionInterval <= IF buckets[k].known THEN buckets[k].at ELSE rateClock
              /\ evictions[k] * EvictionInterval \in Nat /\ rateClock \in Nat /\ rateClock' = rateClock + 1
          BY <1>0, <1>a, <1>b, <2>1
        <4> QED BY <3>1, <4>1
      <3> QED BY <3>8, <3>11, <3>12
    <2> QED BY <1>0, <2>1, <2>2 DEF RateInv
  <1>3. CASE EvictStale
    <2>1. /\ buckets' = [k \in Keys |-> IF k \in Forgotten THEN Full ELSE buckets[k]]
          /\ evictions' = [k \in Keys |-> IF k \in Forgotten THEN evictions[k] + 1 ELSE evictions[k]]
          /\ UNCHANGED <<rateClock, passed>>
      BY <1>3 DEF EvictStale
    <2>2. Full \in Buckets /\ Full.at = 0 /\ Full.known = FALSE
      BY RateNumbers DEF Full, Buckets
    <2>3. Filled(Full) = Burst
      BY <2>2 DEF Filled
    <2>4. ASSUME NEW k \in Keys
          PROVE  /\ buckets'[k] \in Buckets /\ evictions'[k] \in Nat /\ buckets'[k].at <= rateClock
                 /\ passed[k] + Filled(buckets'[k]) <= Burst + Rate * rateClock + Gift * evictions'[k]
                 /\ evictions'[k] * EvictionInterval <= IF buckets'[k].known THEN buckets'[k].at ELSE rateClock
      <3>1. CASE k \notin Forgotten
        <4>1. buckets'[k] = buckets[k] /\ evictions'[k] = evictions[k] /\ evictions[k] \in Nat
          BY <1>0, <2>1, <3>1
        <4>2. passed[k] + Filled(buckets[k]) <= Burst + Rate * rateClock + Gift * evictions[k]
          BY <1>0 DEF Allowed
        <4> QED BY <1>0, <1>a, <4>1, <4>2
      <3>2. CASE k \in Forgotten
        <4>1. buckets'[k] = Full /\ evictions'[k] = evictions[k] + 1 /\ evictions[k] \in Nat
          BY <1>0, <2>1, <3>2
        <4>2. buckets[k].tokens \in 0..Burst /\ buckets[k].at \in Nat /\ buckets[k].known /\ Stale(buckets[k])
          BY <1>0, <3>2 DEF Buckets, Forgotten
        <4> DEFINE d == rateClock - buckets[k].at
        <4>3. d \in Nat /\ d >= EvictionInterval /\ buckets[k].at + d = rateClock
          BY <1>0, <4>2 DEF Stale
        <4> HIDE DEF d
        <4>4. Rate * EvictionInterval <= Rate * d /\ Rate * d \in Nat /\ Rate * EvictionInterval \in Nat
          BY <1>0, <4>3, Product
        <4> DEFINE t == buckets[k].tokens + Rate * d
        <4>5. t \in Nat /\ t >= Rate * EvictionInterval
          BY <4>2, <4>4
        <4>6. Filled(buckets[k]) = IF t > Burst \/ ~buckets[k].known THEN Burst ELSE t
          BY DEF Filled, d
        <4> HIDE DEF t
        <4>7. Burst <= Filled(buckets[k]) + Gift
          <5>1. Burst <= Rate * EvictionInterval + Gift
            BY RateNumbers
          <5> QED BY <1>0, <4>4, <4>5, <4>6, <5>1
        <4>8. Gift * evictions'[k] = Gift * evictions[k] + Gift /\ Gift * evictions[k] \in Nat
          BY <1>0, <4>1, Product
        <4>9. passed[k] + Burst <= Burst + Rate * rateClock + Gift * evictions'[k]
          <5>1. passed[k] + Filled(buckets[k]) <= Burst + Rate * rateClock + Gift * evictions[k]
            BY <1>0 DEF Allowed
          <5>2. passed[k] \in Nat /\ Filled(buckets[k]) \in Nat /\ Rate * rateClock \in Nat
            BY <1>0, Product
          <5> QED BY <1>0, <4>7, <4>8, <5>1, <5>2
        <4>10. evictions'[k] * EvictionInterval <= rateClock
          <5>1. evictions'[k] * EvictionInterval = evictions[k] * EvictionInterval + EvictionInterval
            <6>1. EvictionInterval * (evictions[k] + 1) = EvictionInterval * evictions[k] + EvictionInterval
              BY <1>0, <4>1, Product
            <6>2. /\ EvictionInterval * (evictions[k] + 1) = (evictions[k] + 1) * EvictionInterval
                  /\ EvictionInterval * evictions[k] = evictions[k] * EvictionInterval
              BY <1>0, <4>1
            <6> QED BY <4>1, <6>1, <6>2
          <5>2. evictions[k] * EvictionInterval <= buckets[k].at /\ evictions[k] * EvictionInterval \in Nat
            BY <1>a, <1>b, <4>2
          <5> QED BY <1>0, <4>2, <4>3, <5>1, <5>2
        <4> QED BY <1>0, <2>2, <2>3, <4>1, <4>9, <4>10
      <3> QED BY <3>1, <3>2
    <2>5. buckets' \in [Keys -> Buckets] /\ evictions' \in [Keys -> Nat]
      BY <2>1, <2>4
    <2>6. \A k \in Keys : Filled(buckets[k])' = Filled(buckets'[k])
      BY <2>1 DEF Filled
    <2>7. \A k \in Keys : Allowed(k)' = Burst + Rate * rateClock + Gift * evictions'[k]
      BY <2>1 DEF Allowed
    <2> QED BY <1>0, <2>1, <2>4, <2>5, <2>6, <2>7 DEF RateInv
  <1>4. ASSUME NEW h \in {{c} : c \in Clients} \cup {{}}, RateCheck(h) PROVE RateInv'
    <2> DEFINE k == ClientKey(h)
               f == Filled(buckets[k])
               one == IF f >= 1 THEN 1 ELSE 0
               b == [tokens |-> f - one, at |-> rateClock, known |-> TRUE]
    <2>1. k \in Keys
      BY DEF ClientKey, Keys
    <2>2. /\ buckets' = [buckets EXCEPT ![k] = b] /\ passed' = [passed EXCEPT ![k] = @ + one]
          /\ rateClock' = rateClock /\ evictions' = evictions
      <3>1. one = IF Filled(buckets[k]) >= 1 THEN 1 ELSE 0
        OBVIOUS
      <3>2. buckets' = [buckets EXCEPT ![k] = [tokens |-> Filled(@) - one, at |-> rateClock, known |-> TRUE]]
        BY <1>4 DEF RateCheck
      <3>3. passed' = [passed EXCEPT ![k] = @ + one] /\ rateClock' = rateClock /\ evictions' = evictions
        BY <1>4 DEF RateCheck
      <3> QED BY <1>0, <2>1, <3>2, <3>3
    <2>3. f \in 0..Burst /\ one \in 0..1 /\ f - one \in 0..Burst
      BY <1>0, <2>1
    <2> HIDE DEF k, f, one
    <2>4. b \in Buckets /\ b.at = rateClock /\ b.tokens = f - one /\ b.known = TRUE
      BY <1>0, <2>3 DEF Buckets
    <2> HIDE DEF b
    <2>5. Filled(b) = f - one
      <3>1. rateClock - b.at = 0 /\ Rate * 0 = 0
        BY <1>0, <2>4
      <3> QED BY <1>0, <2>3, <2>4, <3>1 DEF Filled
    <2>6. \A j \in Keys : Filled(buckets[j])' = Filled(buckets'[j]) /\ Allowed(j)' = Allowed(j)
      BY <2>2 DEF Filled, Allowed
    <2>7. ASSUME NEW j \in Keys
          PROVE  /\ buckets'[j].at <= rateClock /\ passed'[j] + Filled(buckets'[j]) <= Allowed(j)
                 /\ evictions[j] * EvictionInterval <= IF buckets'[j].known THEN buckets'[j].at ELSE rateClock
      <3>1. CASE j # k
        <4>1. buckets'[j] = buckets[j] /\ passed'[j] = passed[j]
          BY <1>0, <2>2, <3>1
        <4> QED BY <1>0, <1>a, <4>1
      <3>2. CASE j = k
        <4>1. buckets'[j] = b /\ passed'[j] = passed[j] + one /\ passed[j] \in Nat
          BY <1>0, <2>1, <2>2, <3>2
        <4>2. passed[j] + f <= Allowed(j) /\ Allowed(j) \in Nat
          BY <1>0, <2>1, <3>2, AllowedIs DEF f
        <4>3. passed[j] + one + (f - one) <= Allowed(j)
          BY <1>0, <2>3, <4>1, <4>2
        <4>4. evictions[j] * EvictionInterval <= rateClock
          BY <1>0, <1>a, <1>b
        <4> QED BY <1>0, <2>4, <2>5, <4>1, <4>3, <4>4
      <3> QED BY <3>1, <3>2
    <2>8. passed' \in [Keys -> Nat] /\ buckets' \in [Keys -> Buckets]
      BY <1>0, <2>1, <2>2, <2>3, <2>4
    <2> QED BY <1>0, <2>2, <2>6, <2>7, <2>8 DEF RateInv
  <1> QED BY <1>1, <1>2, <1>3, <1>4 DEF RateNext
-----------------------------------------------------------------------------
Versions == [version : Nat, definition : Saved]

\* The history is the end of all that was saved, numbered by its place in that.
VersionInv ==
    /\ saved \in Seq(Saved) /\ history \in Seq(Versions)
    /\ Len(history) = IF Len(saved) < MaxVersions THEN Len(saved) ELSE MaxVersions
    /\ \A i \in DOMAIN history :
         /\ history[i].version = Len(saved) - Len(history) + i
         /\ history[i].definition = saved[history[i].version]

\* At first nothing is saved.
LEMMA VersionBegins == ServerStoresInit => VersionInv
  <1> SUFFICES ASSUME ServerStoresInit PROVE VersionInv
    OBVIOUS
  <1>1. history = <<>> /\ saved = <<>>
    BY DEF ServerStoresInit
  <1>2. saved \in Seq(Saved) /\ history \in Seq(Versions) /\ Len(history) = 0 /\ Len(saved) = 0 /\ DOMAIN history = {}
    BY <1>1
  <1> QED BY <1>2, ServerStoresAssumption DEF VersionInv

\* A save appends one version and drops the oldest of a full history.
LEMMA SaveKeeps ==
  ASSUME VersionInv, NEW d \in Saved, SaveVersion(d)
  PROVE  VersionInv'
  <1> DEFINE n == Len(saved)
             m == Len(history)
  <1>1. /\ saved \in Seq(Saved) /\ history \in Seq(Versions) /\ n \in Nat /\ m \in Nat
        /\ MaxVersions \in Nat /\ MaxVersions >= 2
        /\ m = IF n < MaxVersions THEN n ELSE MaxVersions
        /\ DOMAIN history = 1..m /\ DOMAIN saved = 1..n
    BY LenProperties, ServerStoresAssumption DEF VersionInv
  <1>2. \A i \in 1..m : history[i] \in Versions /\ history[i].version = n - m + i /\ history[i].definition = saved[n - m + i]
    <2> SUFFICES ASSUME NEW i \in 1..m
                 PROVE  history[i] \in Versions /\ history[i].version = n - m + i /\ history[i].definition = saved[n - m + i]
      OBVIOUS
    <2>1. history[i] \in Versions
      BY <1>1, ElementOfSeq
    <2>2. history[i].version = n - m + i /\ history[i].definition = saved[history[i].version]
      BY <1>1 DEF VersionInv
    <2> QED BY <2>1, <2>2
  <1> DEFINE q == Kept
             l == Len(Kept)
  <1>3. /\ q \in Seq(Versions) /\ l \in Nat /\ DOMAIN q = 1..l
        /\ l = IF n < MaxVersions THEN n ELSE MaxVersions - 1
        /\ \A i \in 1..l : q[i] \in Versions /\ q[i].version = n - l + i /\ q[i].definition = saved[n - l + i]
    <2>1. CASE n < MaxVersions
      <3>1. m = n /\ m < MaxVersions
        BY <1>1, <2>1
      <3>2. q = history
        BY <3>1 DEF Kept
      <3> HIDE DEF q, n, m
      <3>3. l = m
        BY <3>2 DEF m, q
      <3> HIDE DEF l
      <3> QED BY <1>1, <1>2, <2>1, <3>1, <3>2, <3>3
    <2>2. CASE ~(n < MaxVersions)
      <3>1. m = MaxVersions /\ ~(m < MaxVersions)
        BY <1>1, <2>2
      <3>2. m - MaxVersions + 2 = 2
        BY <1>1, <3>1
      <3>3. q = SubSeq(history, 2, m)
        BY <3>1, <3>2 DEF Kept
      <3>4. SubSeq(history, 2, m) \in Seq(Versions) /\ Len(SubSeq(history, 2, m)) = m - 1
            /\ \A i \in 1..(m - 1) : SubSeq(history, 2, m)[i] = history[i + 1]
        <4>1. \A i \in 2..m : history[i] \in Versions
          BY <1>1, <1>2
        <4>2. 2 \in Int /\ m \in Int /\ 2 <= m + 1
          BY <1>1, <3>1
        <4>3. SubSeq(history, 2, m) \in Seq(Versions)
          BY <1>1, <3>1, SubSeqProperties
        <4>4. Len(SubSeq(history, 2, m)) = m - 1
          BY <1>1, <3>1, SubSeqProperties
        <4>5. \A i \in 1..(m - 1) : SubSeq(history, 2, m)[i] = history[i + 1]
          <5> SUFFICES ASSUME NEW i \in 1..(m - 1) PROVE SubSeq(history, 2, m)[i] = history[i + 1]
            OBVIOUS
          <5>1. SubSeq(history, 2, m)[i] = history[2 + i - 1] /\ 2 + i - 1 = i + 1
            BY <1>1, <3>1, SubSeqProperties
          <5> QED BY <5>1
        <4> QED BY <4>3, <4>4, <4>5
      <3> HIDE DEF q, n, m
      <3>5. l = m - 1 /\ q \in Seq(Versions)
        BY <3>3, <3>4 DEF q
      <3> HIDE DEF l
      <3>6. DOMAIN q = 1..l
        BY <3>3, <3>4, <3>5, LenProperties
      <3>7. ASSUME NEW i \in 1..l
            PROVE  q[i] \in Versions /\ q[i].version = n - l + i /\ q[i].definition = saved[n - l + i]
        <4>1. i \in 1..(m - 1) /\ i + 1 \in 1..m /\ n - m + (i + 1) = n - l + i
          BY <1>1, <3>5
        <4>2. q[i] = history[i + 1]
          BY <3>3, <3>4, <4>1
        <4> QED BY <1>2, <4>1, <4>2
      <3>8. l \in Nat /\ l = MaxVersions - 1
        BY <1>1, <3>1, <3>5
      <3> QED BY <2>2, <3>5, <3>6, <3>7, <3>8
    <2> QED BY <2>1, <2>2
  <1> DEFINE e == [version |-> NextVersion, definition |-> d]
  <1>4. history' = Append(q, e) /\ saved' = Append(saved, d)
    BY DEF SaveVersion
  <1>5. NextVersion = n + 1
    <2>1. CASE l = 0
      <3>1. q = <<>>
        BY <1>3, <2>1
      <3>2. n = 0
        BY <1>1, <1>3, <2>1
      <3> QED BY <3>1, <3>2 DEF NextVersion
    <2>2. CASE l # 0
      <3>1. q # <<>> /\ l \in 1..l
        <4>0. l \in Nat
          BY <1>3
        <4>1. l \in 1..l
          <5> HIDE DEF l
          <5> QED BY <2>2, <4>0
        <4>2. q # <<>>
          BY <1>3, <4>1
        <4> QED BY <4>1, <4>2
      <3>2. q[l].version = n - l + l
        BY <1>3, <3>1
      <3>3. n - l + l = n
        BY <1>1, <1>3
      <3> QED BY <3>1, <3>2, <3>3 DEF NextVersion
    <2> QED BY <2>1, <2>2
  <1>6. e \in Versions /\ e.version = n + 1 /\ e.definition = d
    BY <1>1, <1>5 DEF Versions
  <1> HIDE DEF e, q, l, n, m
  <1>7. /\ history' \in Seq(Versions) /\ Len(history') = l + 1 /\ history'[l + 1] = e
        /\ \A i \in 1..l : history'[i] = q[i]
    <2>1. Len(q) = l /\ q \in Seq(Versions) /\ e \in Versions
      BY <1>3, <1>6 DEF q, l
    <2>2. /\ Append(q, e) \in Seq(Versions) /\ Len(Append(q, e)) = l + 1 /\ Append(q, e)[l + 1] = e
          /\ \A i \in 1..l : Append(q, e)[i] = q[i]
      BY <2>1, AppendProperties
    <2> QED BY <1>4, <2>2
  <1>8. /\ saved' \in Seq(Saved) /\ Len(saved') = n + 1 /\ saved'[n + 1] = d
        /\ \A i \in 1..n : saved'[i] = saved[i]
    <2>1. saved \in Seq(Saved) /\ Len(saved) = n /\ saved' = Append(saved, d)
      BY <1>1, <1>4 DEF n
    <2>2. /\ Append(saved, d) \in Seq(Saved) /\ Len(Append(saved, d)) = n + 1 /\ Append(saved, d)[n + 1] = d
          /\ \A i \in 1..n : Append(saved, d)[i] = saved[i]
      BY <2>1, AppendProperties
    <2> QED BY <2>1, <2>2
  <1>9. DOMAIN history' = 1..(l + 1)
    BY <1>7, LenProperties
  <1>10. l \in Nat /\ n \in Nat /\ l <= n /\ (n + 1) - (l + 1) = n - l
    BY <1>1, <1>3
  <1>11. ASSUME NEW i \in DOMAIN history'
         PROVE  /\ history'[i].version = Len(saved') - Len(history') + i
                /\ history'[i].definition = saved'[history'[i].version]
    <2>1. CASE i = l + 1
      <3>1. Len(saved') - Len(history') + i = n + 1
        BY <1>7, <1>8, <1>10, <2>1
      <3> QED BY <1>6, <1>7, <1>8, <2>1, <3>1
    <2>2. CASE i \in 1..l
      <3>1. Len(saved') - Len(history') + i = n - l + i /\ n - l + i \in 1..n
        BY <1>7, <1>8, <1>10, <2>2
      <3>2. history'[i] = q[i] /\ q[i].version = n - l + i /\ q[i].definition = saved[n - l + i]
        BY <1>3, <1>7, <2>2
      <3>3. saved'[n - l + i] = saved[n - l + i]
        BY <1>8, <3>1
      <3> QED BY <3>1, <3>2, <3>3
    <2> QED BY <1>9, <1>10, <2>1, <2>2
  <1>12. Len(history') = IF Len(saved') < MaxVersions THEN Len(saved') ELSE MaxVersions
    BY <1>1, <1>3, <1>7, <1>8
  <1> QED BY <1>7, <1>8, <1>11, <1>12 DEF VersionInv

\* A save and a rollback keep the history.
LEMMA VersionStep ==
  ASSUME VersionInv, [VersionNext]_versionVars
  PROVE  VersionInv'
  <1>1. CASE UNCHANGED versionVars
    BY <1>1 DEF versionVars, VersionInv
  <1>2. ASSUME NEW d \in Saved, SaveVersion(d) PROVE VersionInv'
    BY <1>2, SaveKeeps
  <1>3. ASSUME NEW v, Rollback(v) PROVE VersionInv'
    <2>1. PICK i \in DOMAIN history : SaveVersion(history[i].definition)
      BY <1>3 DEF Rollback
    <2>2. history[i] \in Versions
      BY ElementOfSeq, LenProperties DEF VersionInv
    <2>3. history[i].definition \in Saved
      BY <2>2 DEF Versions
    <2> QED BY <1>2, <2>1, <2>3
  <1> QED BY <1>1, <1>2, <1>3 DEF VersionNext
-----------------------------------------------------------------------------
ActiveCrews == {c \in MetricCrews : metricAt[c] = "active"}

\* The gauge counts the crews between start and end; a scrape has read as many.
MetricInv ==
    /\ metricAt \in [MetricCrews -> {"idle", "counted", "active"}]
    /\ crewsTotal \in Nat /\ crewsActive = Cardinality(ActiveCrews)
    /\ scraped \in Seq(Nat) /\ Len(scraped) \in {0, 1, 2}
    /\ Len(scraped) = 2 => scraped[2] <= Cardinality(MetricCrews)

\* Finitely many crews are active, no more than there are.
LEMMA ActiveIs == /\ IsFiniteSet(ActiveCrews) /\ Cardinality(ActiveCrews) \in Nat
                  /\ Cardinality(MetricCrews) \in Nat /\ Cardinality(ActiveCrews) <= Cardinality(MetricCrews)
  <1>1. ActiveCrews \in SUBSET MetricCrews
    BY DEF ActiveCrews
  <1> QED BY <1>1, MetricCrewsAssumption, FS_Subset, FS_CardinalityType

\* At first no crew is counted.
LEMMA MetricBegins == ServerStoresInit => MetricInv
  <1> SUFFICES ASSUME ServerStoresInit PROVE MetricInv
    OBVIOUS
  <1>1. crewsTotal = 0 /\ crewsActive = 0 /\ metricAt = [c \in MetricCrews |-> "idle"] /\ scraped = <<>>
    BY DEF ServerStoresInit
  <1>2. ActiveCrews = {}
    BY <1>1 DEF ActiveCrews
  <1> QED BY <1>1, <1>2, FS_EmptySet DEF MetricInv

\* Every step of a crew and of a scrape keeps the counters.
LEMMA MetricStepKeeps ==
  ASSUME MetricInv, [MetricNext]_metricVars
  PROVE  MetricInv'
  <1>1. CASE UNCHANGED metricVars
    BY <1>1 DEF metricVars, MetricInv, ActiveCrews
  <1>2. CASE ScrapeTotal
    <2>1. scraped' = <<crewsTotal>> /\ UNCHANGED <<crewsTotal, crewsActive, metricAt>>
      BY <1>2 DEF ScrapeTotal
    <2>2. scraped' \in Seq(Nat) /\ Len(scraped') = 1
      BY <2>1 DEF MetricInv
    <2> QED BY <2>1, <2>2 DEF MetricInv, ActiveCrews
  <1>3. CASE ScrapeActive
    <2>1. Len(scraped) = 1 /\ scraped' = Append(scraped, crewsActive) /\ UNCHANGED <<crewsTotal, crewsActive, metricAt>>
      BY <1>3 DEF ScrapeActive
    <2>2. crewsActive \in Nat /\ crewsActive <= Cardinality(MetricCrews) /\ scraped \in Seq(Nat)
      BY ActiveIs DEF MetricInv
    <2>3. Append(scraped, crewsActive) \in Seq(Nat) /\ Len(Append(scraped, crewsActive)) = Len(scraped) + 1
          /\ Append(scraped, crewsActive)[Len(scraped) + 1] = crewsActive
      BY <2>2, AppendProperties
    <2>4. scraped' \in Seq(Nat) /\ Len(scraped') = 2 /\ scraped'[2] = crewsActive
      BY <2>1, <2>3
    <2> QED BY <2>1, <2>2, <2>4 DEF MetricInv, ActiveCrews
  <1>4. ASSUME NEW c \in MetricCrews, CountStarted(c) \/ CountActive(c) \/ CountCompleted(c) PROVE MetricInv'
    <2>0. metricAt \in [MetricCrews -> {"idle", "counted", "active"}] /\ crewsTotal \in Nat
          /\ crewsActive = Cardinality(ActiveCrews) /\ crewsActive \in Nat
      BY ActiveIs DEF MetricInv
    <2>1. /\ scraped' = scraped /\ metricAt' \in [MetricCrews -> {"idle", "counted", "active"}] /\ crewsTotal' \in Nat
      BY <1>4, <2>0 DEF CountStarted, CountActive, CountCompleted, MetricStep
    <2>2. crewsActive' = Cardinality(ActiveCrews')
      <3>1. CASE CountStarted(c)
        <4>1. ActiveCrews' = ActiveCrews
          BY <2>0, <3>1 DEF ActiveCrews, CountStarted, MetricStep
        <4> QED BY <2>0, <3>1, <4>1 DEF CountStarted, MetricStep
      <3>2. CASE CountActive(c)
        <4>1. ActiveCrews' = ActiveCrews \cup {c} /\ c \notin ActiveCrews
          BY <2>0, <3>2 DEF ActiveCrews, CountActive, MetricStep
        <4>2. Cardinality(ActiveCrews') = Cardinality(ActiveCrews) + 1
          BY <4>1, ActiveIs, FS_AddElement
        <4> QED BY <2>0, <3>2, <4>2 DEF CountActive, MetricStep
      <3>3. CASE CountCompleted(c)
        <4>1. ActiveCrews' = ActiveCrews \ {c} /\ c \in ActiveCrews
          BY <2>0, <3>3 DEF ActiveCrews, CountCompleted, MetricStep
        <4>2. Cardinality(ActiveCrews') = Cardinality(ActiveCrews) - 1
          BY <4>1, ActiveIs, FS_RemoveElement
        <4>3. Cardinality(ActiveCrews) > 0
          BY <4>1, ActiveIs, FS_EmptySet
        <4> QED BY <2>0, <3>3, <4>2, <4>3 DEF CountCompleted, MetricStep
      <3> QED BY <1>4, <3>1, <3>2, <3>3
    <2> QED BY <2>1, <2>2 DEF MetricInv
  <1> QED BY <1>1, <1>2, <1>3, <1>4 DEF MetricNext

\* What the stores promise follows from the three.
LEMMA StoresSay ==
  ASSUME RateInv, VersionInv, MetricInv
  PROVE  StoresKeep
  <1>1. \A k \in Keys : /\ passed[k] <= Burst + Rate * rateClock + Gift * evictions[k]
                       /\ evictions[k] * EvictionInterval <= rateClock
    <2> SUFFICES ASSUME NEW k \in Keys
                 PROVE  passed[k] <= Allowed(k) /\ evictions[k] * EvictionInterval <= rateClock
      BY DEF Allowed
    <2>1. /\ rateClock \in Nat /\ buckets[k] \in Buckets /\ buckets[k].at <= rateClock /\ passed[k] \in Nat
          /\ evictions \in [Keys -> Nat] /\ passed[k] + Filled(buckets[k]) <= Allowed(k)
          /\ evictions[k] * EvictionInterval <= IF buckets[k].known THEN buckets[k].at ELSE rateClock
      BY DEF RateInv
    <2>2. Filled(buckets[k]) \in Nat
      BY <2>1, FilledIs, RateNumbers
    <2>3. Allowed(k) \in Nat
      BY <2>1, AllowedIs
    <2>4. evictions[k] * EvictionInterval \in Nat /\ buckets[k].at \in Nat
      BY <2>1, RateNumbers, Product DEF Buckets
    <2>5. passed[k] <= Allowed(k)
      BY <2>1, <2>2, <2>3
    <2>6. evictions[k] * EvictionInterval <= rateClock
      BY <2>1, <2>4
    <2> QED BY <2>5, <2>6
  <1>2. \A i \in DOMAIN history :
          /\ history[i].version = Len(saved) - Len(history) + i
          /\ history[i].definition = saved[history[i].version]
    BY DEF VersionInv
  <1>3. crewsActive = Cardinality({c \in MetricCrews : metricAt[c] = "active"})
    BY DEF MetricInv, ActiveCrews
  <1>4. Len(scraped) = 2 => scraped[2] <= scraped[1] + Cardinality(MetricCrews)
    <2> SUFFICES ASSUME Len(scraped) = 2 PROVE scraped[2] <= scraped[1] + Cardinality(MetricCrews)
      OBVIOUS
    <2>1. scraped[1] \in Nat /\ scraped[2] \in Nat /\ scraped[2] <= Cardinality(MetricCrews)
      <3>1. scraped \in Seq(Nat) /\ 1 \in 1..Len(scraped) /\ 2 \in 1..Len(scraped)
        BY DEF MetricInv
      <3>2. scraped[1] \in Nat /\ scraped[2] \in Nat
        BY <3>1, ElementOfSeq
      <3> QED BY <3>2 DEF MetricInv
    <2> QED BY <2>1, ActiveIs
  <1> QED BY <1>1, <1>2, <1>3, <1>4 DEF StoresKeep
-----------------------------------------------------------------------------
(* Authentication and shutdown.                                            *)

\* Whoever is handled, or was answered well, is public or was let in.
HttpInv ==
    /\ auth.secret \in Seq(Nat)
    /\ serving \in {"up", "draining", "down"}
    /\ reqAt \in [HttpRequests -> {"outside", "queued", "admitted", "handling", "answered"}]
    /\ reqCode \in [HttpRequests -> {0, 200, 401, 500}]
    /\ \A r \in HttpRequests : reqAt[r] = "handling" \/ reqCode[r] = 200 => r.public \/ AuthCode(r.header) = 200
    /\ serving = "down" => Inflight = {}

\* The padded comparison is equality of the two.
LEMMA ComparesAll ==
  ASSUME NEW a \in Seq(Nat), NEW b \in Seq(Nat), ConstantTimeEq(a, b)
  PROVE  a = b
  <1>1. Len(a) = Len(b) /\ Len(a) \in Nat /\ LongerLen(a, b) = Len(a)
    BY LenProperties DEF ConstantTimeEq, LongerLen
  <1>2. ASSUME NEW i \in 1..Len(a) PROVE a[i] = b[i]
    <2>1. Padded(a, i) = Padded(b, i)
      BY <1>1 DEF ConstantTimeEq
    <2>2. i <= Len(a) /\ i <= Len(b)
      BY <1>1
    <2> QED BY <2>1, <2>2 DEF Padded
  <1> QED BY <1>1, <1>2, SeqEqual

\* At first no request is under way.
LEMMA HttpBegins == HttpInit => HttpInv
  <1> SUFFICES ASSUME HttpInit PROVE HttpInv
    OBVIOUS
  <1>1. PICK env \in AuthEnvs : auth = LoadAuth(env)
    BY DEF HttpInit
  <1>2. auth.secret = IF env.key THEN <<>> ELSE env.secret
    BY <1>1 DEF LoadAuth
  <1>3. auth.secret \in Seq(Nat)
    BY <1>2, BytesAssumption
  <1>4. /\ serving = "up" /\ reqAt = [r \in HttpRequests |-> "outside"] /\ reqCode = [r \in HttpRequests |-> 0]
    BY DEF HttpInit
  <1> QED BY <1>3, <1>4 DEF HttpInv

\* What authentication can answer.
LEMMA CodeIs == \A r \in HttpRequests : AuthCode(r.header) \in {0, 200, 401, 500}
  BY DEF AuthCode, JwtCode

\* Every step of a request and of a shutdown keeps this.
LEMMA HttpStep ==
  ASSUME HttpInv, [HttpNext]_httpVars
  PROVE  HttpInv'
  <1>0. /\ auth.secret \in Seq(Nat) /\ serving \in {"up", "draining", "down"}
        /\ reqAt \in [HttpRequests -> {"outside", "queued", "admitted", "handling", "answered"}]
        /\ reqCode \in [HttpRequests -> {0, 200, 401, 500}]
        /\ \A r \in HttpRequests : reqAt[r] = "handling" \/ reqCode[r] = 200 => r.public \/ AuthCode(r.header) = 200
        /\ serving = "down" => Inflight = {}
    BY DEF HttpInv
  <1>a. ASSUME auth' = auth PROVE \A r \in HttpRequests : AuthCode(r.header)' = AuthCode(r.header)
    BY <1>a DEF AuthCode, JwtCode
  <1>1. CASE UNCHANGED httpVars
    BY <1>0, <1>1, <1>a DEF httpVars, HttpInv, Inflight
  <1>2. ASSUME NEW r \in HttpRequests, Arrive(r) PROVE HttpInv'
    <2>1. serving = "up" /\ reqAt' = [reqAt EXCEPT ![r] = "queued"] /\ UNCHANGED <<auth, serving, reqCode>>
      BY <1>2 DEF Arrive
    <2> QED BY <1>0, <1>a, <2>1 DEF HttpInv
  <1>3. ASSUME NEW r \in HttpRequests, Admit(r) PROVE HttpInv'
    <2>1. reqAt[r] = "queued" /\ reqAt' = [reqAt EXCEPT ![r] = "admitted"] /\ UNCHANGED <<auth, serving, reqCode>>
      BY <1>3 DEF Admit
    <2>2. serving # "down"
      BY <1>0, <2>1 DEF Inflight
    <2> QED BY <1>0, <1>a, <2>1, <2>2 DEF HttpInv
  <1>4. ASSUME NEW r \in HttpRequests, Authenticate(r) PROVE HttpInv'
    <2>1. reqAt[r] = "admitted" /\ UNCHANGED <<auth, serving>>
      BY <1>4 DEF Authenticate
    <2>2. serving # "down"
      BY <1>0, <2>1 DEF Inflight
    <2>3. CASE r.public \/ AuthCode(r.header) = 200
      <3>1. reqAt' = [reqAt EXCEPT ![r] = "handling"] /\ UNCHANGED reqCode
        BY <1>4, <2>3 DEF Authenticate
      <3> QED BY <1>0, <1>a, <2>1, <2>2, <2>3, <3>1 DEF HttpInv
    <2>4. CASE ~(r.public \/ AuthCode(r.header) = 200)
      <3>1. reqAt' = [reqAt EXCEPT ![r] = "answered"] /\ reqCode' = [reqCode EXCEPT ![r] = AuthCode(r.header)]
        BY <1>4, <2>4 DEF Authenticate, Answer
      <3> QED BY <1>0, <1>a, <2>1, <2>2, <2>4, <3>1, CodeIs DEF HttpInv
    <2> QED BY <2>3, <2>4
  <1>5. ASSUME NEW r \in HttpRequests, HandlerAnswers(r) PROVE HttpInv'
    <2>1. reqAt[r] = "handling" /\ reqAt' = [reqAt EXCEPT ![r] = "answered"]
          /\ reqCode' = [reqCode EXCEPT ![r] = 200] /\ UNCHANGED <<auth, serving>>
      BY <1>5 DEF HandlerAnswers, Answer
    <2>2. serving # "down"
      BY <1>0, <2>1 DEF Inflight
    <2> QED BY <1>0, <1>a, <2>1, <2>2 DEF HttpInv
  <1>6. CASE ShutdownSignal
    <2>1. serving' = "draining" /\ UNCHANGED <<auth, reqAt, reqCode>>
      BY <1>6 DEF ShutdownSignal
    <2> QED BY <1>0, <1>a, <2>1 DEF HttpInv
  <1>7. CASE ServerStops
    <2>1. Inflight = {} /\ serving' = "down" /\ UNCHANGED <<auth, reqAt, reqCode>>
      BY <1>7 DEF ServerStops
    <2>2. Inflight' = {}
      BY <2>1 DEF Inflight
    <2> QED BY <1>0, <1>a, <2>1, <2>2 DEF HttpInv
  <1> QED BY <1>1, <1>2, <1>3, <1>4, <1>5, <1>6, <1>7 DEF HttpNext, ServeStep

\* So a handler has answered only to its credentials.
LEMMA HttpSays ==
  ASSUME HttpInv
  PROVE  AuthHolds
  <1>1. ASSUME NEW r \in HttpRequests, reqCode[r] = 200, ~r.public, auth.enabled
        PROVE  /\ r.header.bearer
               /\ IF auth.jwt THEN auth.keyValid /\ r.header.decodes /\ r.header.expires
                  ELSE r.header.bytes = auth.secret /\ auth.secret # <<>>
    <2>1. AuthCode(r.header) = 200
      BY <1>1 DEF HttpInv
    <2>2. r.header.bearer /\ r.header.bytes # <<>>
      BY <1>1, <2>1 DEF AuthCode
    <2>3. CASE auth.jwt
      BY <1>1, <2>1, <2>2, <2>3 DEF AuthCode, JwtCode
    <2>4. CASE ~auth.jwt
      <3>1. ConstantTimeEq(r.header.bytes, auth.secret)
        BY <1>1, <2>1, <2>2, <2>4 DEF AuthCode
      <3>2. r.header.bytes \in Seq(Nat) /\ auth.secret \in Seq(Nat)
        BY BytesAssumption DEF HttpInv
      <3>3. r.header.bytes = auth.secret
        BY <3>1, <3>2, ComparesAll
      <3> QED BY <2>2, <2>4, <3>3
    <2> QED BY <2>3, <2>4
  <1>2. serving = "down" => Inflight = {}
    BY DEF HttpInv
  <1> QED BY <1>1, <1>2 DEF AuthHolds
-----------------------------------------------------------------------------
(* A tool in a child process.                                              *)

ChildTypes ==
    /\ policy \in Policies
    /\ backend \in {"manager", "python", "native", "wasm", "process", "oci"}
    /\ child \in [kind : {"echo", "deaf", "quick"}, at : {"none", "running", "exited", "killed"}, holds : 0..1]
    /\ input \in Nat
    /\ parent \in [stage : {"dispatch", "spawn", "write", "wait", "done"}, left : Nat, read : Nat,
                   result : {"none", "ok", "error", "timeout"}]
    /\ pipes \in [stdin : Nat, stdout : Nat, closed : BOOLEAN]

\* A backend of the manager's is the one its policy asks for.
Chosen == backend \in {"native", "wasm", "process", "oci"} => backend = Backends[EffectiveIsolation(policy) + 1]

\* Where the parent and its child can be together.
Together ==
    /\ parent.stage \in {"dispatch", "spawn"} =>
         /\ child.at = "none" /\ child.holds = 0 /\ parent.left = input /\ parent.read = 0
         /\ pipes = [stdin |-> 0, stdout |-> 0, closed |-> FALSE]
    /\ parent.stage \in {"write", "wait"} => child.at \in {"running", "exited"}
    /\ parent.stage = "done" => child.at # "running"
    /\ parent.stage # "done" => parent.result = "none"

\* What an echoing child was given is on its way back or has come back, and a child
\* that went by itself has passed on everything.
Passing ==
    child.kind = "echo" =>
      /\ parent.stage # "done" => parent.read + pipes.stdout + child.holds + pipes.stdin + parent.left = input
      /\ pipes.closed => parent.left = 0
      /\ child.at = "exited" => child.holds = 0 /\ pipes.stdin = 0 /\ parent.left = 0
      /\ parent.result = "ok" => parent.read = input

ChildInv == ChildTypes /\ Chosen /\ Together /\ Passing

\* At first no child runs.
LEMMA ChildBegins == SandboxInit => ChildInv
  <1> SUFFICES ASSUME SandboxInit PROVE ChildInv
    OBVIOUS
  <1>1. /\ policy \in Policies /\ backend \in {"manager", "python"}
        /\ child \in [kind : {"echo", "deaf", "quick"}, at : {"none"}, holds : {0}]
        /\ input \in Nat
        /\ parent = [stage |-> "dispatch", left |-> input, read |-> 0, result |-> "none"]
        /\ pipes = [stdin |-> 0, stdout |-> 0, closed |-> FALSE]
    BY SandboxAssumption DEF SandboxInit
  <1>2. ChildTypes /\ Chosen
    BY <1>1 DEF ChildTypes, Chosen
  <1>3. Together
    BY <1>1 DEF Together
  <1>4. Passing
    BY <1>1 DEF Passing
  <1> QED BY <1>2, <1>3, <1>4 DEF ChildInv

\* The effective isolation is one of four levels,
LEMMA IsolationIs == \A p \in Policies : EffectiveIsolation(p) \in 0..3
  BY DEF EffectiveIsolation, Policies, Isolation

\* and each of them has its backend.
LEMMA BackendIs ==
  \A p \in Policies : Backends[EffectiveIsolation(p) + 1] \in {"native", "wasm", "process", "oci"}
  <1> SUFFICES ASSUME NEW p \in Policies
               PROVE  Backends[EffectiveIsolation(p) + 1] \in {"native", "wasm", "process", "oci"}
    OBVIOUS
  <1>1. EffectiveIsolation(p) + 1 \in {1, 2, 3, 4}
    BY IsolationIs
  <1>2. /\ Backends[1] = "native" /\ Backends[2] = "wasm" /\ Backends[3] = "process" /\ Backends[4] = "oci"
    BY DEF Backends
  <1> QED BY <1>1, <1>2

\* Every step of the parent and of the child keeps the call.
LEMMA ChildStepKeeps ==
  ASSUME ChildInv, [ChildNext]_childVars
  PROVE  ChildInv'
  <1>0. ChildTypes /\ Chosen /\ Together /\ Passing
    BY DEF ChildInv
  <1>1. CASE UNCHANGED childVars
    BY <1>0, <1>1 DEF ChildInv, childVars, ChildTypes, Chosen, Together, Passing
  <1>2. CASE Dispatch
    <2>1. /\ parent.stage = "dispatch" /\ UNCHANGED <<policy, child, pipes, input>>
          /\ backend' = IF backend = "python" THEN "python" ELSE Backends[EffectiveIsolation(policy) + 1]
      BY <1>2 DEF Dispatch
    <2>2. backend' \in {"python", "native", "wasm", "process", "oci"} /\ Chosen'
      <3>1. policy \in Policies
        BY <1>0 DEF ChildTypes
      <3>2. EffectiveIsolation(policy)' = EffectiveIsolation(policy)
        BY <2>1 DEF EffectiveIsolation
      <3> QED BY <2>1, <3>1, <3>2, BackendIs DEF Chosen
    <2>3. \/ parent' = [stage |-> "done", left |-> parent.left, read |-> input, result |-> "ok"]
          \/ parent' = [stage |-> "done", left |-> parent.left, read |-> parent.read, result |-> "error"]
          \/ parent' = [stage |-> "spawn", left |-> parent.left, read |-> parent.read, result |-> parent.result]
      BY <1>0, <1>2 DEF Dispatch, Finish, ChildTypes
    <2>4. ChildTypes'
      BY <1>0, <2>1, <2>2, <2>3 DEF ChildTypes
    <2>5. Together' /\ Passing'
      BY <1>0, <2>1, <2>3 DEF Together, Passing, ChildTypes
    <2> QED BY <2>2, <2>4, <2>5 DEF ChildInv
  <1>3. CASE Spawn
    <2>1. /\ parent.stage = "spawn" /\ UNCHANGED <<policy, backend, pipes, input>>
          /\ \/ parent' = [parent EXCEPT !.stage = "write"] /\ child' = [child EXCEPT !.at = "running"]
             \/ parent' = [parent EXCEPT !.stage = "done", !.result = "error"] /\ UNCHANGED child
      BY <1>3 DEF Spawn, Finish
    <2>2. ChildTypes'
      BY <1>0, <2>1 DEF ChildTypes
    <2>3. Chosen'
      BY <1>0, <2>1 DEF Chosen, EffectiveIsolation
    <2>4. Together'
      BY <1>0, <2>1 DEF Together, ChildTypes
    <2>5. Passing'
      BY <1>0, <2>1 DEF Together, Passing, ChildTypes
    <2> QED BY <2>2, <2>3, <2>4, <2>5 DEF ChildInv
  <1>4. CASE WriteInput
    <2>1. /\ parent.stage = "write" /\ parent.left > 0 /\ UNCHANGED <<policy, backend, child, input>>
      BY <1>4 DEF WriteInput
    <2>2. Chosen'
      BY <1>0, <2>1 DEF Chosen, EffectiveIsolation
    <2>3. CASE child.at = "exited"
      <3>1. /\ \/ parent' = [parent EXCEPT !.stage = "done", !.result = "error"]
               \/ parent' = [parent EXCEPT !.stage = "wait"]
            /\ pipes' = [pipes EXCEPT !.closed = TRUE]
        BY <1>4, <2>3 DEF WriteInput, Finish
      <3>2. child.kind # "echo"
        BY <1>0, <2>1, <2>3 DEF Passing, ChildTypes
      <3>3. ChildTypes'
        BY <1>0, <2>1, <3>1 DEF ChildTypes
      <3>4. Together'
        BY <1>0, <2>1, <2>3, <3>1 DEF Together, ChildTypes
      <3>5. Passing'
        BY <2>1, <3>2 DEF Passing
      <3> QED BY <2>2, <3>3, <3>4, <3>5 DEF ChildInv
    <2>4. CASE child.at # "exited"
      <3>1. /\ pipes' = [pipes EXCEPT !.stdin = @ + 1] /\ parent' = [parent EXCEPT !.left = @ - 1]
        BY <1>4, <2>4 DEF WriteInput
      <3>3. ChildTypes'
        BY <1>0, <2>1, <3>1 DEF ChildTypes
      <3>4. Together'
        BY <1>0, <2>1, <3>1 DEF Together, ChildTypes
      <3>5. Passing'
        BY <1>0, <2>1, <2>4, <3>1 DEF Passing, Together, ChildTypes
      <3> QED BY <2>2, <3>3, <3>4, <3>5 DEF ChildInv
    <2> QED BY <2>3, <2>4
  <1>5. CASE InputWritten
    <2>1. /\ parent.stage = "write" /\ parent.left = 0 /\ UNCHANGED <<policy, backend, child, input>>
          /\ parent' = [parent EXCEPT !.stage = "wait"] /\ pipes' = [pipes EXCEPT !.closed = TRUE]
      BY <1>5 DEF InputWritten
    <2>2. ChildTypes'
      BY <1>0, <2>1 DEF ChildTypes
    <2>3. Chosen'
      BY <1>0, <2>1 DEF Chosen, EffectiveIsolation
    <2>4. Together'
      BY <1>0, <2>1 DEF Together, ChildTypes
    <2>5. Passing'
      BY <1>0, <2>1 DEF Together, Passing, ChildTypes
    <2> QED BY <2>2, <2>3, <2>4, <2>5 DEF ChildInv
  <1>6. CASE ReadOutput
    <2>1. /\ parent.stage = "wait" /\ pipes.stdout > 0 /\ UNCHANGED <<policy, backend, child, input>>
          /\ pipes' = [pipes EXCEPT !.stdout = @ - 1] /\ parent' = [parent EXCEPT !.read = @ + 1]
      BY <1>6 DEF ReadOutput
    <2>2. ChildTypes'
      BY <1>0, <2>1 DEF ChildTypes
    <2>3. Chosen'
      BY <1>0, <2>1 DEF Chosen, EffectiveIsolation
    <2>4. Together'
      BY <1>0, <2>1 DEF Together, ChildTypes
    <2>5. Passing'
      BY <1>0, <2>1 DEF Together, Passing, ChildTypes
    <2> QED BY <2>2, <2>3, <2>4, <2>5 DEF ChildInv
  <1>7. CASE Collected
    <2>1. /\ parent.stage = "wait" /\ child.at = "exited" /\ pipes.stdout = 0
          /\ parent' = [parent EXCEPT !.stage = "done", !.result = "ok"]
          /\ UNCHANGED <<policy, backend, child, pipes, input>>
      BY <1>7 DEF Collected, Finish
    <2>2. ChildTypes'
      BY <1>0, <2>1 DEF ChildTypes
    <2>3. Chosen'
      BY <1>0, <2>1 DEF Chosen, EffectiveIsolation
    <2>4. Together'
      BY <1>0, <2>1 DEF Together, ChildTypes
    <2>5. Passing'
      BY <1>0, <2>1 DEF Passing, ChildTypes
    <2> QED BY <2>2, <2>3, <2>4, <2>5 DEF ChildInv
  <1>8. CASE WaitTimedOut
    <2>1. /\ parent.stage = "wait" /\ UNCHANGED <<policy, backend, pipes, input>>
          /\ parent' = [parent EXCEPT !.stage = "done", !.result = "timeout", !.read = 0]
          /\ child' = [child EXCEPT !.at = IF @ = "running" THEN "killed" ELSE @]
      BY <1>0, <1>8 DEF WaitTimedOut, Finish, AfterDrop, Killed, ChildTypes
    <2>2. ChildTypes'
      BY <1>0, <2>1 DEF ChildTypes
    <2>3. Chosen'
      BY <1>0, <2>1 DEF Chosen, EffectiveIsolation
    <2>4. Together'
      BY <1>0, <2>1 DEF Together, ChildTypes
    <2>5. Passing'
      BY <1>0, <2>1 DEF Passing, Together, ChildTypes
    <2> QED BY <2>2, <2>3, <2>4, <2>5 DEF ChildInv
  <1>9. CASE ChildStep
    <2>1. /\ child.at = "running" /\ child.kind # "deaf" /\ UNCHANGED <<policy, backend, parent, input>>
          /\ \/ /\ child.kind = "echo" /\ child.holds = 0 /\ pipes.stdin > 0
                /\ child' = [child EXCEPT !.holds = 1] /\ pipes' = [pipes EXCEPT !.stdin = @ - 1]
             \/ /\ child.holds = 1
                /\ child' = [child EXCEPT !.holds = 0] /\ pipes' = [pipes EXCEPT !.stdout = @ + 1]
             \/ /\ child.kind = "quick" \/ (child.holds = 0 /\ pipes.stdin = 0 /\ pipes.closed)
                /\ child' = [child EXCEPT !.at = "exited"] /\ UNCHANGED pipes
      BY <1>9 DEF ChildStep
    <2>2. ChildTypes'
      BY <1>0, <2>1 DEF ChildTypes
    <2>3. Chosen'
      BY <1>0, <2>1 DEF Chosen, EffectiveIsolation
    <2>4. Together'
      BY <1>0, <2>1 DEF Together, ChildTypes
    <2>5. Passing'
      BY <1>0, <2>1 DEF Passing, Together, ChildTypes
    <2> QED BY <2>2, <2>3, <2>4, <2>5 DEF ChildInv
  <1> QED BY <1>1, <1>2, <1>3, <1>4, <1>5, <1>6, <1>7, <1>8, <1>9 DEF ChildNext, ParentStep

\* The level chosen is the weakest one that fits what is asked for.
LEMMA WeakestFits ==
  ASSUME NEW p \in Policies
  PROVE  EffectiveIsolation(p) =
           CHOOSE l \in Isolation :
             LET fits(k) == k >= p.min /\ (p.filesystem => k >= 2) /\ (p.network => k = 3) IN
               fits(l) /\ \A k \in Isolation : fits(k) => l <= k
  <1> DEFINE fits(k) == k >= p.min /\ (p.filesystem => k >= 2) /\ (p.network => k = 3)
             L == EffectiveIsolation(p)
  <1>1. L \in Isolation
    BY IsolationIs DEF Isolation
  <1>2. fits(L) /\ \A k \in Isolation : fits(k) => L <= k
    BY DEF EffectiveIsolation, Policies, Isolation
  <1>3. \A l \in Isolation : (fits(l) /\ \A k \in Isolation : fits(k) => l <= k) => l = L
    BY <1>1, <1>2 DEF Isolation
  <1> HIDE DEF L
  <1>4. (CHOOSE l \in Isolation : fits(l) /\ \A k \in Isolation : fits(k) => l <= k) = L
    <2> DEFINE best(l) == fits(l) /\ \A k \in Isolation : fits(k) => l <= k
    <2>1. L \in Isolation /\ best(L) /\ \A l \in Isolation : best(l) => l = L
      BY <1>1, <1>2, <1>3
    <2> HIDE DEF best
    <2>2. (CHOOSE l \in Isolation : best(l)) = L
      BY <2>1
    <2> QED BY <2>2 DEF best
  <1> QED BY <1>4 DEF L

\* So a call ends with its child gone and its own output.
LEMMA ChildSays ==
  ASSUME ChildInv
  PROVE  /\ backend \in {"process", "oci", "native", "wasm"} =>
              LET level == CHOOSE i \in 1..4 : Backends[i] = backend IN
                level - 1 = CHOOSE l \in Isolation :
                  LET fits(k) == k >= policy.min /\ (policy.filesystem => k >= 2) /\ (policy.network => k = 3) IN
                    fits(l) /\ \A k \in Isolation : fits(k) => l <= k
         /\ parent.stage = "done" => child.at # "running"
         /\ parent.result = "ok" /\ child.kind = "echo" => parent.read = input
  <1>1. ASSUME backend \in {"process", "oci", "native", "wasm"}
        PROVE  (CHOOSE i \in 1..4 : Backends[i] = backend) - 1 = EffectiveIsolation(policy)
    <2>1. policy \in Policies /\ backend = Backends[EffectiveIsolation(policy) + 1]
      BY <1>1 DEF ChildInv, ChildTypes, Chosen
    <2>2. EffectiveIsolation(policy) \in 0..3
      BY <2>1, IsolationIs
    <2> DEFINE j == EffectiveIsolation(policy) + 1
    <2>3. j \in 1..4 /\ Backends[j] = backend
      BY <2>1, <2>2
    <2>4. /\ Backends[1] = "native" /\ Backends[2] = "wasm" /\ Backends[3] = "process" /\ Backends[4] = "oci"
      BY DEF Backends
    <2>5. \A i \in 1..4 : Backends[i] = backend => i = j
      <3>1. ASSUME NEW i \in 1..4, NEW h \in 1..4, Backends[i] = Backends[h] PROVE i = h
        <4>1. i \in {1, 2, 3, 4} /\ h \in {1, 2, 3, 4}
          OBVIOUS
        <4> QED BY <2>4, <3>1, <4>1
      <3> QED BY <3>1, <2>3
    <2>7. j - 1 = EffectiveIsolation(policy)
      BY <2>2
    <2> HIDE DEF j
    <2>6. (CHOOSE i \in 1..4 : Backends[i] = backend) = j
      BY <2>3, <2>5
    <2> QED BY <2>6, <2>7
  <1>2. policy \in Policies
    BY DEF ChildInv, ChildTypes
  <1>3. EffectiveIsolation(policy) =
           CHOOSE l \in Isolation :
             LET fits(k) == k >= policy.min /\ (policy.filesystem => k >= 2) /\ (policy.network => k = 3) IN
               fits(l) /\ \A k \in Isolation : fits(k) => l <= k
    BY <1>2, WeakestFits
  <1>4. parent.stage = "done" => child.at # "running"
    BY DEF ChildInv, Together
  <1>5. parent.result = "ok" /\ child.kind = "echo" => parent.read = input
    BY DEF ChildInv, Passing
  <1> QED BY <1>1, <1>3, <1>4, <1>5
-----------------------------------------------------------------------------
(* Tools in WebAssembly, and the kavach sandbox.                           *)

WasmTypes ==
    /\ epoch \in Nat
    /\ wasm \in [WasmRuns -> [at : {"idle", "running", "stopped", "done"}, deadline : Nat, exit : {1, 0, -1, -2, -3, 9}]]
    /\ ticker \in [WasmRuns -> [at : {"none", "sleeps", "fires", "gone"}, slept : Nat, cancel : BOOLEAN]]
    /\ crossed \subseteq WasmRuns

\* Who waits has no ticker, and who has left none that lives.
TickersLive ==
    \A e \in WasmRuns :
      /\ wasm[e].at = "idle" => ticker[e] = [at |-> "none", slept |-> 0, cancel |-> FALSE] /\ wasm[e].exit = 1
      /\ wasm[e].at = "done" => ticker[e].at = "gone"
      /\ wasm[e].at # "idle" => ticker[e].at # "none"
      /\ wasm[e].at = "running" => ~ticker[e].cancel
      /\ ticker[e].slept <= WasmTimeout
      /\ ticker[e].at = "sleeps" => ticker[e].slept < WasmTimeout
      /\ ticker[e].at = "fires" => ticker[e].slept = WasmTimeout

\* Who met no other is alone, and its deadline passes by its own ticker.
Alone ==
    /\ \A e \in WasmRuns \ crossed : e \in Inside => Inside = {e}
    /\ \A e \in WasmRuns \ crossed : wasm[e].at = "running" /\ ticker[e].slept < WasmTimeout => epoch < wasm[e].deadline
    /\ \A e \in WasmRuns \ crossed : wasm[e].exit = -1 => ticker[e].slept = WasmTimeout

WasmInv == WasmTypes /\ TickersLive /\ Alone

\* At first no module and no ticker runs.
LEMMA WasmBegins == SandboxInit => WasmInv
  <1> SUFFICES ASSUME SandboxInit PROVE WasmInv
    OBVIOUS
  <1>1. /\ epoch = 0 /\ crossed = {}
        /\ wasm = [e \in WasmRuns |-> [at |-> "idle", deadline |-> 0, exit |-> 1]]
        /\ ticker = [e \in WasmRuns |-> [at |-> "none", slept |-> 0, cancel |-> FALSE]]
    BY DEF SandboxInit
  <1>2. WasmTypes
    BY <1>1 DEF WasmTypes
  <1>3. TickersLive
    BY <1>1, SandboxAssumption DEF TickersLive
  <1>4. Alone
    BY <1>1 DEF Alone, Inside
  <1> QED BY <1>2, <1>3, <1>4 DEF WasmInv

\* Every step of a module and of its ticker keeps them together.
LEMMA WasmKeeps ==
  ASSUME WasmInv, [WasmNext]_wasmVars
  PROVE  WasmInv'
  <1>0. WasmTypes /\ TickersLive /\ Alone /\ WasmTimeout \in Nat \ {0}
    BY SandboxAssumption DEF WasmInv
  <1>1. CASE UNCHANGED wasmVars
    BY <1>0, <1>1 DEF WasmInv, wasmVars, WasmTypes, TickersLive, Alone, Inside
  <1>2. ASSUME NEW e \in WasmRuns, EnterWasm(e) PROVE WasmInv'
    <2>1. /\ wasm[e].at = "idle" /\ UNCHANGED epoch
          /\ wasm' = [wasm EXCEPT ![e] = [at |-> "running", deadline |-> epoch + 1, exit |-> 1]]
          /\ ticker' = [ticker EXCEPT ![e].at = "sleeps"]
          /\ crossed' = IF Inside = {} THEN crossed ELSE crossed \cup Inside \cup {e}
      BY <1>2 DEF EnterWasm
    <2>2. WasmTypes'
      BY <1>0, <2>1 DEF WasmTypes, Inside
    <2>3. TickersLive'
      BY <1>0, <2>1 DEF WasmTypes, TickersLive
    <2>4. Inside' = Inside \cup {e} /\ e \notin Inside
      BY <1>0, <2>1 DEF WasmTypes, Inside
    <2>5. \A f \in WasmRuns : f \notin crossed' /\ f # e => f \notin crossed /\ f \notin Inside
      BY <1>0, <2>1 DEF Alone, Inside, WasmTypes
    <2>6. e \notin crossed' => Inside = {}
      BY <2>1
    <2>7. Alone'
      <3>1. \A f \in WasmRuns \ crossed' : f \in Inside' => Inside' = {f}
        BY <2>4, <2>5, <2>6
      <3>2. \A f \in WasmRuns \ crossed' : wasm[f].at' = "running" /\ ticker[f].slept' < WasmTimeout => epoch' < wasm[f].deadline'
        BY <1>0, <2>1, <2>5 DEF Alone, Inside, WasmTypes
      <3>3. \A f \in WasmRuns \ crossed' : wasm[f].exit' = -1 => ticker[f].slept' = WasmTimeout
        BY <1>0, <2>1, <2>5 DEF Alone, WasmTypes
      <3> QED BY <3>1, <3>2, <3>3 DEF Alone
    <2> QED BY <2>2, <2>3, <2>7 DEF WasmInv
  <1>3. ASSUME NEW e \in WasmRuns, TickerSleeps(e) PROVE WasmInv'
    <2>1. /\ ticker[e].at = "sleeps" /\ UNCHANGED <<epoch, wasm, crossed>>
          /\ \E t \in [at : {"sleeps", "fires", "gone"}, slept : Nat, cancel : BOOLEAN] :
               /\ ticker' = [ticker EXCEPT ![e] = t] /\ t.cancel = ticker[e].cancel
               /\ \/ t.at = "gone" /\ t.slept = ticker[e].slept /\ ticker[e].cancel
                  \/ t.at = "sleeps" /\ t.slept = ticker[e].slept + 1 /\ t.slept < WasmTimeout
                  \/ t.at = "fires" /\ t.slept = ticker[e].slept + 1 /\ ~(t.slept < WasmTimeout)
      <3> DEFINE c == ticker[e]
                 t == IF c.cancel THEN [at |-> "gone", slept |-> c.slept, cancel |-> c.cancel]
                      ELSE [at |-> IF c.slept + 1 < WasmTimeout THEN "sleeps" ELSE "fires",
                            slept |-> c.slept + 1, cancel |-> c.cancel]
      <3>1. c \in [at : {"none", "sleeps", "fires", "gone"}, slept : Nat, cancel : BOOLEAN]
        BY <1>0 DEF WasmTypes
      <3>2. t = IF c.cancel THEN [c EXCEPT !.at = "gone"]
                ELSE [c EXCEPT !.slept = @ + 1, !.at = IF c.slept + 1 < WasmTimeout THEN "sleeps" ELSE "fires"]
        BY <3>1
      <3>3. /\ ticker[e].at = "sleeps" /\ UNCHANGED <<epoch, wasm, crossed>>
            /\ ticker' = [ticker EXCEPT ![e] = t]
        BY <1>3, <3>2 DEF TickerSleeps
      <3>4. /\ t \in [at : {"sleeps", "fires", "gone"}, slept : Nat, cancel : BOOLEAN] /\ t.cancel = c.cancel
            /\ \/ t.at = "gone" /\ t.slept = c.slept /\ c.cancel
               \/ t.at = "sleeps" /\ t.slept = c.slept + 1 /\ t.slept < WasmTimeout
               \/ t.at = "fires" /\ t.slept = c.slept + 1 /\ ~(t.slept < WasmTimeout)
        BY <1>0, <3>1
      <3> HIDE DEF t
      <3> QED BY <3>3, <3>4
    <2>2. WasmTypes'
      BY <1>0, <2>1 DEF WasmTypes
    <2>3. TickersLive'
      <3>1. /\ \A f \in WasmRuns : f # e => ticker[f]' = ticker[f]
            /\ ticker[e]'.at \in {"sleeps", "fires", "gone"} /\ ticker[e]'.slept \in Nat
            /\ ticker[e]'.cancel = ticker[e].cancel
            /\ \/ ticker[e]'.at = "gone" /\ ticker[e]'.slept = ticker[e].slept /\ ticker[e].cancel
               \/ ticker[e]'.at = "sleeps" /\ ticker[e]'.slept < WasmTimeout
               \/ ticker[e]'.at = "fires" /\ ticker[e]'.slept = ticker[e].slept + 1 /\ ~(ticker[e]'.slept < WasmTimeout)
        BY <1>0, <2>1 DEF WasmTypes
      <3>2. /\ wasm' = wasm /\ wasm[e].at \notin {"idle", "done"} /\ ticker[e].slept \in Nat
            /\ ticker[e].slept < WasmTimeout
        BY <1>0, <2>1 DEF TickersLive, WasmTypes
      <3>3. ticker[e]'.at = "fires" => ticker[e]'.slept = WasmTimeout
        BY <1>0, <3>1, <3>2
      <3>4. ticker[e]'.slept <= WasmTimeout
        BY <1>0, <3>1, <3>2
      <3> QED BY <1>0, <3>1, <3>2, <3>3, <3>4 DEF TickersLive
    <2>4. Inside' = Inside
      BY <2>1 DEF Inside
    <2>7. Alone'
      <3>1. \A f \in WasmRuns \ crossed' : f \in Inside' => Inside' = {f}
        BY <1>0, <2>1, <2>4 DEF Alone
      <3>2. \A f \in WasmRuns \ crossed' : wasm[f].at' = "running" /\ ticker[f].slept' < WasmTimeout => epoch' < wasm[f].deadline'
        BY <1>0, <2>1 DEF Alone, WasmTypes
      <3>3. \A f \in WasmRuns \ crossed' : wasm[f].exit' = -1 => ticker[f].slept' = WasmTimeout
        BY <1>0, <2>1 DEF Alone, WasmTypes, TickersLive
      <3> QED BY <3>1, <3>2, <3>3 DEF Alone
    <2> QED BY <2>2, <2>3, <2>7 DEF WasmInv
  <1>4. ASSUME NEW e \in WasmRuns, TickerFires(e) PROVE WasmInv'
    <2>1. /\ ticker[e].at = "fires" /\ UNCHANGED <<wasm, crossed>>
          /\ epoch' = epoch + 1 /\ ticker' = [ticker EXCEPT ![e].at = "gone"]
      BY <1>4 DEF TickerFires
    <2>2. WasmTypes'
      BY <1>0, <2>1 DEF WasmTypes
    <2>3. TickersLive'
      <3>1. /\ ticker[e]' = [at |-> "gone", slept |-> ticker[e].slept, cancel |-> ticker[e].cancel]
            /\ \A f \in WasmRuns : f # e => ticker[f]' = ticker[f]
        BY <1>0, <2>1 DEF WasmTypes
      <3>2. wasm' = wasm /\ wasm[e].at # "idle"
        BY <1>0, <2>1 DEF TickersLive
      <3> QED BY <1>0, <3>1, <3>2 DEF TickersLive
    <2>4. Inside' = Inside /\ e \in Inside
      BY <1>0, <2>1 DEF Inside, TickersLive, WasmTypes
    <2>7. Alone'
      <3>1. \A f \in WasmRuns \ crossed' : f \in Inside' => Inside' = {f}
        BY <1>0, <2>1, <2>4 DEF Alone
      <3>2. \A f \in WasmRuns \ crossed' : wasm[f].at' = "running" /\ ticker[f].slept' < WasmTimeout => epoch' < wasm[f].deadline'
        <4> SUFFICES ASSUME NEW f \in WasmRuns \ crossed, wasm[f].at = "running", ticker[f].slept' < WasmTimeout
                     PROVE  FALSE
          BY <2>1
        <4>1. f \in Inside
          BY DEF Inside
        <4>2. Inside = {f}
          BY <1>0, <4>1 DEF Alone
        <4>3. f = e
          BY <2>4, <4>2
        <4>4. ticker[f].slept' = ticker[f].slept /\ ticker[e].slept = WasmTimeout
          BY <1>0, <2>1 DEF TickersLive, WasmTypes
        <4> QED BY <1>0, <4>3, <4>4
      <3>3. \A f \in WasmRuns \ crossed' : wasm[f].exit' = -1 => ticker[f].slept' = WasmTimeout
        BY <1>0, <2>1 DEF Alone, WasmTypes
      <3> QED BY <3>1, <3>2, <3>3 DEF Alone
    <2> QED BY <2>2, <2>3, <2>7 DEF WasmInv
  <1>5. ASSUME NEW e \in WasmRuns, NEW code \in {0, -1, -2, -3, 9}, WasmStops(e, code) PROVE WasmInv'
    <2>1. /\ wasm[e].at = "running" /\ UNCHANGED <<epoch, crossed>>
          /\ wasm' = [wasm EXCEPT ![e].at = "stopped", ![e].exit = code]
          /\ ticker' = [ticker EXCEPT ![e].cancel = TRUE]
          /\ code = -1 => epoch >= wasm[e].deadline
      BY <1>5 DEF WasmStops, Interrupted
    <2>2. WasmTypes'
      BY <1>0, <2>1, ZenonT(30) DEF WasmTypes
    <2>3. TickersLive'
      BY <1>0, <2>1 DEF WasmTypes, TickersLive
    <2>4. Inside' = Inside
      BY <1>0, <2>1 DEF Inside, WasmTypes
    <2>7. Alone'
      <3>1. \A f \in WasmRuns \ crossed' : f \in Inside' => Inside' = {f}
        BY <1>0, <2>1, <2>4 DEF Alone
      <3>2. \A f \in WasmRuns \ crossed' : wasm[f].at' = "running" /\ ticker[f].slept' < WasmTimeout => epoch' < wasm[f].deadline'
        BY <1>0, <2>1 DEF Alone, WasmTypes
      <3>3. \A f \in WasmRuns \ crossed' : wasm[f].exit' = -1 => ticker[f].slept' = WasmTimeout
        <4>1. e \notin crossed /\ code = -1 => ticker[e].slept = WasmTimeout
          <5>1. /\ epoch \in Nat /\ wasm[e].deadline \in Nat /\ ticker[e].slept \in Nat /\ ticker[e].slept <= WasmTimeout
            BY <1>0 DEF WasmTypes, TickersLive
          <5>2. e \notin crossed /\ ticker[e].slept < WasmTimeout => epoch < wasm[e].deadline
            BY <1>0, <2>1 DEF Alone
          <5> QED BY <1>0, <2>1, <5>1, <5>2
        <4> QED BY <1>0, <2>1, <4>1 DEF Alone, WasmTypes
      <3> QED BY <3>1, <3>2, <3>3 DEF Alone
    <2> QED BY <2>2, <2>3, <2>7 DEF WasmInv
  <1>6. ASSUME NEW e \in WasmRuns, LeaveWasm(e) PROVE WasmInv'
    <2>1. /\ wasm[e].at = "stopped" /\ ticker[e].at = "gone" /\ UNCHANGED <<epoch, ticker, crossed>>
          /\ wasm' = [wasm EXCEPT ![e].at = "done"]
      BY <1>6 DEF LeaveWasm, Joined
    <2>2. WasmTypes'
      BY <1>0, <2>1 DEF WasmTypes
    <2>3. TickersLive'
      BY <1>0, <2>1 DEF WasmTypes, TickersLive
    <2>4. Inside' = Inside \ {e}
      BY <1>0, <2>1 DEF Inside, WasmTypes
    <2>7. Alone'
      <3>1. \A f \in WasmRuns \ crossed' : f \in Inside' => Inside' = {f}
        BY <1>0, <2>1, <2>4 DEF Alone
      <3>2. \A f \in WasmRuns \ crossed' : wasm[f].at' = "running" /\ ticker[f].slept' < WasmTimeout => epoch' < wasm[f].deadline'
        BY <1>0, <2>1 DEF Alone, WasmTypes
      <3>3. \A f \in WasmRuns \ crossed' : wasm[f].exit' = -1 => ticker[f].slept' = WasmTimeout
        BY <1>0, <2>1 DEF Alone, WasmTypes
      <3> QED BY <3>1, <3>2, <3>3 DEF Alone
    <2> QED BY <2>2, <2>3, <2>7 DEF WasmInv
  <1> QED BY <1>1, <1>2, <1>3, <1>4, <1>5, <1>6 DEF WasmNext, WasmStep

\* No answer before the sandbox that ran is destroyed.
KavachInv ==
    /\ kavach.state \in {"none", "created", "running"} => kavach.exec = "none"
    /\ kavach.answer # "none" /\ kavach.exec # "none" => kavach.state = "destroyed"

\* At first there is no sandbox.
LEMMA KavachBegins == SandboxInit => KavachInv
  BY DEF SandboxInit, KavachInv

\* Every step of a sandbox keeps its order of life.
LEMMA KavachKeeps ==
  ASSUME KavachInv, [KavachNext]_<<kavach>>
  PROVE  KavachInv'
  <1>1. CASE UNCHANGED <<kavach>>
    BY <1>1 DEF KavachInv
  <1>2. CASE CreateKavach
    BY <1>2 DEF KavachInv, CreateKavach, KavachStep
  <1>3. CASE StartKavach
    BY <1>3 DEF KavachInv, StartKavach, KavachStep
  <1>4. CASE ExecKavach
    BY <1>4 DEF KavachInv, ExecKavach, KavachStep
  <1>5. CASE StopKavach
    BY <1>5 DEF KavachInv, StopKavach, KavachStep
  <1>6. CASE DestroyKavach
    BY <1>6 DEF KavachInv, DestroyKavach, KavachStep
  <1> QED BY <1>1, <1>2, <1>3, <1>4, <1>5, <1>6 DEF KavachNext

\* Together: what the sandboxes promise.
LEMMA SandboxSays ==
  ASSUME ChildInv, WasmInv, KavachInv
  PROVE  SandboxSound
  <1>1. \A e \in WasmRuns : wasm[e].exit = -1 /\ e \notin crossed => ticker[e].slept = WasmTimeout
    BY DEF WasmInv, Alone
  <1>2. kavach.answer # "none" /\ kavach.exec # "none" => kavach.state = "destroyed"
    BY DEF KavachInv
  <1> QED BY <1>1, <1>2, ChildSays DEF SandboxSound
-----------------------------------------------------------------------------
(* The registry of tools, downloads and the grade of a site.               *)

\* The packages up to position k that load.
Loadable(k) == {i \in 1 .. k : IsPackage(entries[i]) /\ Loads(entries[i])}

ScanInv ==
    /\ entries \in Seq({entries[i] : i \in DOMAIN entries})
    /\ scan \in [at : 0 .. Len(entries), loaded : Nat, answer : {"none", "ok", "error"}]
    /\ scan.answer = "ok" => scan.at = Len(entries)
    /\ scan.loaded = Cardinality(Loadable(scan.at))

\* A name stands for the last package of that name among those seen.
NamesInv ==
    \A n \in DOMAIN tools :
      /\ tools[n] \in Loadable(scan.at) /\ entries[tools[n]].name = n
      /\ \A k \in Loadable(scan.at) : entries[k].name = n => k <= tools[n]

CallOf(name, held) ==
    [at : {"idle", "running", "done"}, name : name, allowed : AllowLists \cup {{}},
     held : held, result : RunResults \cup {NoTool},
     answer : {"none", "ok", "failed", "exit code", "timed out", "sandbox error", "not found"}]

CallTypes == calls \in [Callers -> CallOf(Names \cup {NoTool}, 0 .. Len(entries))]

\* A caller runs what it looked up.
CallInv ==
    \A c \in Callers :
      /\ calls[c].at = "idle" => calls[c].held = 0
      /\ calls[c].at = "running" => calls[c].held # 0
      /\ calls[c].at # "done" => calls[c].answer = "none"
      /\ calls[c].held # 0 => /\ entries[calls[c].held].name = calls[c].name
                              /\ calls[c].allowed # {} => calls[c].name \in calls[c].allowed
      /\ calls[c].answer = "ok" =>
           calls[c].held # 0 /\ calls[c].result.ok /\ calls[c].result.exit = 0 /\ calls[c].result.stdout # "failure"

RegistryInv == ScanInv /\ NamesInv /\ CallTypes /\ CallInv

FetchInv ==
    /\ fetch \in [stage : {"idle", "sent", "body", "ok", "error"}, of : Downloads \cup {NoTool}, got : Nat]
    /\ fetch.stage \in {"sent", "body", "ok"} => fetch.of \in Downloads /\ fetch.of.safe
    /\ fetch.stage \in {"body", "ok"} => fetch.of.success
    /\ fetch.stage = "ok" => fetch.got = fetch.of.size /\ fetch.got <= MaxDownload

\* At first the registry is empty.
LEMMA ToolsBegin ==
  ASSUME NEW d, d \in Seq({d[i] : i \in DOMAIN d}), ToolsStart(d)
  PROVE  RegistryInv /\ FetchInv
  <1>1. /\ entries = d /\ scan = [at |-> 0, loaded |-> 0, answer |-> "none"] /\ DOMAIN tools = {}
        /\ calls = [c \in Callers |-> [at |-> "idle", name |-> NoTool, allowed |-> {}, held |-> 0,
                                       result |-> NoTool, answer |-> "none"]]
        /\ fetch = [stage |-> "idle", of |-> NoTool, got |-> 0]
    BY DEF ToolsStart
  <1>2. entries \in Seq({entries[i] : i \in DOMAIN entries})
    BY <1>1
  <1>3. Len(entries) \in Nat
    BY <1>2, LenProperties
  <1>4. Loadable(0) = {}
    BY DEF Loadable
  <1>5. Cardinality(Loadable(scan.at)) = 0
    BY <1>1, <1>4, FS_EmptySet
  <1>6. ScanInv
    BY <1>1, <1>2, <1>3, <1>5 DEF ScanInv
  <1>7. NamesInv
    BY <1>1 DEF NamesInv
  <1>8. CallTypes
    BY <1>1, <1>3 DEF CallTypes, CallOf
  <1>9. CallInv
    BY <1>1 DEF CallInv
  <1>10. FetchInv
    BY <1>1 DEF FetchInv
  <1> QED BY <1>6, <1>7, <1>8, <1>9, <1>10 DEF RegistryInv

\* Finitely many packages have been scanned.
LEMMA LoadableFinite ==
  ASSUME NEW k \in Nat
  PROVE  IsFiniteSet(Loadable(k))
  <1>1. IsFiniteSet(1 .. k)
    BY FS_Interval
  <1>2. Loadable(k) \subseteq 1 .. k
    BY DEF Loadable
  <1> QED BY <1>1, <1>2, FS_Subset

\* A step that touches no call keeps the calls.
LEMMA CallsStay ==
  ASSUME CallTypes, CallInv, UNCHANGED <<entries, calls>>
  PROVE  CallTypes' /\ CallInv'
  <1>1. Names' = Names
    BY DEF Names
  <1>2. CallTypes'
    BY <1>1 DEF CallTypes
  <1>3. CallInv'
    BY DEF CallInv
  <1> QED BY <1>2, <1>3

\* A caller's record is replaced by another one.
LEMMA CallTyped ==
  ASSUME CallTypes, entries' = entries, NEW c \in Callers, NEW r \in CallOf(Names \cup {NoTool}, 0 .. Len(entries)),
         calls' = [calls EXCEPT ![c] = r]
  PROVE  /\ CallTypes' /\ calls'[c] = r
         /\ \A b \in Callers : b # c => calls'[b] = calls[b]
  <1>1. Names' = Names
    BY DEF Names
  <1> QED BY <1>1 DEF CallTypes

\* A scan, a removal and a call keep the registry.
LEMMA RegistryKeeps ==
  ASSUME RegistryInv, [RegistryNext]_registryVars
  PROVE  RegistryInv'
  <1>0. ScanInv /\ NamesInv /\ CallTypes /\ CallInv
    BY DEF RegistryInv
  <1>n. /\ Len(entries) \in Nat /\ DOMAIN entries = 1 .. Len(entries) /\ scan.at \in 0 .. Len(entries)
        /\ scan.loaded \in Nat /\ scan.answer \in {"none", "ok", "error"}
    <2>1. entries \in Seq({entries[i] : i \in DOMAIN entries})
      BY <1>0 DEF ScanInv
    <2>2. Len(entries) \in Nat /\ DOMAIN entries = 1 .. Len(entries)
      BY <2>1, LenProperties
    <2> QED BY <1>0, <2>2 DEF ScanInv
  <1>1. CASE UNCHANGED registryVars
    <2>1. UNCHANGED <<entries, scan, tools, calls>>
      BY <1>1 DEF registryVars
    <2>2. \A k : Loadable(k)' = Loadable(k)
      BY <2>1 DEF Loadable
    <2>3. ScanInv'
      BY <1>0, <2>1, <2>2 DEF ScanInv
    <2>4. NamesInv'
      BY <1>0, <2>1, <2>2 DEF NamesInv
    <2>5. CallTypes' /\ CallInv'
      <3>1. UNCHANGED <<entries, calls>>
        BY <2>1
      <3> QED BY <1>0, <3>1, CallsStay
    <2> QED BY <2>3, <2>4, <2>5 DEF RegistryInv
  <1>2. CASE ScanEntry
    <2> DEFINE k == scan.at + 1
               good == IsPackage(entries[k]) /\ Loads(entries[k])
    <2>1. /\ scan.answer = "none" /\ k \in 1 .. Len(entries) /\ UNCHANGED <<entries, calls>>
          /\ scan' = (IF good THEN [scan EXCEPT !.at = k, !.loaded = @ + 1] ELSE [scan EXCEPT !.at = k])
          /\ tools' = IF good THEN Registered(entries[k].name, k) ELSE tools
      BY <1>2, <1>n DEF ScanEntry, AfterEntry
    <2>2. \A i : Loadable(i)' = Loadable(i)
      BY <2>1 DEF Loadable
    <2>3. Loadable(k) = IF good THEN Loadable(scan.at) \cup {k} ELSE Loadable(scan.at)
      BY <1>n DEF Loadable
    <2>4. k \notin Loadable(scan.at) /\ IsFiniteSet(Loadable(scan.at))
      BY <1>n, LoadableFinite DEF Loadable
    <2>5. Cardinality(Loadable(k)) = IF good THEN scan.loaded + 1 ELSE scan.loaded
      <3>1. Cardinality(Loadable(scan.at)) = scan.loaded
        BY <1>0 DEF ScanInv
      <3>2. Cardinality(Loadable(scan.at) \cup {k}) = Cardinality(Loadable(scan.at)) + 1
        BY <2>4, FS_AddElement
      <3> QED BY <2>3, <3>1, <3>2
    <2>6. scan'.at = k /\ scan'.answer = "none" /\ scan'.loaded = (IF good THEN scan.loaded + 1 ELSE scan.loaded)
          /\ scan' \in [at : 0 .. Len(entries), loaded : Nat, answer : {"none", "ok", "error"}]
      <3>1. scan \in [at : 0 .. Len(entries), loaded : Nat, answer : {"none", "ok", "error"}]
        BY <1>0 DEF ScanInv
      <3>2. k \in 0 .. Len(entries) /\ scan.loaded + 1 \in Nat
        BY <1>n, <2>1
      <3> HIDE DEF k, good
      <3>3. scan' = [at |-> k, loaded |-> IF good THEN scan.loaded + 1 ELSE scan.loaded, answer |-> scan.answer]
        BY <2>1, <3>1
      <3> QED BY <1>n, <2>1, <3>2, <3>3
    <2>7. ScanInv'
      <3>1. Cardinality(Loadable(scan.at)') = scan'.loaded
        BY <2>2, <2>5, <2>6
      <3>2. Loadable(scan.at)' = Loadable(k)
        BY <2>1, <2>6 DEF Loadable
      <3>3. Cardinality(Loadable(scan.at))' = scan'.loaded
        BY <2>5, <2>6, <3>2
      <3> QED BY <1>0, <2>1, <2>6, <3>3 DEF ScanInv
    <2>8. Loadable(scan.at)' = Loadable(k)
      BY <2>1, <2>6 DEF Loadable
    <2>9. NamesInv'
      <3>1. CASE good
        <4>1. DOMAIN tools' = DOMAIN tools \cup {entries[k].name}
              /\ \A n \in DOMAIN tools' : tools'[n] = IF n = entries[k].name THEN k ELSE tools[n]
          BY <2>1, <3>1 DEF Registered
        <4>2. Loadable(k) = Loadable(scan.at) \cup {k}
          BY <2>3, <3>1
        <4>3. \A i \in Loadable(k) : i <= k
          BY <1>n DEF Loadable
        <4> HIDE DEF k, good
        <4> QED BY <1>0, <2>1, <2>8, <4>1, <4>2, <4>3 DEF NamesInv
      <3>2. CASE ~good
        <4>1. tools' = tools /\ Loadable(k) = Loadable(scan.at) /\ entries' = entries
          BY <2>1, <2>3, <3>2
        <4> HIDE DEF k, good
        <4> QED BY <1>0, <2>8, <4>1 DEF NamesInv
      <3> QED BY <3>1, <3>2
    <2>10. CallTypes' /\ CallInv'
      <3>1. UNCHANGED <<entries, calls>>
        BY <2>1
      <3> QED BY <1>0, <3>1, CallsStay
    <2> QED BY <2>7, <2>9, <2>10 DEF RegistryInv
  <1>3. CASE ScanFails \/ ScanEnds
    <2>1. /\ UNCHANGED <<entries, tools, calls>>
          /\ \/ scan' = [scan EXCEPT !.answer = "error"]
             \/ scan' = [scan EXCEPT !.answer = "ok"] /\ scan.at = Len(entries)
      BY <1>3 DEF ScanFails, ScanEnds
    <2>2. scan'.at = scan.at /\ scan'.loaded = scan.loaded /\ (scan'.answer = "ok" => scan.at = Len(entries))
          /\ scan' \in [at : 0 .. Len(entries), loaded : Nat, answer : {"none", "ok", "error"}]
      BY <1>0, <2>1 DEF ScanInv
    <2>3. Loadable(scan.at)' = Loadable(scan.at)
      BY <2>1, <2>2 DEF Loadable
    <2>4. ScanInv'
      BY <1>0, <2>1, <2>2, <2>3 DEF ScanInv
    <2>5. NamesInv'
      BY <1>0, <2>1, <2>2, <2>3 DEF NamesInv
    <2>6. CallTypes' /\ CallInv'
      <3>1. UNCHANGED <<entries, calls>>
        BY <2>1
      <3> QED BY <1>0, <3>1, CallsStay
    <2> QED BY <2>4, <2>5, <2>6 DEF RegistryInv
  <1>4. ASSUME NEW n \in Names, RemoveTool(n) PROVE RegistryInv'
    <2>1. /\ UNCHANGED <<entries, scan, calls>>
          /\ tools' = [m \in DOMAIN tools \ {n} |-> tools[m]]
      BY <1>4 DEF RemoveTool
    <2>2. \A k : Loadable(k)' = Loadable(k)
      BY <2>1 DEF Loadable
    <2>3. ScanInv'
      BY <1>0, <2>1, <2>2 DEF ScanInv
    <2>4. NamesInv'
      BY <1>0, <2>1, <2>2 DEF NamesInv
    <2>5. CallTypes' /\ CallInv'
      <3>1. UNCHANGED <<entries, calls>>
        BY <2>1
      <3> QED BY <1>0, <3>1, CallsStay
    <2> QED BY <2>3, <2>4, <2>5 DEF RegistryInv
  <1>5. ASSUME NEW c \in Callers, NEW n \in Names, NEW allowed \in AllowLists, LookUp(c, n, allowed)
        PROVE  RegistryInv'
    <2>1. /\ UNCHANGED <<entries, scan, tools>> /\ calls[c].at = "idle"
          /\ calls' = [calls EXCEPT ![c] =
               IF IsToolAllowed(n, allowed) /\ n \in DOMAIN tools
               THEN [@ EXCEPT !.at = "running", !.name = n, !.allowed = allowed, !.held = tools[n]]
               ELSE [@ EXCEPT !.at = "done", !.name = n, !.allowed = allowed, !.answer = "not found"]]
      BY <1>5 DEF LookUp
    <2>2. \A k : Loadable(k)' = Loadable(k)
      BY <2>1 DEF Loadable
    <2>3. ScanInv'
      BY <1>0, <2>1, <2>2 DEF ScanInv
    <2>4. NamesInv'
      BY <1>0, <2>1, <2>2 DEF NamesInv
    <2>5. CASE IsToolAllowed(n, allowed) /\ n \in DOMAIN tools
      <3>1. calls' = [calls EXCEPT ![c] =
               [@ EXCEPT !.at = "running", !.name = n, !.allowed = allowed, !.held = tools[n]]]
        BY <2>1, <2>5
      <3>2. tools[n] \in 1 .. Len(entries) /\ entries[tools[n]].name = n
        BY <1>0, <1>n, <2>5 DEF NamesInv, Loadable
      <3>3. allowed # {} => n \in allowed
        BY <2>5 DEF IsToolAllowed
      <3> DEFINE r == [calls[c] EXCEPT !.at = "running", !.name = n, !.allowed = allowed, !.held = tools[n]]
      <3>7. calls[c] \in CallOf(Names \cup {NoTool}, 0 .. Len(entries)) /\ calls[c].answer = "none"
        BY <1>0, <2>1 DEF CallTypes, CallInv
      <3>8. calls' = [calls EXCEPT ![c] = r]
        BY <3>1
      <3>9. r \in CallOf(Names \cup {NoTool}, 0 .. Len(entries))
        <4>1. tools[n] \in 0 .. Len(entries) /\ calls[c].result \in RunResults \cup {NoTool}
          <5>1. calls[c].result \in RunResults \cup {NoTool}
            BY <3>7 DEF CallOf
          <5>2. tools[n] \in 0 .. Len(entries)
            BY <1>n, <3>2
          <5> QED BY <5>1, <5>2
        <4> QED BY <3>7, <4>1 DEF CallOf
      <3>10. /\ r.at = "running" /\ r.name = n /\ r.allowed = allowed /\ r.held = tools[n] /\ r.answer = "none"
        BY <3>7 DEF CallOf
      <3> HIDE DEF r
      <3>12. entries' = entries
        BY <2>1
      <3>4. CallTypes' /\ calls'[c] = r /\ \A b \in Callers : b # c => calls'[b] = calls[b]
        BY <1>0, <3>8, <3>9, <3>12, CallTyped
      <3>5. tools[n] # 0
        BY <1>n, <3>2
      <3>6. CallInv'
        BY <1>0, <3>2, <3>3, <3>4, <3>5, <3>10, <3>12 DEF CallInv
      <3> QED BY <2>3, <2>4, <3>4, <3>6 DEF RegistryInv
    <2>6. CASE ~(IsToolAllowed(n, allowed) /\ n \in DOMAIN tools)
      <3>1. calls' = [calls EXCEPT ![c] =
               [@ EXCEPT !.at = "done", !.name = n, !.allowed = allowed, !.answer = "not found"]]
        BY <2>1, <2>6
      <3> DEFINE r == [calls[c] EXCEPT !.at = "done", !.name = n, !.allowed = allowed, !.answer = "not found"]
      <3>7. calls[c] \in CallOf(Names \cup {NoTool}, 0 .. Len(entries)) /\ calls[c].held = 0
        BY <1>0, <2>1 DEF CallTypes, CallInv
      <3>8. calls' = [calls EXCEPT ![c] = r]
        BY <3>1
      <3>9. r \in CallOf(Names \cup {NoTool}, 0 .. Len(entries))
        BY <1>n, <3>7 DEF CallOf
      <3>10. r.at = "done" /\ r.held = 0 /\ r.answer = "not found"
        BY <3>7 DEF CallOf
      <3> HIDE DEF r
      <3>12. entries' = entries
        BY <2>1
      <3>4. CallTypes' /\ calls'[c] = r /\ \A b \in Callers : b # c => calls'[b] = calls[b]
        BY <1>0, <3>8, <3>9, <3>12, CallTyped
      <3>6. CallInv'
        BY <1>0, <3>4, <3>10, <3>12, ZenonT(30) DEF CallInv
      <3> QED BY <2>3, <2>4, <3>4, <3>6 DEF RegistryInv
    <2> QED BY <2>5, <2>6
  <1>6. ASSUME NEW c \in Callers, NEW r \in RunResults, ToolReturns(c, r) PROVE RegistryInv'
    <2>1. /\ UNCHANGED <<entries, scan, tools>> /\ calls[c].at = "running"
          /\ calls' = [calls EXCEPT ![c].at = "done", ![c].result = r, ![c].answer = ToolAnswer(r)]
      BY <1>6 DEF ToolReturns
    <2>2. \A k : Loadable(k)' = Loadable(k)
      BY <2>1 DEF Loadable
    <2>3. ScanInv'
      BY <1>0, <2>1, <2>2 DEF ScanInv
    <2>4. NamesInv'
      BY <1>0, <2>1, <2>2 DEF NamesInv
    <2>5. /\ ToolAnswer(r) \in {"ok", "failed", "exit code", "timed out", "sandbox error"}
          /\ ToolAnswer(r) = "ok" => r.ok /\ r.exit = 0 /\ r.stdout # "failure"
      BY DEF ToolAnswer
    <2> DEFINE d == [calls[c] EXCEPT !.at = "done", !.result = r, !.answer = ToolAnswer(r)]
    <2>7. calls[c] \in CallOf(Names \cup {NoTool}, 0 .. Len(entries)) /\ calls[c].held # 0
      BY <1>0, <2>1 DEF CallTypes, CallInv
    <2>9. calls' = [calls EXCEPT ![c] = d]
      BY <2>1
    <2>10. d \in CallOf(Names \cup {NoTool}, 0 .. Len(entries))
      BY <2>5, <2>7 DEF CallOf
    <2>11. /\ d.at = "done" /\ d.name = calls[c].name /\ d.allowed = calls[c].allowed /\ d.held = calls[c].held
           /\ d.result = r /\ d.answer = ToolAnswer(r)
      BY <2>7 DEF CallOf
    <2> HIDE DEF d
    <2>13. entries' = entries
      BY <2>1
    <2>6. CallTypes' /\ calls'[c] = d /\ \A b \in Callers : b # c => calls'[b] = calls[b]
      BY <1>0, <2>9, <2>10, <2>13, CallTyped
    <2>8. CallInv'
      <3>1. /\ d.at = "done" /\ d.held # 0 /\ entries[d.held].name = d.name
            /\ (d.allowed # {} => d.name \in d.allowed)
        BY <1>0, <2>7, <2>11 DEF CallInv
      <3>2. d.answer = "ok" => d.result.ok /\ d.result.exit = 0 /\ d.result.stdout # "failure"
        BY <2>5, <2>11
      <3> QED BY <1>0, <2>6, <2>13, <3>1, <3>2 DEF CallInv
    <2> QED BY <2>3, <2>4, <2>6, <2>8 DEF RegistryInv
  <1> QED BY <1>1, <1>2, <1>3, <1>4, <1>5, <1>6 DEF RegistryNext

\* Every step of a download keeps its limit.
LEMMA FetchKeeps ==
  ASSUME FetchInv, [FetchNext]_<<fetch>>
  PROVE  FetchInv'
  <1>1. CASE UNCHANGED <<fetch>>
    BY <1>1 DEF FetchInv
  <1>2. ASSUME NEW d \in Downloads, StartFetch(d) PROVE FetchInv'
    BY <1>2 DEF FetchInv, StartFetch
  <1>3. CASE FetchHead
    BY <1>3 DEF FetchInv, FetchHead, FetchAnswer
  <1>4. ASSUME NEW whole \in BOOLEAN, FetchBody(whole) PROVE FetchInv'
    <2>1. fetch.of \in Downloads /\ fetch.of.size \in Nat /\ fetch.of.safe /\ fetch.of.success
      BY <1>4, ToolsAssumption DEF FetchInv, FetchBody
    <2>2. \/ fetch' = [fetch EXCEPT !.stage = "ok", !.got = fetch.of.size] /\ fetch.of.size <= MaxDownload
          \/ fetch' = [fetch EXCEPT !.stage = "error", !.got = 0]
      BY <1>4 DEF FetchBody, FetchAnswer
    <2>3. fetch \in [stage : {"idle", "sent", "body", "ok", "error"}, of : Downloads \cup {NoTool}, got : Nat]
      BY DEF FetchInv
    <2>4. \/ fetch' = [stage |-> "ok", of |-> fetch.of, got |-> fetch.of.size] /\ fetch.of.size <= MaxDownload
          \/ fetch' = [stage |-> "error", of |-> fetch.of, got |-> 0]
      BY <2>2, <2>3
    <2> QED BY <2>1, <2>4 DEF FetchInv
  <1> QED BY <1>1, <1>2, <1>3, <1>4 DEF FetchNext

\* Together: what the registry and the downloads promise.
LEMMA ToolsSay ==
  ASSUME RegistryInv, FetchInv
  PROVE  ToolsSound
  <1>0. ScanInv /\ NamesInv /\ CallInv
    BY DEF RegistryInv
  <1>1. ASSUME NEW n \in DOMAIN tools
        PROVE  LET good == {k \in 1 .. scan.at : IsPackage(entries[k]) /\ Loads(entries[k]) /\ entries[k].name = n}
               IN  tools[n] \in good /\ \A k \in good : k <= tools[n]
    BY <1>0 DEF NamesInv, Loadable
  <1>2. scan.answer = "ok" =>
          scan.loaded = Cardinality({k \in DOMAIN entries : IsPackage(entries[k]) /\ Loads(entries[k])})
    <2> SUFFICES ASSUME scan.answer = "ok"
                 PROVE  scan.loaded = Cardinality({k \in DOMAIN entries : IsPackage(entries[k]) /\ Loads(entries[k])})
      OBVIOUS
    <2>1. DOMAIN entries = 1 .. scan.at
      BY <1>0, LenProperties DEF ScanInv
    <2>2. Loadable(scan.at) = {k \in DOMAIN entries : IsPackage(entries[k]) /\ Loads(entries[k])}
      BY <2>1 DEF Loadable
    <2> QED BY <1>0, <2>2 DEF ScanInv
  <1>3. fetch.stage = "ok" => fetch.of.safe /\ fetch.of.success /\ fetch.got = fetch.of.size /\ fetch.got <= MaxDownload
    BY DEF FetchInv
  <1> QED BY <1>0, <1>1, <1>2, <1>3 DEF ToolsSound, CallInv
-----------------------------------------------------------------------------
\* A report is about the answers it was made from.
GradeInv ==
    /\ assessment.at \in {"cors", "graded"} => assessment.present \in 0 .. Recommended /\ assessment.disclosed \in BOOLEAN
    /\ assessment.at = "graded" =>
         /\ assessment.origin \in Origins /\ assessment.credentials \in BOOLEAN
         /\ assessment.score = SecurityScore(assessment.present, AllowsAll(assessment.origin) /\ assessment.credentials,
                                             assessment.disclosed)
         /\ assessment.risk = RiskLevel(assessment.score)

\* At first nothing is graded.
LEMMA GradeBegins == AssessmentInit => GradeInv
  BY DEF AssessmentInit, GradeInv

\* A grade is given once.
LEMMA GradeKeeps ==
  ASSUME GradeInv, [AssessmentNext]_<<assessment>>
  PROVE  GradeInv'
  <1>1. CASE UNCHANGED <<assessment>>
    BY <1>1 DEF GradeInv
  <1>2. ASSUME NEW safe \in BOOLEAN, StartAssessment(safe) PROVE GradeInv'
    BY <1>2 DEF GradeInv, StartAssessment
  <1>3. ASSUME NEW present \in 0 .. Recommended, NEW disclosed \in BOOLEAN, HeadersAnswer(present, disclosed)
        PROVE  GradeInv'
    BY <1>3 DEF GradeInv, HeadersAnswer
  <1>4. CASE HeadersFail
    BY <1>4 DEF GradeInv, HeadersFail
  <1>5. ASSUME NEW origin \in Origins, NEW credentials \in BOOLEAN, CorsAnswer(origin, credentials)
        PROVE  GradeInv'
    BY <1>5 DEF GradeInv, CorsAnswer
  <1>6. CASE CorsFails
    BY <1>5, <1>6 DEF CorsFails, Origins
  <1> QED BY <1>1, <1>2, <1>3, <1>4, <1>5, <1>6 DEF AssessmentNext

\* The score of each number of headers.
LEMMA ScoreIs ==
  /\ HeaderScore(0) = 0 /\ HeaderScore(1) = 14 /\ HeaderScore(2) = 29 /\ HeaderScore(3) = 43
  /\ HeaderScore(4) = 57 /\ HeaderScore(5) = 71 /\ HeaderScore(6) = 86 /\ HeaderScore(7) = 100
  BY DEF HeaderScore, Recommended

\* So the grade is right.
LEMMA GradeSays ==
  ASSUME GradeInv
  PROVE  GradeSound
  <1> SUFFICES ASSUME assessment.at = "graded" PROVE GradeSound
    BY DEF GradeSound
  <1> DEFINE p == assessment.present
             o == AllowsAll(assessment.origin) /\ assessment.credentials
             d == assessment.disclosed
             h == HeaderScore(p)
  <1>1. /\ p \in {0, 1, 2, 3, 4, 5, 6, 7} /\ o \in BOOLEAN /\ d \in BOOLEAN
        /\ assessment.score = SecurityScore(p, o, d) /\ assessment.risk = RiskLevel(assessment.score)
    BY DEF GradeInv, Recommended, AllowsAll
  <1>2. /\ h \in 0 .. 100 /\ (p > 0 => HeaderScore(p - 1) <= h /\ HeaderScore(p - 1) \in 0 .. 100)
        /\ (p <= 5 => h <= 71) /\ (p >= 5 => h >= 71)
    <2>1. /\ 1 - 1 = 0 /\ 2 - 1 = 1 /\ 3 - 1 = 2 /\ 4 - 1 = 3 /\ 5 - 1 = 4 /\ 6 - 1 = 5 /\ 7 - 1 = 6
      OBVIOUS
    <2> QED BY <1>1, <2>1, ScoreIs
  <1> HIDE DEF p, o, d, h
  <1>3. SecurityScore(p, o, d) \in 0 .. 100
    BY <1>1, <1>2 DEF SecurityScore, h
  <1>4. p > 0 => SecurityScore(p - 1, o, d) <= SecurityScore(p, o, d)
    BY <1>1, <1>2 DEF SecurityScore, h
  <1>5. SecurityScore(p, TRUE, d) <= SecurityScore(p, o, d)
    BY <1>1, <1>2 DEF SecurityScore, h
  <1>6. SecurityScore(p, o, TRUE) <= SecurityScore(p, o, d)
    BY <1>1, <1>2 DEF SecurityScore, h
  <1>7. RiskLevel(SecurityScore(p, o, d)) = 0 => p >= 6
    BY <1>1, <1>2 DEF SecurityScore, h, RiskLevel
  <1>8. RiskLevel(SecurityScore(p, o, d)) = 3 => p <= 4
    BY <1>1, <1>2 DEF SecurityScore, h, RiskLevel
  <1>9. /\ assessment.score \in 0 .. 100
        /\ p > 0 => SecurityScore(p - 1, o, d) <= assessment.score
        /\ SecurityScore(p, TRUE, d) <= assessment.score
        /\ SecurityScore(p, o, TRUE) <= assessment.score
        /\ assessment.risk = 0 => p >= Recommended - 1
        /\ assessment.risk = 3 => p <= Recommended - 3
    <2>1. assessment.score = SecurityScore(p, o, d) /\ assessment.risk = RiskLevel(SecurityScore(p, o, d))
      BY <1>1
    <2>2. Recommended - 1 = 6 /\ Recommended - 3 = 4
      BY DEF Recommended
    <2> QED BY <1>3, <1>4, <1>5, <1>6, <1>7, <1>8, <2>1, <2>2, Zenon
  <1> QED BY <1>9, Zenon DEF GradeSound, p, o, d
-----------------------------------------------------------------------------
(* The search for a cycle among the dependencies D of a request, with the  *)
(* stack s and the marks v.                                                *)

NeededBy(D, i) == {D[i][j] : j \in DOMAIN D[i]}
Listed(l) == {l[j] : j \in DOMAIN l}
Settled(D, v) == {i \in DOMAIN D : v[i] = 2}

SearchTypes(D, s, v) ==
    /\ D \in Seq(Seq(Nat)) /\ v \in [DOMAIN D -> 0..2] /\ s \in Seq((DOMAIN D) \X Seq(Nat))
    /\ \A i \in DOMAIN D : NeededBy(D, i) \subseteq DOMAIN D

\* The tasks in progress are those on the stack, each once.
InProgress(D, s, v) ==
    /\ \A p \in 1..Len(s) : v[s[p][1]] = 1
    /\ \A i \in DOMAIN D : v[i] = 1 => \E p \in 1..Len(s) : s[p][1] = i
    /\ \A p, q \in 1..Len(s) : s[p][1] = s[q][1] => p = q

\* A task on the stack needs the next one, and what it needs besides is settled or
\* still to be looked at.
Chained(D, s, v) ==
    \A p \in 1..Len(s) :
      /\ Listed(s[p][2]) \subseteq NeededBy(D, s[p][1])
      /\ p + 1 \in 1..Len(s) => s[p + 1][1] \in NeededBy(D, s[p][1])
      /\ \A y \in NeededBy(D, s[p][1]) :
           y \in Listed(s[p][2]) \/ y \in Settled(D, v) \/ (p + 1 \in 1..Len(s) /\ y = s[p + 1][1])

\* f numbers the settled tasks, what a task needs before the task.
Numbers(D, v, f, m) ==
    \A x \in Settled(D, v) :
      f[x] <= m /\ \A y \in NeededBy(D, x) : y \in Settled(D, v) /\ f[y] < f[x]
Numbered(D, v) == \E f \in [DOMAIN D -> Nat] : \E m \in Nat : Numbers(D, v, f, m)

SearchInv(D, s, v) == SearchTypes(D, s, v) /\ InProgress(D, s, v) /\ Chained(D, s, v) /\ Numbered(D, v)

IsCircular(D) ==
    \E n \in 1..Len(D) : \E path \in [0..n -> DOMAIN D] :
      path[n] = path[0] /\ \A k \in 1..n : path[k] \in NeededBy(D, path[k - 1])

\* A list without its first is a list without that one.
LEMMA HeadAndTail ==
  ASSUME NEW l \in Seq(Nat), l # <<>>
  PROVE  Head(l) \in Listed(l) /\ Tail(l) \in Seq(Nat) /\ Listed(l) = {Head(l)} \cup Listed(Tail(l))
  <1>1. /\ Len(l) \in Nat \ {0} /\ DOMAIN l = 1..Len(l) /\ Head(l) = l[1]
        /\ Tail(l) \in Seq(Nat) /\ Len(Tail(l)) = Len(l) - 1 /\ DOMAIN Tail(l) = 1..(Len(l) - 1)
        /\ \A j \in 1..(Len(l) - 1) : Tail(l)[j] = l[j + 1]
    <2>1. Len(l) \in Nat \ {0} /\ DOMAIN l = 1..Len(l) /\ Head(l) = l[1]
      BY LenProperties, EmptySeq
    <2>2. Tail(l) \in Seq(Nat) /\ Len(Tail(l)) = Len(l) - 1 /\ \A j \in 1..Len(Tail(l)) : Tail(l)[j] = l[j + 1]
      BY HeadTailProperties
    <2>3. DOMAIN Tail(l) = 1..Len(Tail(l))
      BY <2>2, LenProperties
    <2> QED BY <2>1, <2>2, <2>3
  <1>2. ASSUME NEW j \in 1..Len(l) PROVE l[j] \in {Head(l)} \cup Listed(Tail(l))
    <2>1. CASE j = 1
      BY <1>1, <2>1
    <2>2. CASE j # 1
      <3>1. j - 1 \in 1..(Len(l) - 1) /\ (j - 1) + 1 = j
        BY <1>1, <2>2
      <3>2. Tail(l)[j - 1] = l[j]
        BY <1>1, <3>1
      <3> QED BY <1>1, <3>1, <3>2 DEF Listed
    <2> QED BY <2>1, <2>2
  <1>3. ASSUME NEW j \in 1..(Len(l) - 1) PROVE Tail(l)[j] \in Listed(l)
    <2>1. j + 1 \in 1..Len(l)
      BY <1>1
    <2> QED BY <1>1, <2>1 DEF Listed
  <1>4. Head(l) \in Listed(l)
    <2>1. 1 \in 1..Len(l)
      BY <1>1
    <2> QED BY <1>1, <2>1 DEF Listed
  <1>5. Listed(l) \subseteq {Head(l)} \cup Listed(Tail(l))
    BY <1>1, <1>2 DEF Listed
  <1>6. Listed(Tail(l)) \subseteq Listed(l)
    BY <1>1, <1>3 DEF Listed
  <1> QED BY <1>1, <1>4, <1>5, <1>6

\* The top of a stack is taken off, or replaced.
LEMMA TopOff ==
  ASSUME NEW E, NEW s \in Seq(E), s # <<>>
  PROVE  LET b == SubSeq(s, 1, Len(s) - 1) IN
         /\ Len(s) \in Nat \ {0} /\ b \in Seq(E) /\ Len(b) = Len(s) - 1
         /\ \A p \in 1..(Len(s) - 1) : b[p] = s[p]
  <1> DEFINE b == SubSeq(s, 1, Len(s) - 1)
  <1>1. Len(s) \in Nat \ {0}
    BY LenProperties, EmptySeq
  <1>2. 1 \in 1..(Len(s) + 1) /\ Len(s) - 1 \in 0..Len(s)
    BY <1>1
  <1>3. b \in Seq(E) /\ Len(b) = Len(s) - 1 /\ \A p \in 1..(Len(s) - 1) : b[p] = s[p]
    <2>1. /\ b \in Seq(E)
          /\ Len(b) = IF 1 <= Len(s) - 1 THEN (Len(s) - 1) - 1 + 1 ELSE 0
          /\ \A p \in 1..((Len(s) - 1) - 1 + 1) : b[p] = s[1 + p - 1]
      BY <1>1, <1>2, SubSeqProperties
    <2> HIDE DEF b
    <2>2. Len(b) = Len(s) - 1
      <3>1. CASE Len(s) = 1
        BY <2>1, <3>1
      <3>2. CASE Len(s) # 1
        <4>1. 1 <= Len(s) - 1 /\ (Len(s) - 1) - 1 + 1 = Len(s) - 1
          <5> DEFINE n == Len(s)
          <5>1. n \in Nat /\ n # 0 /\ n # 1
            BY <1>1, <3>2
          <5> HIDE DEF n
          <5>2. 1 <= n - 1 /\ (n - 1) - 1 + 1 = n - 1
            BY <5>1
          <5> QED BY <5>2 DEF n
        <4> QED BY <2>1, <4>1
      <3> QED BY <3>1, <3>2
    <2>3. ASSUME NEW p \in 1..(Len(s) - 1) PROVE b[p] = s[p]
      <3>1. p \in 1..((Len(s) - 1) - 1 + 1) /\ 1 + p - 1 = p
        BY <1>1
      <3> QED BY <2>1, <3>1
    <2> QED BY <2>1, <2>2, <2>3
  <1> QED BY <1>1, <1>3

\* Replacing the top of a stack leaves what is below.
LEMMA TopReplaced ==
  ASSUME NEW E, NEW s \in Seq(E), s # <<>>, NEW e \in E
  PROVE  LET r == Append(SubSeq(s, 1, Len(s) - 1), e) IN
         /\ Len(s) \in Nat \ {0} /\ r \in Seq(E) /\ Len(r) = Len(s) /\ r[Len(s)] = e
         /\ \A p \in 1..(Len(s) - 1) : r[p] = s[p]
  <1> DEFINE b == SubSeq(s, 1, Len(s) - 1)
             r == Append(b, e)
  <1>1. /\ Len(s) \in Nat \ {0} /\ b \in Seq(E) /\ Len(b) = Len(s) - 1
        /\ \A p \in 1..(Len(s) - 1) : b[p] = s[p]
    BY TopOff
  <1> HIDE DEF b
  <1>2. r \in Seq(E) /\ Len(r) = Len(b) + 1 /\ r[Len(b) + 1] = e /\ \A p \in 1..Len(b) : r[p] = b[p]
    BY <1>1, AppendProperties
  <1> HIDE DEF r
  <1>3. Len(b) + 1 = Len(s)
    BY <1>1
  <1>4. /\ Len(s) \in Nat \ {0} /\ r \in Seq(E) /\ Len(r) = Len(s) /\ r[Len(s)] = e
        /\ \A p \in 1..(Len(s) - 1) : r[p] = s[p]
    BY <1>1, <1>2, <1>3
  <1> QED BY <1>4 DEF r, b

\* The first task of a search is entered.
LEMMA EntersFirst ==
  ASSUME NEW D, NEW v, SearchInv(D, <<>>, v), NEW i \in DOMAIN D, v[i] = 0
  PROVE  SearchInv(D, <<<<i, D[i]>>>>, [v EXCEPT ![i] = 1])
  <1> DEFINE s == <<<<i, D[i]>>>>
             w == [v EXCEPT ![i] = 1]
  <1>0. /\ D \in Seq(Seq(Nat)) /\ v \in [DOMAIN D -> 0..2] /\ D[i] \in Seq(Nat)
        /\ \A x \in DOMAIN D : NeededBy(D, x) \subseteq DOMAIN D
        /\ \A x \in DOMAIN D : v[x] # 1
        /\ Numbered(D, v)
    BY ElementOfSeq, LenProperties DEF SearchInv, SearchTypes, InProgress
  <1>1. /\ s \in Seq((DOMAIN D) \X Seq(Nat)) /\ Len(s) = 1 /\ s[1] = <<i, D[i]>> /\ s[1][1] = i /\ s[1][2] = D[i]
    BY <1>0
  <1>2. /\ w \in [DOMAIN D -> 0..2] /\ w[i] = 1 /\ \A x \in DOMAIN D : x # i => w[x] = v[x]
    BY <1>0
  <1> HIDE DEF s, w
  <1>3. SearchTypes(D, s, w)
    BY <1>0, <1>1, <1>2 DEF SearchTypes
  <1>4. Settled(D, w) = Settled(D, v)
    BY <1>2 DEF Settled
  <1>5. InProgress(D, s, w)
    BY <1>0, <1>1, <1>2 DEF InProgress
  <1>6. Chained(D, s, w)
    BY <1>1 DEF Chained, Listed, NeededBy
  <1>7. Numbered(D, w)
    BY <1>0, <1>4 DEF Numbered, Numbers
  <1>8. SearchInv(D, s, w)
    BY <1>3, <1>5, <1>6, <1>7 DEF SearchInv
  <1> QED BY <1>8 DEF s, w

\* A task with nothing left to look at is settled.
LEMMA Leaves ==
  ASSUME NEW D, NEW s, NEW v, SearchInv(D, s, v), s # <<>>, s[Len(s)][2] = <<>>
  PROVE  SearchInv(D, SubSeq(s, 1, Len(s) - 1), [v EXCEPT ![s[Len(s)][1]] = 2])
  <1> DEFINE L == Len(s)
             i == s[L][1]
             b == SubSeq(s, 1, L - 1)
             w == [v EXCEPT ![i] = 2]
  <1>0. SearchTypes(D, s, v) /\ InProgress(D, s, v) /\ Chained(D, s, v) /\ Numbered(D, v)
    BY DEF SearchInv
  <1>1. /\ L \in Nat \ {0} /\ b \in Seq((DOMAIN D) \X Seq(Nat)) /\ Len(b) = L - 1
        /\ \A p \in 1..(L - 1) : b[p] = s[p]
    BY <1>0, TopOff DEF SearchTypes
  <1>2. \A p \in 1..L : s[p][1] \in DOMAIN D
    <2>1. \A p \in 1..L : s[p] \in (DOMAIN D) \X Seq(Nat)
      BY <1>0, ElementOfSeq DEF SearchTypes
    <2> QED BY <2>1
  <1>3. L \in 1..L /\ i \in DOMAIN D
    BY <1>1, <1>2
  <1>4. w \in [DOMAIN D -> 0..2] /\ w[i] = 2 /\ \A x \in DOMAIN D : x # i => w[x] = v[x]
    BY <1>0, <1>3 DEF SearchTypes
  <1>5. v[i] = 1
    BY <1>0, <1>3 DEF InProgress
  <1> HIDE DEF b, w
  <1>6. Settled(D, w) = Settled(D, v) \cup {i} /\ i \notin Settled(D, v)
    BY <1>3, <1>4, <1>5 DEF Settled
  <1>7. SearchTypes(D, b, w)
    BY <1>0, <1>1, <1>4 DEF SearchTypes
  <1>8. InProgress(D, b, w)
    <2>1. ASSUME NEW p \in 1..Len(b) PROVE w[b[p][1]] = 1
      <3>1. p \in 1..L /\ p # L /\ b[p] = s[p]
        BY <1>1
      <3>2. s[p][1] # i
        BY <1>0, <1>3, <3>1 DEF InProgress
      <3> QED BY <1>0, <1>2, <1>4, <3>1, <3>2 DEF InProgress
    <2>2. ASSUME NEW x \in DOMAIN D, w[x] = 1 PROVE \E p \in 1..Len(b) : b[p][1] = x
      <3>1. x # i /\ v[x] = 1
        BY <1>4, <2>2
      <3>2. PICK p \in 1..L : s[p][1] = x
        BY <1>0, <3>1 DEF InProgress
      <3>3. p \in 1..(L - 1)
        BY <1>1, <3>1, <3>2
      <3> QED BY <1>1, <3>2, <3>3
    <2>3. ASSUME NEW p \in 1..Len(b), NEW q \in 1..Len(b), b[p][1] = b[q][1] PROVE p = q
      <3>1. p \in 1..L /\ b[p] = s[p] /\ q \in 1..L /\ b[q] = s[q]
        BY <1>1
      <3> QED BY <1>0, <2>3, <3>1 DEF InProgress
    <2> QED BY <2>1, <2>2, <2>3 DEF InProgress
  <1>9. Chained(D, b, w)
    <2> SUFFICES ASSUME NEW p \in 1..Len(b)
                 PROVE  /\ Listed(b[p][2]) \subseteq NeededBy(D, b[p][1])
                        /\ p + 1 \in 1..Len(b) => b[p + 1][1] \in NeededBy(D, b[p][1])
                        /\ \A y \in NeededBy(D, b[p][1]) :
                             y \in Listed(b[p][2]) \/ y \in Settled(D, w) \/ (p + 1 \in 1..Len(b) /\ y = b[p + 1][1])
      BY DEF Chained
    <2>1. p \in 1..L /\ b[p] = s[p] /\ p + 1 \in 1..L /\ (p + 1 \in 1..Len(b) => b[p + 1] = s[p + 1])
          /\ (p + 1 \notin 1..Len(b) => p + 1 = L)
      BY <1>1, SMTT(20)
    <2>2. /\ Listed(s[p][2]) \subseteq NeededBy(D, s[p][1])
          /\ s[p + 1][1] \in NeededBy(D, s[p][1])
          /\ \A y \in NeededBy(D, s[p][1]) :
               y \in Listed(s[p][2]) \/ y \in Settled(D, v) \/ y = s[p + 1][1]
      BY <1>0, <2>1 DEF Chained
    <2> QED BY <1>6, <2>1, <2>2
  <1>10. Numbered(D, w)
    <2>1. PICK f \in [DOMAIN D -> Nat] : \E m \in Nat : Numbers(D, v, f, m)
      BY <1>0 DEF Numbered
    <2>2. PICK m \in Nat : Numbers(D, v, f, m)
      BY <2>1
    <2> DEFINE g == [f EXCEPT ![i] = m + 1]
    <2>3. g \in [DOMAIN D -> Nat] /\ g[i] = m + 1 /\ \A x \in Settled(D, v) : g[x] = f[x] /\ f[x] <= m /\ f[x] \in Nat
      BY <1>3, <1>6, <2>2 DEF Numbers, Settled
    <2>4. \A y \in NeededBy(D, i) : y \in Settled(D, v)
      <3>1. Listed(s[L][2]) = {}
        BY DEF Listed
      <3>2. L + 1 \notin 1..L
        BY <1>1
      <3> QED BY <1>0, <1>3, <3>1, <3>2 DEF Chained
    <2> HIDE DEF g
    <2>5. ASSUME NEW x \in Settled(D, w)
          PROVE  g[x] <= m + 1 /\ \A y \in NeededBy(D, x) : y \in Settled(D, w) /\ g[y] < g[x]
      <3>1. CASE x = i
        <4>1. g[x] = m + 1
          BY <2>3, <3>1
        <4>2. ASSUME NEW y \in NeededBy(D, x) PROVE y \in Settled(D, w) /\ g[y] < g[x]
          <5>1. y \in Settled(D, v)
            BY <2>4, <3>1
          <5>2. g[y] <= m /\ g[y] \in Nat
            BY <2>3, <5>1
          <5> QED BY <1>6, <4>1, <5>1, <5>2
        <4> QED BY <4>1, <4>2
      <3>2. CASE x # i
        <4>1. x \in Settled(D, v)
          BY <1>6, <3>2
        <4>2. g[x] <= m /\ g[x] \in Nat
          BY <2>3, <4>1
        <4>3. ASSUME NEW y \in NeededBy(D, x) PROVE y \in Settled(D, w) /\ g[y] < g[x]
          <5>1. y \in Settled(D, v) /\ f[y] < f[x]
            BY <2>2, <4>1 DEF Numbers
          <5> QED BY <1>6, <2>3, <4>1, <5>1
        <4> QED BY <4>2, <4>3
      <3> QED BY <3>1, <3>2
    <2>6. Numbers(D, w, g, m + 1)
      BY <2>5 DEF Numbers
    <2> QED BY <2>3, <2>6 DEF Numbered
  <1>11. SearchInv(D, b, w)
    BY <1>7, <1>8, <1>9, <1>10 DEF SearchInv
  <1> QED BY <1>11 DEF b, w

\* What a task needs next is settled already.
LEMMA Skips ==
  ASSUME NEW D, NEW s, NEW v, SearchInv(D, s, v), s # <<>>, s[Len(s)][2] # <<>>,
         v[Head(s[Len(s)][2])] = 2
  PROVE  SearchInv(D, Append(SubSeq(s, 1, Len(s) - 1), <<s[Len(s)][1], Tail(s[Len(s)][2])>>), v)
  <1> DEFINE L == Len(s)
             i == s[L][1]
             d == Head(s[L][2])
             e == <<i, Tail(s[L][2])>>
             r == Append(SubSeq(s, 1, L - 1), e)
  <1>0. SearchTypes(D, s, v) /\ InProgress(D, s, v) /\ Chained(D, s, v) /\ Numbered(D, v)
    BY DEF SearchInv
  <1>1. L \in Nat \ {0} /\ L \in 1..L
    BY <1>0, TopOff DEF SearchTypes
  <1>2. \A p \in 1..L : s[p][1] \in DOMAIN D /\ s[p][2] \in Seq(Nat)
    <2>1. \A p \in 1..L : s[p] \in (DOMAIN D) \X Seq(Nat)
      BY <1>0, ElementOfSeq DEF SearchTypes
    <2> QED BY <2>1
  <1>3. /\ d \in Listed(s[L][2]) /\ Tail(s[L][2]) \in Seq(Nat)
        /\ Listed(s[L][2]) = {d} \cup Listed(Tail(s[L][2]))
    BY <1>1, <1>2, HeadAndTail
  <1>4. d \in Settled(D, v)
    <2>1. d \in NeededBy(D, i)
      BY <1>0, <1>1, <1>3 DEF Chained
    <2> QED BY <1>0, <1>1, <1>2, <2>1 DEF SearchTypes, Settled
  <1>5. e \in (DOMAIN D) \X Seq(Nat) /\ e[1] = i /\ e[2] = Tail(s[L][2])
    BY <1>1, <1>2, <1>3
  <1>6. /\ r \in Seq((DOMAIN D) \X Seq(Nat)) /\ Len(r) = L /\ r[L] = e
        /\ \A p \in 1..(L - 1) : r[p] = s[p]
    <2>1. s \in Seq((DOMAIN D) \X Seq(Nat))
      BY <1>0 DEF SearchTypes
    <2> HIDE DEF e
    <2> QED BY <1>5, <2>1, TopReplaced
  <1> HIDE DEF r, e
  <1>7. ASSUME NEW p \in 1..L
        PROVE  r[p][1] = s[p][1] /\ (p # L => r[p] = s[p])
    <2>1. p # L => p \in 1..(L - 1)
      BY <1>1
    <2> QED BY <1>5, <1>6, <2>1
  <1>8. SearchTypes(D, r, v)
    BY <1>0, <1>6 DEF SearchTypes
  <1>9. InProgress(D, r, v)
    <2>1. \A p \in 1..L : v[r[p][1]] = 1
      BY <1>0, <1>7 DEF InProgress
    <2>2. ASSUME NEW x \in DOMAIN D, v[x] = 1 PROVE \E p \in 1..L : r[p][1] = x
      <3>1. PICK p \in 1..L : s[p][1] = x
        BY <1>0, <2>2 DEF InProgress
      <3> QED BY <1>7, <3>1
    <2>3. ASSUME NEW p \in 1..L, NEW q \in 1..L, r[p][1] = r[q][1] PROVE p = q
      <3>1. s[p][1] = s[q][1]
        BY <1>7, <2>3
      <3> QED BY <1>0, <3>1 DEF InProgress
    <2> QED BY <1>6, <2>1, <2>2, <2>3 DEF InProgress
  <1>10. Chained(D, r, v)
    <2> SUFFICES ASSUME NEW p \in 1..Len(r)
                 PROVE  /\ Listed(r[p][2]) \subseteq NeededBy(D, r[p][1])
                        /\ p + 1 \in 1..Len(r) => r[p + 1][1] \in NeededBy(D, r[p][1])
                        /\ \A y \in NeededBy(D, r[p][1]) :
                             y \in Listed(r[p][2]) \/ y \in Settled(D, v) \/ (p + 1 \in 1..Len(r) /\ y = r[p + 1][1])
      BY DEF Chained
    <2>1. /\ Listed(s[p][2]) \subseteq NeededBy(D, s[p][1])
          /\ p + 1 \in 1..L => s[p + 1][1] \in NeededBy(D, s[p][1])
          /\ \A y \in NeededBy(D, s[p][1]) :
               y \in Listed(s[p][2]) \/ y \in Settled(D, v) \/ (p + 1 \in 1..L /\ y = s[p + 1][1])
      BY <1>0, <1>6 DEF Chained
    <2>2. r[p][1] = s[p][1] /\ (p + 1 \in 1..L => r[p + 1][1] = s[p + 1][1])
      BY <1>6, <1>7
    <2>3. CASE p = L
      <3>1. r[p][2] = Tail(s[L][2]) /\ p + 1 \notin 1..L
        <4>1. p + 1 \notin 1..L
          BY <1>1, <2>3
        <4> QED BY <1>5, <1>6, <2>3, <4>1
      <3> QED BY <1>3, <1>4, <1>6, <2>1, <2>2, <2>3, <3>1
    <2>4. CASE p # L
      <3>1. r[p] = s[p]
        BY <1>6, <1>7, <2>4
      <3> QED BY <1>6, <2>1, <2>2, <3>1
    <2> QED BY <2>3, <2>4
  <1>11. SearchInv(D, r, v)
    BY <1>0, <1>8, <1>9, <1>10 DEF SearchInv
  <1> QED BY <1>11 DEF r, e

\* A task that was not visited is entered from the one that needs it.
LEMMA Descends ==
  ASSUME NEW D, NEW s, NEW v, SearchInv(D, s, v), s # <<>>, s[Len(s)][2] # <<>>,
         v[Head(s[Len(s)][2])] = 0
  PROVE  LET d == Head(s[Len(s)][2]) IN
           SearchInv(D, Append(Append(SubSeq(s, 1, Len(s) - 1), <<s[Len(s)][1], Tail(s[Len(s)][2])>>), <<d, D[d]>>),
                     [v EXCEPT ![d] = 1])
  <1> DEFINE L == Len(s)
             i == s[L][1]
             d == Head(s[L][2])
             e == <<i, Tail(s[L][2])>>
             r == Append(SubSeq(s, 1, L - 1), e)
             c == <<d, D[d]>>
             t == Append(r, c)
             w == [v EXCEPT ![d] = 1]
  <1>0. SearchTypes(D, s, v) /\ InProgress(D, s, v) /\ Chained(D, s, v) /\ Numbered(D, v)
    BY DEF SearchInv
  <1>1. L \in Nat \ {0} /\ L \in 1..L
    BY <1>0, TopOff DEF SearchTypes
  <1>2. \A p \in 1..L : s[p][1] \in DOMAIN D /\ s[p][2] \in Seq(Nat)
    <2>1. \A p \in 1..L : s[p] \in (DOMAIN D) \X Seq(Nat)
      BY <1>0, ElementOfSeq DEF SearchTypes
    <2> QED BY <2>1
  <1>3. /\ d \in Listed(s[L][2]) /\ Tail(s[L][2]) \in Seq(Nat)
        /\ Listed(s[L][2]) = {d} \cup Listed(Tail(s[L][2]))
    BY <1>1, <1>2, HeadAndTail
  <1>4. d \in NeededBy(D, i) /\ d \in DOMAIN D
    <2>1. d \in NeededBy(D, i)
      BY <1>0, <1>1, <1>3 DEF Chained
    <2> QED BY <1>0, <1>1, <1>2, <2>1 DEF SearchTypes
  <1>5. e \in (DOMAIN D) \X Seq(Nat) /\ e[1] = i /\ e[2] = Tail(s[L][2])
    BY <1>1, <1>2, <1>3
  <1>6. /\ r \in Seq((DOMAIN D) \X Seq(Nat)) /\ Len(r) = L /\ r[L] = e
        /\ \A p \in 1..(L - 1) : r[p] = s[p]
    <2>1. s \in Seq((DOMAIN D) \X Seq(Nat))
      BY <1>0 DEF SearchTypes
    <2> HIDE DEF e
    <2> QED BY <1>5, <2>1, TopReplaced
  <1>a. D[d] \in Seq(Nat) /\ c \in (DOMAIN D) \X Seq(Nat) /\ c[1] = d /\ c[2] = D[d]
    <2>1. D \in Seq(Seq(Nat))
      BY <1>0 DEF SearchTypes
    <2>2. D[d] \in Seq(Nat)
      BY <1>4, <2>1, ElementOfSeq, LenProperties
    <2> QED BY <1>4, <2>2
  <1> HIDE DEF r, e, c
  <1>b. /\ t \in Seq((DOMAIN D) \X Seq(Nat)) /\ Len(t) = L + 1 /\ t[L + 1] = c
        /\ \A p \in 1..L : t[p] = r[p]
    BY <1>6, <1>a, AppendProperties
  <1>d. w \in [DOMAIN D -> 0..2] /\ w[d] = 1 /\ \A x \in DOMAIN D : x # d => w[x] = v[x]
    BY <1>0, <1>4 DEF SearchTypes
  <1> HIDE DEF t, w
  <1>e. Settled(D, w) = Settled(D, v)
    BY <1>4, <1>d DEF Settled
  <1>7. ASSUME NEW p \in 1..L
        PROVE  t[p][1] = s[p][1] /\ (p # L => t[p] = s[p]) /\ s[p][1] # d
    <2>1. p # L => p \in 1..(L - 1)
      BY <1>1
    <2>2. s[p][1] # d
      BY <1>0 DEF InProgress
    <2> QED BY <1>5, <1>6, <1>b, <2>1, <2>2
  <1>f. ASSUME NEW p \in 1..(L + 1), p # L + 1 PROVE p \in 1..L
    BY <1>1, <1>f
  <1>g. t[L + 1][1] = d /\ t[L + 1][2] = D[d] /\ L + 1 \in 1..(L + 1) /\ \A p \in 1..L : p \in 1..(L + 1)
    BY <1>1, <1>a, <1>b
  <1>8. SearchTypes(D, t, w)
    BY <1>0, <1>b, <1>d DEF SearchTypes
  <1>9. InProgress(D, t, w)
    <2>1. ASSUME NEW p \in 1..(L + 1) PROVE w[t[p][1]] = 1
      <3>1. CASE p = L + 1
        BY <1>d, <1>g, <3>1
      <3>2. CASE p # L + 1
        <4>1. p \in 1..L
          BY <1>f, <3>2
        <4>2. v[s[p][1]] = 1 /\ s[p][1] \in DOMAIN D
          BY <1>0, <1>2, <4>1 DEF InProgress
        <4> QED BY <1>7, <1>d, <4>1, <4>2
      <3> QED BY <3>1, <3>2
    <2>2. ASSUME NEW x \in DOMAIN D, w[x] = 1 PROVE \E p \in 1..(L + 1) : t[p][1] = x
      <3>1. CASE x = d
        BY <1>g, <3>1
      <3>2. CASE x # d
        <4>1. v[x] = 1
          BY <1>d, <2>2, <3>2
        <4>2. PICK p \in 1..L : s[p][1] = x
          BY <1>0, <4>1 DEF InProgress
        <4> QED BY <1>7, <1>g, <4>2
      <3> QED BY <3>1, <3>2
    <2>3. ASSUME NEW p \in 1..(L + 1), NEW q \in 1..(L + 1), t[p][1] = t[q][1] PROVE p = q
      <3>1. CASE p \in 1..L /\ q \in 1..L
        <4>1. s[p][1] = s[q][1]
          BY <1>7, <2>3, <3>1
        <4> QED BY <1>0, <3>1, <4>1 DEF InProgress
      <3>2. CASE p = L + 1 /\ q \in 1..L
        BY <1>7, <1>g, <2>3, <3>2
      <3>3. CASE p \in 1..L /\ q = L + 1
        BY <1>7, <1>g, <2>3, <3>3
      <3> QED BY <1>f, <3>1, <3>2, <3>3
    <2> QED BY <1>b, <2>1, <2>2, <2>3 DEF InProgress
  <1>10. Chained(D, t, w)
    <2> SUFFICES ASSUME NEW p \in 1..(L + 1)
                 PROVE  /\ Listed(t[p][2]) \subseteq NeededBy(D, t[p][1])
                        /\ p + 1 \in 1..(L + 1) => t[p + 1][1] \in NeededBy(D, t[p][1])
                        /\ \A y \in NeededBy(D, t[p][1]) :
                             y \in Listed(t[p][2]) \/ y \in Settled(D, v) \/ (p + 1 \in 1..(L + 1) /\ y = t[p + 1][1])
      BY <1>b, <1>e DEF Chained
    <2>0. CASE p = L + 1
      <3>1. p + 1 \notin 1..(L + 1)
        BY <1>1, <2>0
      <3>2. Listed(D[d]) = NeededBy(D, d)
        BY DEF Listed, NeededBy
      <3> QED BY <1>g, <2>0, <3>1, <3>2
    <2>1. ASSUME p \in 1..L
          PROVE  /\ Listed(s[p][2]) \subseteq NeededBy(D, s[p][1])
                 /\ p + 1 \in 1..L => s[p + 1][1] \in NeededBy(D, s[p][1])
                 /\ \A y \in NeededBy(D, s[p][1]) :
                      y \in Listed(s[p][2]) \/ y \in Settled(D, v) \/ (p + 1 \in 1..L /\ y = s[p + 1][1])
      BY <1>0, <2>1 DEF Chained
    <2>3. CASE p = L
      <3>1. p \in 1..L /\ t[p][2] = Tail(s[L][2]) /\ t[p][1] = i /\ p + 1 \notin 1..L /\ p + 1 = L + 1
        <4>1. p \in 1..L /\ p + 1 \notin 1..L /\ p + 1 = L + 1
          BY <1>1, <2>3
        <4>2. t[p] = e
          BY <1>6, <1>b, <2>3, <4>1
        <4> QED BY <1>5, <4>1, <4>2
      <3>2. t[p + 1][1] = d
        BY <1>g, <3>1
      <3> QED BY <1>3, <1>4, <1>g, <2>1, <2>3, <3>1, <3>2
    <2>4. CASE p # L /\ p # L + 1
      <3>1. p \in 1..L /\ p + 1 \in 1..L /\ p + 1 \in 1..(L + 1)
        BY <1>1, <2>4
      <3>2. t[p] = s[p] /\ t[p + 1][1] = s[p + 1][1]
        BY <1>7, <2>4, <3>1
      <3> QED BY <2>1, <3>1, <3>2
    <2> QED BY <2>0, <2>3, <2>4
  <1>11. Numbered(D, w)
    BY <1>0, <1>e DEF Numbered, Numbers
  <1>12. SearchInv(D, t, w)
    BY <1>8, <1>9, <1>10, <1>11 DEF SearchInv
  <1> QED BY <1>12 DEF t, r, e, c, w

\* What a task needs is in progress: the tasks from there to the top of the stack
\* are a cycle, and there are no more of them than tasks.
LEMMA ClosesCircle ==
  ASSUME NEW D, NEW s, NEW v, SearchInv(D, s, v), s # <<>>, s[Len(s)][2] # <<>>,
         v[Head(s[Len(s)][2])] = 1
  PROVE  IsCircular(D)
  <1> DEFINE L == Len(s)
             d == Head(s[L][2])
  <1>0. SearchTypes(D, s, v) /\ InProgress(D, s, v) /\ Chained(D, s, v)
    BY DEF SearchInv
  <1>1. L \in Nat \ {0} /\ L \in 1..L
    BY <1>0, TopOff DEF SearchTypes
  <1>2. \A p \in 1..L : s[p][1] \in DOMAIN D /\ s[p][2] \in Seq(Nat)
    <2>1. \A p \in 1..L : s[p] \in (DOMAIN D) \X Seq(Nat)
      BY <1>0, ElementOfSeq DEF SearchTypes
    <2> QED BY <2>1
  <1>3. d \in Listed(s[L][2])
    BY <1>1, <1>2, HeadAndTail
  <1>4. d \in NeededBy(D, s[L][1]) /\ d \in DOMAIN D
    <2>1. d \in NeededBy(D, s[L][1])
      BY <1>0, <1>1, <1>3 DEF Chained
    <2> QED BY <1>0, <1>1, <1>2, <2>1 DEF SearchTypes
  <1>5. PICK q \in 1..L : s[q][1] = d
    BY <1>0, <1>4 DEF InProgress
  <1>6. Len(D) \in Nat /\ DOMAIN D = 1..Len(D)
    BY <1>0, LenProperties DEF SearchTypes
  <1> HIDE DEF d
  <1>7. L <= Len(D)
    <2> DEFINE h == [p \in 1..L |-> s[p][1]]
    <2>1. h \in Injection(1..L, DOMAIN D)
      BY <1>0, <1>2 DEF Injection, IsInjective, InProgress
    <2>2. IsFiniteSet(DOMAIN D) /\ Cardinality(DOMAIN D) = Len(D)
      <3> DEFINE m == Len(D)
      <3>1. m \in Nat /\ DOMAIN D = 1..m
        BY <1>6
      <3> HIDE DEF m
      <3>2. IsFiniteSet(1..m) /\ Cardinality(1..m) = m
        BY <3>1, FS_Interval
      <3> QED BY <3>1, <3>2 DEF m
    <2> HIDE DEF h, L
    <2>3. Cardinality(1..L) = L
      BY <1>1, FS_Interval
    <2> QED BY <2>1, <2>2, <2>3, FS_Injection
  <1> DEFINE n == L - q + 1
             path == [k \in 0..n |-> IF k = n THEN d ELSE s[q + k][1]]
  <1>8. n \in 1..Len(D) /\ n \in Nat /\ q + (n - 1) = L
    BY <1>1, <1>6, <1>7
  <1>9. \A k \in 0..n : k # n => q + k \in 1..L
    BY <1>1
  <1>10. path \in [0..n -> DOMAIN D] /\ path[n] = d /\ \A k \in 0..n : k # n => path[k] = s[q + k][1]
    <2>1. n \in 0..n
      BY <1>8
    <2> HIDE DEF n
    <2> QED BY <1>2, <1>4, <1>9, <2>1
  <1>11. path[0] = d
    <2>1. 0 \in 0..n /\ 0 # n /\ q + 0 = q
      BY <1>8
    <2> HIDE DEF n, path
    <2> QED BY <1>5, <1>10, <2>1
  <1>12. ASSUME NEW k \in 1..n PROVE path[k] \in NeededBy(D, path[k - 1])
    <2>1. k \in 0..n /\ k - 1 \in 0..n /\ k - 1 # n
      BY <1>8
    <2>2. path[k - 1] = s[q + (k - 1)][1]
      <3> HIDE DEF path, n
      <3> QED BY <1>10, <2>1
    <2>3. CASE k = n
      <3>1. q + (k - 1) = L /\ path[k] = d
        BY <1>8, <1>10, <2>3
      <3> QED BY <1>4, <2>2, <3>1
    <2>4. CASE k # n
      <3>1. path[k] = s[q + k][1] /\ q + k \in 1..L
        BY <1>9, <1>10, <2>1, <2>4
      <3>2. q + (k - 1) \in 1..L /\ (q + (k - 1)) + 1 = q + k
        BY <1>9, <2>1
      <3>3. s[(q + (k - 1)) + 1][1] \in NeededBy(D, s[q + (k - 1)][1])
        BY <1>0, <3>1, <3>2 DEF Chained
      <3> HIDE DEF path
      <3> QED BY <2>2, <3>1, <3>2, <3>3
    <2> QED BY <2>3, <2>4
  <1> HIDE DEF n, path
  <1> QED BY <1>8, <1>10, <1>11, <1>12 DEF IsCircular

\* When every task is settled nothing comes back: the numbers fall along a path.
LEMMA AllSettled ==
  ASSUME NEW D, NEW v, SearchInv(D, <<>>, v), \A i \in DOMAIN D : v[i] # 0
  PROVE  ~IsCircular(D)
  <1>0. SearchTypes(D, <<>>, v) /\ InProgress(D, <<>>, v) /\ Numbered(D, v)
    BY DEF SearchInv
  <1>1. \A i \in DOMAIN D : v[i] = 2
    <2>1. \A i \in DOMAIN D : v[i] # 1
      BY <1>0 DEF InProgress
    <2>2. \A i \in DOMAIN D : v[i] \in 0..2
      BY <1>0 DEF SearchTypes
    <2> QED BY <2>1, <2>2
  <1>2. Settled(D, v) = DOMAIN D
    BY <1>1 DEF Settled
  <1>3. PICK f \in [DOMAIN D -> Nat] : \E m \in Nat : Numbers(D, v, f, m)
    BY <1>0 DEF Numbered
  <1>4. \A x \in DOMAIN D : \A y \in NeededBy(D, x) : y \in DOMAIN D /\ f[y] < f[x]
    BY <1>2, <1>3 DEF Numbers
  <1> SUFFICES ASSUME NEW n \in 1..Len(D), NEW path \in [0..n -> DOMAIN D],
                      path[n] = path[0], \A k \in 1..n : path[k] \in NeededBy(D, path[k - 1])
               PROVE  FALSE
    BY DEF IsCircular
  <1>5. n \in Nat /\ n >= 1
    BY <1>0, LenProperties DEF SearchTypes
  <1> DEFINE W == {k \in Nat : k <= n => f[path[k]] + k <= f[path[0]]}
  <1>6. 0 \in W
    <2>1. 0 \in 0..n
      BY <1>5
    <2>2. f[path[0]] \in Nat
      BY <2>1
    <2> QED BY <2>2
  <1>7. ASSUME NEW k \in Nat, k \in W PROVE k + 1 \in W
    <2> SUFFICES ASSUME k + 1 <= n PROVE f[path[k + 1]] + (k + 1) <= f[path[0]]
      OBVIOUS
    <2>1. k <= n /\ k \in 0..n /\ k + 1 \in 1..n /\ k + 1 \in 0..n /\ (k + 1) - 1 = k /\ 0 \in 0..n
      BY <1>5
    <2>2. f[path[k + 1]] < f[path[k]]
      BY <1>4, <2>1
    <2>3. f[path[k + 1]] \in Nat /\ f[path[k]] \in Nat /\ f[path[0]] \in Nat
      BY <2>1
    <2>4. f[path[k]] + k <= f[path[0]]
      BY <1>7, <2>1
    <2> QED BY <2>2, <2>3, <2>4, SMTT(20)
  <1>8. n \in W
    <2> HIDE DEF W
    <2> QED BY <1>5, <1>6, <1>7, SetInduction
  <1>9. f[path[n]] + n <= f[path[0]] /\ f[path[n]] = f[path[0]] /\ f[path[0]] \in Nat
    <2>1. 0 \in 0..n
      BY <1>5
    <2> QED BY <1>5, <1>8, <2>1
  <1> QED BY <1>5, <1>9

\* What is known of a request at each stage.
StageInv ==
    /\ stage \in {"validate", "search", "run", "answered"}
    /\ stage = "validate" => request.kind = "crew" /\ stack = <<>> /\ visited = [i \in DOMAIN request.deps |-> 0]
    /\ stage = "search" => request.kind = "crew" /\ InRange /\ SearchInv(request.deps, stack, visited)
    /\ stage = "run" /\ request.kind = "crew" => InRange /\ ~IsCircular(request.deps)
    /\ stage = "answered" /\ request.kind = "crew" =>
         (response.code = 400 <=> ~(InRange /\ ~IsCircular(request.deps)))
    /\ stage = "answered" /\ request.kind = "a2a" => (response.code = 400 <=> ~A2aInRange)

PostInv ==
    /\ process[1] = "parallel" => process[2] \in 1..MaxConcurrency
    /\ callback =>
         /\ stage = "answered" /\ response = [code |-> 200, status |-> "completed"]
         /\ ~Private(request.url)

RequestInv ==
    /\ request.deps \in Seq(Seq(Nat)) /\ request.concurrency \in Nat
    /\ StageInv /\ PostInv

\* At first no task is visited.
LEMMA RequestBegins ==
  ASSUME NEW r, r.deps \in Seq(Seq(Nat)), r.concurrency \in Nat, RequestStart(r)
  PROVE  RequestInv
  <1>1. /\ request = r /\ stack = <<>> /\ visited = [i \in DOMAIN request.deps |-> 0]
        /\ process = <<"sequential", 0>> /\ callback = FALSE
        /\ stage = IF request.kind = "crew" THEN "validate" ELSE "run"
    BY DEF RequestStart
  <1>2. StageInv
    BY <1>1 DEF StageInv
  <1>3. process[1] = "sequential" /\ "sequential" # "parallel"
    BY <1>1
  <1>4. PostInv
    BY <1>1, <1>3 DEF PostInv
  <1> QED BY <1>1, <1>2, <1>4 DEF RequestInv

\* Nothing is visited when the search begins.
LEMMA SearchBegins ==
  ASSUME NEW D \in Seq(Seq(Nat)), \A i \in DOMAIN D : NeededBy(D, i) \subseteq DOMAIN D
  PROVE  SearchInv(D, <<>>, [i \in DOMAIN D |-> 0])
  <1> DEFINE v == [i \in DOMAIN D |-> 0]
  <1>1. v \in [DOMAIN D -> 0..2] /\ \A i \in DOMAIN D : v[i] = 0
    OBVIOUS
  <1>2. <<>> \in Seq((DOMAIN D) \X Seq(Nat)) /\ 1..Len(<<>>) = {}
    OBVIOUS
  <1> HIDE DEF v
  <1>3. SearchTypes(D, <<>>, v)
    BY <1>1, <1>2 DEF SearchTypes
  <1>4. InProgress(D, <<>>, v) /\ Chained(D, <<>>, v)
    BY <1>1, <1>2 DEF InProgress, Chained
  <1>5. Settled(D, v) = {}
    BY <1>1 DEF Settled
  <1>6. Numbers(D, v, [i \in DOMAIN D |-> 0], 0)
    BY <1>5 DEF Numbers
  <1>7. Numbered(D, v)
    BY <1>6 DEF Numbered
  <1>8. SearchInv(D, <<>>, v)
    BY <1>3, <1>4, <1>7 DEF SearchInv
  <1> QED BY <1>8 DEF v

\* Stages of an unchanged request.
LEMMA RangeStays ==
  ASSUME request' = request
  PROVE  InRange' = InRange /\ A2aInRange' = A2aInRange /\ Private(request.url)' = Private(request.url)
  <1>1. InRange' = InRange
    BY DEF InRange, Tasks
  <1>2. A2aInRange' = A2aInRange
    BY DEF A2aInRange
  <1>3. Private(request.url)' = Private(request.url)
    OBVIOUS
  <1> QED BY <1>1, <1>2, <1>3

\* Every step of the validation keeps the search.
LEMMA RequestKeeps ==
  ASSUME RequestInv, [RequestNext]_requestVars
  PROVE  RequestInv'
  <1>0. request.deps \in Seq(Seq(Nat)) /\ request.concurrency \in Nat /\ StageInv /\ PostInv
    BY DEF RequestInv
  <1>1. CASE UNCHANGED requestVars
    <2>1. UNCHANGED <<request, stage, stack, visited, process, response, callback>> /\ InRange' = InRange
          /\ A2aInRange' = A2aInRange /\ Private(request.url)' = Private(request.url)
      BY <1>1, RangeStays DEF requestVars
    <2>2. StageInv'
      BY <1>0, <2>1 DEF StageInv
    <2>3. PostInv'
      BY <1>0, <2>1 DEF PostInv
    <2> QED BY <1>0, <2>1, <2>2, <2>3 DEF RequestInv
  <1>2. CASE Validate
    <2>1. /\ stage = "validate" /\ UNCHANGED <<request, stack, visited, process, callback>>
          /\ IF InRange THEN stage' = "search" /\ UNCHANGED response
             ELSE stage' = "answered" /\ response' = [code |-> 400, status |-> "refused"]
      BY <1>2 DEF Validate, Respond
    <2>2. InRange' = InRange
      BY <2>1, RangeStays
    <2>3. request.kind = "crew" /\ stack = <<>> /\ visited = [i \in DOMAIN request.deps |-> 0] /\ ~callback
      BY <1>0, <2>1 DEF StageInv, PostInv
    <2>4. PostInv'
      BY <1>0, <2>1, <2>3 DEF PostInv
    <2>5. CASE InRange
      <3>1. \A i \in DOMAIN request.deps : NeededBy(request.deps, i) \subseteq DOMAIN request.deps
        BY <2>5 DEF InRange, Tasks, NeededBy
      <3>2. SearchInv(request.deps, stack, visited)
        BY <1>0, <2>3, <3>1, SearchBegins
      <3>3. StageInv'
        BY <2>1, <2>2, <2>3, <2>5, <3>2 DEF StageInv
      <3> QED BY <1>0, <2>1, <2>4, <3>3 DEF RequestInv
    <2>6. CASE ~InRange
      <3>1. StageInv'
        BY <2>1, <2>2, <2>3, <2>6 DEF StageInv
      <3> QED BY <1>0, <2>1, <2>4, <3>1 DEF RequestInv
    <2> QED BY <2>5, <2>6
  <1>3. CASE SearchTurn
    <2>1. stage = "search" /\ UNCHANGED <<request, process, callback>>
      BY <1>3 DEF SearchTurn
    <2>2. InRange' = InRange
      BY <2>1, RangeStays
    <2>3. request.kind = "crew" /\ InRange /\ SearchInv(request.deps, stack, visited) /\ ~callback
      BY <1>0, <2>1 DEF StageInv, PostInv
    <2>4. PostInv'
      BY <1>0, <2>1, <2>3 DEF PostInv
    <2>5. ASSUME UNCHANGED stage, SearchInv(request.deps, stack', visited') PROVE RequestInv'
      <3>1. SearchInv(request.deps, stack, visited)'
        BY <2>1, <2>5
      <3>2. StageInv'
        BY <2>1, <2>2, <2>3, <2>5, <3>1 DEF StageInv
      <3> QED BY <1>0, <2>1, <2>4, <3>2 DEF RequestInv
    <2>6. CASE stack = <<>> /\ Unvisited = {}
      <3>1. stage' = "run"
        BY <1>3, <2>6 DEF SearchTurn
      <3>2. \A i \in DOMAIN request.deps : visited[i] # 0
        BY <2>6 DEF Unvisited, Tasks
      <3>3. ~IsCircular(request.deps)
        BY <2>3, <2>6, <3>2, AllSettled
      <3>4. StageInv'
        BY <2>1, <2>2, <2>3, <3>1, <3>3 DEF StageInv
      <3> QED BY <1>0, <2>1, <2>4, <3>4 DEF RequestInv
    <2>7. CASE stack = <<>> /\ Unvisited # {}
      <3> DEFINE i == CHOOSE i \in Unvisited : \A j \in Unvisited : i <= j
      <3>1. stack' = <<<<i, request.deps[i]>>>> /\ visited' = [visited EXCEPT ![i] = 1] /\ UNCHANGED stage
        BY <1>3, <2>7 DEF SearchTurn, Enter
      <3>2. Unvisited \in SUBSET Nat
        BY <1>0, LenProperties DEF Unvisited, Tasks
      <3>3. i \in Unvisited
        BY <2>7, <3>2, LeastNat
      <3> HIDE DEF i
      <3>4. i \in DOMAIN request.deps /\ visited[i] = 0
        BY <3>3 DEF Unvisited, Tasks
      <3>5. SearchInv(request.deps, stack', visited')
        BY <2>3, <2>7, <3>1, <3>4, EntersFirst
      <3> QED BY <2>5, <3>1, <3>5
    <2>8. CASE stack # <<>> /\ stack[Len(stack)][2] = <<>>
      <3>1. /\ stack' = SubSeq(stack, 1, Len(stack) - 1) /\ visited' = [visited EXCEPT ![stack[Len(stack)][1]] = 2]
            /\ UNCHANGED stage
        BY <1>3, <2>8 DEF SearchTurn
      <3>2. SearchInv(request.deps, stack', visited')
        BY <2>3, <2>8, <3>1, Leaves
      <3> QED BY <2>5, <3>1, <3>2
    <2>9. CASE stack # <<>> /\ stack[Len(stack)][2] # <<>>
      <3> DEFINE top == stack[Len(stack)]
                 d == Head(top[2])
                 rest == Append(SubSeq(stack, 1, Len(stack) - 1), <<top[1], Tail(top[2])>>)
      <3>1. IF visited[d] = 1
            THEN /\ stage' = "answered" /\ response' = [code |-> 400, status |-> "refused"]
            ELSE /\ stack' = IF visited[d] = 0 THEN Append(rest, <<d, request.deps[d]>>) ELSE rest
                 /\ visited' = [visited EXCEPT ![d] = IF @ = 0 THEN 1 ELSE @]
                 /\ UNCHANGED stage
        BY <1>3, <2>9 DEF SearchTurn, ClosesCycle, Respond, Enter
      <3>2. visited \in [DOMAIN request.deps -> 0..2] /\ d \in DOMAIN request.deps
        <4>1. SearchTypes(request.deps, stack, visited) /\ Chained(request.deps, stack, visited)
          BY <2>3 DEF SearchInv
        <4>2. stack \in Seq((DOMAIN request.deps) \X Seq(Nat)) /\ Len(stack) \in 1..Len(stack)
          BY <2>9, <4>1, TopOff DEF SearchTypes
        <4>3. top \in (DOMAIN request.deps) \X Seq(Nat)
          BY <4>2, ElementOfSeq
        <4>4. top[1] \in DOMAIN request.deps /\ top[2] \in Seq(Nat)
          BY <4>3
        <4>5. d \in Listed(top[2])
          BY <2>9, <4>4, HeadAndTail
        <4>6. d \in NeededBy(request.deps, top[1])
          BY <4>1, <4>2, <4>5 DEF Chained
        <4> QED BY <4>1, <4>4, <4>6 DEF SearchTypes
      <3>3. CASE visited[d] = 1
        <4>1. IsCircular(request.deps)
          BY <2>3, <2>9, <3>3, ClosesCircle
        <4>2. stage' = "answered" /\ response'.code = 400
          BY <3>1, <3>3
        <4>3. StageInv'
          BY <2>1, <2>2, <2>3, <4>1, <4>2 DEF StageInv
        <4> QED BY <1>0, <2>1, <2>4, <4>3 DEF RequestInv
      <3>4. CASE visited[d] = 2
        <4>1. visited' = visited /\ stack' = rest /\ UNCHANGED stage
          <5>1. visited' = [visited EXCEPT ![d] = visited[d]] /\ stack' = rest /\ UNCHANGED stage
            BY <3>1, <3>4
          <5> HIDE DEF d, rest
          <5> QED BY <3>2, <5>1
        <4>2. SearchInv(request.deps, rest, visited)
          BY <2>3, <2>9, <3>4, Skips
        <4> HIDE DEF rest
        <4> QED BY <2>5, <4>1, <4>2
      <3>5. CASE visited[d] = 0
        <4>1. /\ visited' = [visited EXCEPT ![d] = 1] /\ stack' = Append(rest, <<d, request.deps[d]>>)
              /\ UNCHANGED stage
          <5> HIDE DEF rest, d
          <5> QED BY <3>1, <3>5
        <4>2. SearchInv(request.deps, Append(rest, <<d, request.deps[d]>>), [visited EXCEPT ![d] = 1])
          BY <2>3, <2>9, <3>5, Descends
        <4> HIDE DEF rest, d
        <4> QED BY <2>5, <4>1, <4>2
      <3>6. visited[d] \in {0, 1, 2}
        <4> HIDE DEF d
        <4> QED BY <3>2
      <3> QED BY <3>3, <3>4, <3>5, <3>6
    <2> QED BY <2>6, <2>7, <2>8, <2>9
  <1>4. CASE AnswerMcp
    <2>1. /\ stage = "run" /\ request.kind = "mcp" /\ stage' = "answered"
          /\ UNCHANGED <<request, stack, visited, process, callback>>
      BY <1>4 DEF AnswerMcp, Respond
    <2>2. StageInv'
      BY <2>1 DEF StageInv
    <2>3. ~callback
      BY <1>0, <2>1 DEF PostInv
    <2>4. PostInv'
      BY <1>0, <2>1, <2>3 DEF PostInv
    <2> QED BY <1>0, <2>1, <2>2, <2>4 DEF RequestInv
  <1>5. ASSUME NEW result \in {"completed", "failed", "cancelled", "error"}, RunAndAnswer(result) PROVE RequestInv'
    <2>1. /\ stage = "run" /\ stage' = "answered" /\ UNCHANGED <<request, stack, visited>>
          /\ process' = IF request.kind = "crew" THEN Mode(request) ELSE <<"sequential", 0>>
          /\ response' = [code |-> IF result = "error" THEN 500 ELSE 200,
                          status |-> IF result = "error" THEN "failed"
                                     ELSE IF request.kind = "crew" THEN result ELSE "completed"]
          /\ callback' = (request.kind = "a2a" /\ result # "error" /\ SafeUrl(request.url))
      BY <1>5 DEF RunAndAnswer, Respond
    <2>2. /\ InRange' = InRange /\ A2aInRange' = A2aInRange /\ Private(request.url)' = Private(request.url)
          /\ request.kind = "a2a" => A2aInRange
      BY <1>5, <2>1, RangeStays DEF RunAndAnswer
    <2>3. response'.code # 400
      BY <2>1
    <2>4. StageInv'
      BY <1>0, <2>1, <2>2, <2>3 DEF StageInv
    <2>5. Clamped(request.concurrency) \in 1..MaxConcurrency
      BY <1>0, RequestsAssumption DEF Clamped
    <2>6. process'[1] = "parallel" => process'[2] \in 1..MaxConcurrency
      <3>1. CASE request.kind = "crew" /\ request.process = "parallel"
        BY <2>1, <2>5, <3>1 DEF Mode
      <3>2. CASE request.kind = "crew" /\ request.process # "parallel"
        BY <2>1, <3>2 DEF Mode
      <3>3. CASE request.kind # "crew"
        BY <2>1, <3>3
      <3> QED BY <3>1, <3>2, <3>3
    <2>7. callback' => response' = [code |-> 200, status |-> "completed"] /\ ~Private(request.url)
      <3> SUFFICES ASSUME callback'
                   PROVE  response' = [code |-> 200, status |-> "completed"] /\ ~Private(request.url)
        OBVIOUS
      <3>1. request.kind = "a2a" /\ result # "error" /\ SafeUrl(request.url)
        BY <2>1
      <3> QED BY <2>1, <3>1 DEF SafeUrl
    <2>8. PostInv'
      BY <2>1, <2>2, <2>6, <2>7 DEF PostInv
    <2> QED BY <1>0, <2>1, <2>4, <2>8 DEF RequestInv
  <1>6. CASE RefuseA2a
    <2>1. /\ stage = "run" /\ request.kind = "a2a" /\ ~A2aInRange /\ stage' = "answered"
          /\ response' = [code |-> 400, status |-> "failed"]
          /\ UNCHANGED <<request, stack, visited, process, callback>>
      BY <1>6 DEF RefuseA2a, Respond
    <2>2. A2aInRange' = A2aInRange /\ response'.code = 400
      BY <2>1, RangeStays
    <2>3. StageInv'
      BY <2>1, <2>2 DEF StageInv
    <2>4. ~callback
      BY <1>0, <2>1 DEF PostInv
    <2>5. PostInv'
      BY <1>0, <2>1, <2>4 DEF PostInv
    <2> QED BY <1>0, <2>1, <2>3, <2>5 DEF RequestInv
  <1> QED BY <1>1, <1>2, <1>3, <1>4, <1>5, <1>6 DEF RequestNext

\* So a request is refused exactly when it should be.
LEMMA RequestSays ==
  ASSUME RequestInv
  PROVE  ValidatedExactly
  <1>1. request.deps \in Seq(Seq(Nat)) /\ StageInv /\ PostInv
    BY DEF RequestInv
  <1>2. Circular <=> IsCircular(request.deps)
    <2>1. ASSUME NEW path, NEW k
          PROVE  (\E j \in DOMAIN request.deps[path[k - 1]] : request.deps[path[k - 1]][j] = path[k])
                   <=> path[k] \in NeededBy(request.deps, path[k - 1])
      BY DEF NeededBy
    <2>2. ASSUME Circular PROVE IsCircular(request.deps)
      <3>1. PICK n \in 1..Len(request.deps) : \E path \in [0..n -> DOMAIN request.deps] :
              /\ path[n] = path[0]
              /\ \A k \in 1..n : \E j \in DOMAIN request.deps[path[k - 1]] : request.deps[path[k - 1]][j] = path[k]
        BY <2>2 DEF Circular, Tasks
      <3>2. PICK path \in [0..n -> DOMAIN request.deps] :
              /\ path[n] = path[0]
              /\ \A k \in 1..n : \E j \in DOMAIN request.deps[path[k - 1]] : request.deps[path[k - 1]][j] = path[k]
        BY <3>1
      <3>3. path[n] = path[0] /\ \A k \in 1..n : path[k] \in NeededBy(request.deps, path[k - 1])
        BY <2>1, <3>2
      <3> QED BY <3>3 DEF IsCircular
    <2>3. ASSUME IsCircular(request.deps) PROVE Circular
      <3>1. PICK n \in 1..Len(request.deps) : \E path \in [0..n -> DOMAIN request.deps] :
              path[n] = path[0] /\ \A k \in 1..n : path[k] \in NeededBy(request.deps, path[k - 1])
        BY <2>3 DEF IsCircular
      <3>2. PICK path \in [0..n -> DOMAIN request.deps] :
              path[n] = path[0] /\ \A k \in 1..n : path[k] \in NeededBy(request.deps, path[k - 1])
        BY <3>1
      <3>3. /\ path[n] = path[0]
            /\ \A k \in 1..n : \E j \in DOMAIN request.deps[path[k - 1]] : request.deps[path[k - 1]][j] = path[k]
        BY <2>1, <3>2
      <3> QED BY <3>3 DEF Circular, Tasks
    <2> QED BY <2>2, <2>3
  <1> QED BY <1>1, <1>2 DEF ValidatedExactly, StageInv, PostInv
-----------------------------------------------------------------------------
(* Loading a directory.                                                    *)

\* A sequence over a set is one over every larger set.
LEMMA SeqOfMore ==
  ASSUME NEW A, NEW B, A \subseteq B, NEW s \in Seq(A)
  PROVE  s \in Seq(B)
  OBVIOUS

\* The walk: what has been passed is loaded, is not wanted or is gone.
LoaderInv ==
    /\ dir \in Seq({dir[i] : i \in DOMAIN dir})
    /\ next \in 1 .. Len(dir) + 1 /\ checked \in BOOLEAN
    /\ loaded \in Seq(1 .. next - 1)
    /\ \A i \in DOMAIN loaded : Wanted(dir[loaded[i]]) /\ dir[loaded[i]].valid
    /\ \A i \in DOMAIN loaded : \A j \in 1 .. i - 1 : loaded[j] < loaded[i]
    /\ \A i \in (1 .. next - 1) \ removed :
          dir[i].file /\ Wanted(dir[i]) => \E n \in DOMAIN loaded : loaded[n] = i
    /\ checked => next <= Len(dir) /\ Wanted(dir[next])
    /\ verdict = "ok" => next = Len(dir) + 1
    /\ verdict = "failed" => \E i \in DOMAIN dir : Wanted(dir[i]) /\ (i \in removed \/ ~dir[i].valid)

\* A walk begins with nothing loaded.
LEMMA LoaderBegins ==
  ASSUME NEW w, NEW d, d \in Seq({d[i] : i \in DOMAIN d}), DefStart(w, d)
  PROVE  LoaderInv
  <1>1. /\ dir = d /\ next = 1 /\ checked = FALSE /\ loaded = <<>> /\ verdict = "loading"
    BY DEF DefStart
  <1>2. Len(d) \in Nat
    BY LenProperties
  <1>3. 1 .. next - 1 = {}
    BY <1>1
  <1>4. loaded \in Seq(1 .. next - 1) /\ DOMAIN loaded = {}
    BY <1>1
  <1>5. dir \in Seq({dir[i] : i \in DOMAIN dir}) /\ next \in 1 .. Len(dir) + 1 /\ checked \in BOOLEAN
    <2>1. dir \in Seq({dir[i] : i \in DOMAIN dir})
      BY <1>1, Zenon
    <2>2. next \in 1 .. Len(dir) + 1 /\ checked \in BOOLEAN
      <3>1. Len(dir) \in Nat
        BY <1>1, <1>2, Zenon
      <3>2. next \in 1 .. Len(dir) + 1
        BY <1>1, <3>1
      <3> QED BY <1>1, <3>2, Zenon
    <2> QED BY <2>1, <2>2, Zenon
  <1>6. /\ verdict # "ok" /\ verdict # "failed" /\ ~checked
    BY <1>1
  <1>7. \A i \in (1 .. next - 1) \ removed : FALSE
    BY <1>3
  <1>8. \A i \in DOMAIN loaded : FALSE
    BY <1>4
  <1> QED BY <1>4, <1>5, <1>6, <1>7, <1>8, Zenon DEF LoaderInv

\* Every step of the loader, and every removal beside it, keeps the walk.
LEMMA LoaderKeeps ==
  ASSUME LoaderInv, [LoaderNext]_loaderVars
  PROVE  LoaderInv'
  <1>0. CASE UNCHANGED loaderVars
    BY <1>0 DEF LoaderInv, loaderVars, Wanted
  <1>1. /\ Len(dir) \in Nat /\ DOMAIN dir = 1 .. Len(dir)
    BY LenProperties DEF LoaderInv
  <1>2. CASE LookAt
    <2>1. /\ dir' = dir /\ wanted' = wanted /\ removed' = removed /\ loaded' = loaded /\ verdict' = verdict
          /\ verdict = "loading" /\ next \in 1 .. Len(dir)
      BY <1>1, <1>2 DEF LookAt, LoaderInv
    <2>2. \A e : Wanted(e)' <=> Wanted(e)
      BY <2>1 DEF Wanted
    <2>3. CASE next \notin removed /\ dir[next].file /\ Wanted(dir[next])
      <3>1. checked' = TRUE /\ next' = next
        BY <1>2, <2>3 DEF LookAt
      <3> QED BY <1>1, <2>1, <2>2, <2>3, <3>1 DEF LoaderInv, Wanted
    <2>4. CASE ~(next \notin removed /\ dir[next].file /\ Wanted(dir[next]))
      <3>1. checked' = checked /\ next' = next + 1 /\ ~checked
        BY <1>2, <2>4 DEF LookAt
      <3>2. next' \in 1 .. Len(dir) + 1 /\ 1 .. next' - 1 = (1 .. next - 1) \cup {next}
        BY <1>1, <2>1, <3>1
      <3>3. loaded \in Seq(1 .. next' - 1)
        <4>1. 1 .. next - 1 \subseteq 1 .. next' - 1 /\ loaded \in Seq(1 .. next - 1)
          BY <3>2 DEF LoaderInv
        <4> QED BY <4>1, SeqOfMore, Zenon
      <3>4. \A i \in (1 .. next' - 1) \ removed :
                dir[i].file /\ Wanted(dir[i]) => \E n \in DOMAIN loaded : loaded[n] = i
        BY <2>4, <3>2 DEF LoaderInv
      <3> QED BY <1>1, <2>1, <2>2, <3>1, <3>2, <3>3, <3>4 DEF LoaderInv, Wanted
    <2> QED BY <2>3, <2>4
  <1>3. CASE LoadFromFile
    <2>1. /\ dir' = dir /\ wanted' = wanted /\ removed' = removed
          /\ verdict = "loading" /\ next \in 1 .. Len(dir) /\ checked /\ Wanted(dir[next])
      BY <1>1, <1>3 DEF LoadFromFile, LoaderInv
    <2>2. \A e : Wanted(e)' <=> Wanted(e)
      BY <2>1 DEF Wanted
    <2>3. CASE next \notin removed /\ dir[next].valid
      <3>1. loaded' = Append(loaded, next) /\ next' = next + 1 /\ checked' = FALSE /\ verdict' = verdict
        BY <1>3, <2>3 DEF LoadFromFile
      <3>2. next' \in 1 .. Len(dir) + 1 /\ 1 .. next' - 1 = (1 .. next - 1) \cup {next}
        BY <1>1, <2>1, <3>1
      <3>3. loaded \in Seq(1 .. next - 1) /\ loaded \in Seq(1 .. next' - 1) /\ next \in 1 .. next' - 1
        <4>1. /\ 1 .. next - 1 \subseteq 1 .. next' - 1 /\ next \in 1 .. next' - 1
              /\ loaded \in Seq(1 .. next - 1)
          BY <3>2 DEF LoaderInv
        <4> QED BY <4>1, SeqOfMore, Zenon
      <3>4. /\ loaded' \in Seq(1 .. next' - 1) /\ Len(loaded) \in Nat
            /\ DOMAIN loaded = 1 .. Len(loaded) /\ DOMAIN loaded' = 1 .. Len(loaded) + 1
            /\ \A i \in 1 .. Len(loaded) : loaded'[i] = loaded[i] /\ loaded[i] \in 1 .. next - 1
            /\ loaded'[Len(loaded) + 1] = next
        BY <3>1, <3>3
      <3>5. \A i \in DOMAIN loaded' : Wanted(dir[loaded'[i]]) /\ dir[loaded'[i]].valid
        <4> SUFFICES ASSUME NEW i \in DOMAIN loaded' PROVE Wanted(dir[loaded'[i]]) /\ dir[loaded'[i]].valid
          OBVIOUS
        <4>1. CASE i \in DOMAIN loaded
          BY <3>4, <4>1 DEF LoaderInv
        <4>2. CASE i = Len(loaded) + 1
          BY <2>1, <2>3, <3>4, <4>2
        <4> QED BY <3>4, <4>1, <4>2
      <3>6. \A i \in DOMAIN loaded' : \A j \in 1 .. i - 1 : loaded'[j] < loaded'[i]
        <4> SUFFICES ASSUME NEW i \in DOMAIN loaded', NEW j \in 1 .. i - 1 PROVE loaded'[j] < loaded'[i]
          OBVIOUS
        <4>1. CASE i \in 1 .. Len(loaded)
          BY <3>4, <4>1 DEF LoaderInv
        <4>2. CASE i = Len(loaded) + 1
          <5>1. j \in 1 .. Len(loaded)
            BY <3>4, <4>2
          <5> QED BY <2>1, <3>4, <4>2, <5>1
        <4> QED BY <3>4, <4>1, <4>2
      <3>7. \A i \in (1 .. next' - 1) \ removed :
                dir[i].file /\ Wanted(dir[i]) => \E n \in DOMAIN loaded' : loaded'[n] = i
        <4> SUFFICES ASSUME NEW i \in (1 .. next' - 1) \ removed, dir[i].file, Wanted(dir[i])
                     PROVE  \E n \in DOMAIN loaded' : loaded'[n] = i
          OBVIOUS
        <4>1. CASE i = next
          BY <3>4, <4>1
        <4>2. CASE i \in 1 .. next - 1
          <5>1. PICK n \in DOMAIN loaded : loaded[n] = i
            BY <4>2 DEF LoaderInv
          <5> QED BY <3>4, <5>1
        <4> QED BY <3>2, <4>1, <4>2
      <3>8. /\ dir' \in Seq({dir'[i] : i \in DOMAIN dir'}) /\ next' \in 1 .. Len(dir') + 1
            /\ checked' \in BOOLEAN /\ ~checked' /\ verdict' # "ok" /\ verdict' # "failed"
        <4>1. dir' \in Seq({dir'[i] : i \in DOMAIN dir'})
          <5>1. dir' = dir /\ dir \in Seq({dir[i] : i \in DOMAIN dir})
            BY <2>1 DEF LoaderInv
          <5> QED BY <5>1
        <4>2. /\ next' \in 1 .. Len(dir') + 1
              /\ checked' \in BOOLEAN /\ ~checked' /\ verdict' # "ok" /\ verdict' # "failed"
          BY <2>1, <3>1, <3>2
        <4> QED BY <4>1, <4>2, Zenon
      <3>9. \A i \in (1 .. next' - 1) \ removed' :
                dir'[i].file /\ Wanted(dir[i])' => \E n \in DOMAIN loaded' : loaded'[n] = i
        BY <2>1, <3>7 DEF Wanted
      <3>10. \A i \in DOMAIN loaded' : Wanted(dir[loaded[i]])' /\ dir'[loaded'[i]].valid
        BY <2>1, <3>5 DEF Wanted
      <3> QED BY <3>4, <3>6, <3>8, <3>9, <3>10, Zenon DEF LoaderInv
    <2>4. CASE ~(next \notin removed /\ dir[next].valid)
      <3>1. loaded' = loaded /\ next' = next /\ checked' = checked /\ verdict' = "failed"
        BY <1>3, <2>4 DEF LoadFromFile
      <3>2. \E i \in DOMAIN dir : Wanted(dir[i]) /\ (i \in removed \/ ~dir[i].valid)
        BY <1>1, <2>1, <2>4
      <3> QED BY <1>1, <2>1, <2>2, <3>1, <3>2 DEF LoaderInv, Wanted
    <2> QED BY <2>3, <2>4
  <1>4. CASE LoadEnds
    <2>1. /\ dir' = dir /\ wanted' = wanted /\ removed' = removed /\ loaded' = loaded /\ next' = next
          /\ checked' = checked /\ verdict' = "ok" /\ next > Len(dir)
      BY <1>4 DEF LoadEnds
    <2>2. next = Len(dir) + 1
      BY <1>1, <2>1 DEF LoaderInv
    <2> QED BY <1>1, <2>1, <2>2 DEF LoaderInv, Wanted
  <1>5. CASE RemoveEntry
    <2>1. /\ dir' = dir /\ wanted' = wanted /\ removed \subseteq removed' /\ loaded' = loaded /\ next' = next
          /\ checked' = checked /\ verdict' = verdict
      BY <1>5 DEF RemoveEntry
    <2> QED BY <1>1, <2>1 DEF LoaderInv, Wanted
  <1>6. CASE ListingFails
    <2>1. /\ dir' = dir /\ wanted' = wanted /\ removed' = removed /\ loaded' = loaded /\ next' = next
          /\ checked' = checked /\ verdict' = "unreadable"
      BY <1>6 DEF ListingFails
    <2> QED BY <1>1, <2>1 DEF LoaderInv, Wanted
  <1> QED BY <1>0, <1>2, <1>3, <1>4, <1>5, <1>6 DEF LoaderNext

\* So a directory loads as promised.
LEMMA LoaderSays ==
  ASSUME LoaderInv
  PROVE  LoaderKept
  <1>1. Len(dir) \in Nat /\ DOMAIN dir = 1 .. Len(dir)
    BY LenProperties DEF LoaderInv
  <1>2. \A i \in DOMAIN loaded :
          /\ Wanted(dir[loaded[i]]) /\ dir[loaded[i]].valid
          /\ \A j \in 1 .. i - 1 : loaded[j] < loaded[i]
    BY DEF LoaderInv
  <1>3. ASSUME verdict = "ok", NEW i \in DOMAIN dir \ removed, dir[i].file, Wanted(dir[i])
        PROVE  i \in ToSet(loaded)
    <2>1. next = Len(dir) + 1
      BY <1>3 DEF LoaderInv
    <2>2. i \in (1 .. next - 1) \ removed
      BY <1>1, <2>1
    <2>3. PICK n \in DOMAIN loaded : loaded[n] = i
      BY <1>3, <2>2 DEF LoaderInv
    <2> QED BY <2>3 DEF ToSet
  <1> QED BY <1>2, <1>3 DEF LoaderInv, LoaderKept
-----------------------------------------------------------------------------
(* Redaction.                                                              *)

\* While keys are cut out, a second byte left in the text is one of the response.
RedactInv ==
    /\ pass = "keys" =>
          /\ text \in Seq({text[i] : i \in DOMAIN text})
          /\ at \in 1 .. 3
          /\ (\E i \in DOMAIN text : text[i] = "v") => Wide(given)
    /\ pass = "panic" => Wide(given)

\* At first the text is the response.
LEMMA RedactBegins ==
  ASSUME NEW r, r \in Seq({r[i] : i \in DOMAIN r}),
         \A i \in DOMAIN r : r[i] = "v" => i > 1 /\ r[i - 1] = "u",
         RedactStart(r)
  PROVE  RedactInv
  <1>1. given = r /\ text = r /\ at = 1 /\ pass = "keys"
    BY DEF RedactStart
  <1>2. Len(r) \in Nat /\ DOMAIN r = 1 .. Len(r)
    BY LenProperties
  <1>3. ASSUME NEW i \in DOMAIN r, r[i] = "v" PROVE Wide(r)
    <2>1. i > 1 /\ r[i - 1] = "u"
      BY <1>3
    <2>2. i - 1 \in DOMAIN r
      BY <1>2, <2>1
    <2> QED BY <2>1, <2>2 DEF Wide
  <1> QED BY <1>1, <1>3 DEF RedactInv

\* A turn of the redaction puts no second byte into the text.
LEMMA RedactKeeps ==
  ASSUME RedactInv, [TextNext]_textVars
  PROVE  RedactInv'
  <1>0. CASE UNCHANGED textVars
    BY <1>0 DEF RedactInv, textVars, Wide
  <1>w. ASSUME given' = given PROVE Wide(given)' <=> Wide(given)
    BY <1>w DEF Wide
  <1>1. CASE KeyTurn
    <2> DEFINE first == Min(Places(text, KeyPrefixes[at]))
               stop == TokenEnd(text, first, KeyPrefixes[at])
               n == Len(text)
    <2>1. /\ pass = "keys" /\ at' = at /\ given' = given
          /\ IF CharBoundary(text, stop)
             THEN text' = SubSeq(text, 1, first - 1) \o Mark \o SubSeq(text, stop, n) /\ pass' = pass
             ELSE pass' = "panic" /\ text' = text
      BY <1>1 DEF KeyTurn
    <2>2. n \in Nat /\ DOMAIN text = 1 .. n /\ at \in 1 .. 3
      BY <2>1, LenProperties DEF RedactInv
    <2>3. first \in 1 .. n /\ stop \in Nat /\ stop >= 1
      <3>1. at \in 1 .. 2 /\ Places(text, KeyPrefixes[at]) # {}
        <4>1. Len(KeyPrefixes) = 2
          BY DEF KeyPrefixes
        <4> QED BY <1>1, <2>2, <4>1 DEF KeyTurn, Has
      <3> DEFINE P == Places(text, KeyPrefixes[at])
      <3>2. P \in SUBSET Nat /\ P # {} /\ P \subseteq 1 .. n
        BY <3>1, <2>2 DEF Places
      <3>3. PICK x \in P : \A y \in P : x <= y
        BY <3>2, LeastNat
      <3>4. first \in P
        <4> HIDE DEF P
        <4>1. Min(P) \in P
          BY <3>3 DEF Min
        <4> QED BY <4>1 DEF P
      <3>5. first \in 1 .. n
        BY <3>2, <3>4
      <3> DEFINE k == Len(KeyPrefixes[at])
      <3>6. k \in Nat
        <4>1. KeyPrefixes[1] = <<"k">> /\ KeyPrefixes[2] = <<"B", " ">>
          BY DEF KeyPrefixes
        <4>2. Len(<<"k">>) = 1 /\ Len(<<"B", " ">>) = 2
          OBVIOUS
        <4>3. Len(KeyPrefixes[1]) = 1 /\ Len(KeyPrefixes[2]) = 2
          BY <4>1, <4>2, Zenon
        <4>4. at = 1 \/ at = 2
          BY <3>1
        <4>5. k = 1 \/ k = 2
          BY <4>3, <4>4, Zenon
        <4> QED BY <4>5
      <3> HIDE DEF first, k, n, P
      <3> DEFINE spaces == {j \in first .. n : text[j] = " "}
                 past == IF first + k + KeyTail <= n THEN first + k + KeyTail ELSE n + 1
                 end == IF spaces = {} THEN past ELSE Min(spaces)
      <3>7. stop = IF end < first + k THEN first + k ELSE end
        BY DEF TokenEnd, k, n
      <3>8. end \in Nat
        <4>1. past \in Nat
          BY <2>2, <3>5, <3>6, TextAssumption
        <4>2. ASSUME spaces # {} PROVE Min(spaces) \in Nat
          <5>1. spaces \in SUBSET Nat
            <6>1. first .. n \subseteq Nat
              BY <2>2, <3>5
            <6> QED BY <6>1
          <5>2. PICK z \in spaces : \A y \in spaces : z <= y
            BY <5>1, <4>2, LeastNat
          <5> HIDE DEF spaces
          <5>3. Min(spaces) \in spaces
            BY <5>2 DEF Min
          <5> QED BY <5>1, <5>3
        <4> QED BY <4>1, <4>2
      <3> HIDE DEF end, stop
      <3> QED BY <3>5, <3>6, <3>7, <3>8, <2>2
    <2> HIDE DEF first, stop, n
    <2>4. CASE ~CharBoundary(text, stop)
      <3>1. stop \in 1 .. n /\ text[stop] = "v"
        BY <2>2, <2>3, <2>4 DEF CharBoundary, n
      <3>2. Wide(given)
        BY <2>1, <2>2, <3>1 DEF RedactInv
      <3> QED BY <2>1, <2>4, <3>2, <1>w DEF RedactInv
    <2>5. CASE CharBoundary(text, stop)
      <3> DEFINE S == {text[i] : i \in DOMAIN text}
                 T == S \cup {"[", "R", "]"}
                 s == SubSeq(text, 1, first - 1)
                 u == SubSeq(text, stop, n)
      <3>1. text \in Seq(S) /\ text \in Seq(T)
        BY <2>1 DEF RedactInv
      <3>2. s \in Seq(T) /\ Mark \in Seq(T)
        <4>1. Mark \in Seq(T)
          BY DEF Mark
        <4>2. s \in Seq(T)
          BY <3>1, <2>2, <2>3, SubSeqProperties DEF n
        <4> QED BY <4>1, <4>2
      <3>3. u \in Seq(T)
        BY <3>1, <2>2, <2>3, SubSeqProperties DEF n
      <3>4. text' \in Seq(T)
        <4>1. text' = s \o Mark \o u
          BY <2>1, <2>5
        <4> HIDE DEF s, u, T
        <4>2. s \o Mark \in Seq(T)
          BY <3>2
        <4> QED BY <3>3, <4>1, <4>2
      <3>5. text' \in Seq({text'[i] : i \in DOMAIN text'})
        BY <3>4
      <3>6. ASSUME NEW i \in DOMAIN text', text'[i] = "v" PROVE Wide(given)
        <4>1. text'[i] \in T
          BY <3>4
        <4>2. PICK j \in DOMAIN text : text[j] = "v"
          BY <3>6, <4>1
        <4> QED BY <2>1, <4>2 DEF RedactInv
      <3> QED BY <2>1, <2>2, <2>5, <3>5, <3>6, <1>w DEF RedactInv
    <2> QED BY <2>4, <2>5
  <1>2. CASE NextPrefix
    <2>1. Len(KeyPrefixes) = 2
      BY DEF KeyPrefixes
    <2>2. /\ pass = "keys" /\ text' = text /\ given' = given
          /\ \/ at <= 2 /\ at' = at + 1 /\ pass' = pass
             \/ pass' = "ssn"
      BY <1>2, <2>1 DEF NextPrefix
    <2> QED BY <2>2, <1>w DEF RedactInv
  <1>3. CASE SsnTurn \/ SsnPassEnds \/ EmailTurn \/ EmailPassEnds
    <2>1. given' = given /\ pass' \notin {"keys", "panic"}
      BY <1>3 DEF SsnTurn, SsnPassEnds, EmailTurn, EmailPassEnds
    <2> QED BY <2>1 DEF RedactInv
  <1> QED BY <1>0, <1>1, <1>2, <1>3 DEF TextNext, Redact

-----------------------------------------------------------------------------
(* The whole.                                                              *)

EdgeInv ==
    /\ RequestInv /\ HttpInv
    /\ RateInv /\ VersionInv /\ MetricInv
    /\ ChildInv /\ WasmInv /\ KavachInv
    /\ RegistryInv /\ FetchInv /\ GradeInv
    /\ LoaderInv /\ RedactInv

\* The invariant holds at first.
LEMMA EdgeBegins == EdgeInit => EdgeInv
  <1> SUFFICES ASSUME EdgeInit PROVE EdgeInv
    OBVIOUS
  <1>1. HttpInit /\ ServerStoresInit /\ SandboxInit /\ AssessmentInit
    BY DEF EdgeInit
  <1>2. RequestInv
    <2>1. CASE RequestInit
      <3>1. PICK r \in RequestSet : RequestStart(r)
        BY <2>1 DEF RequestInit
      <3> QED BY <3>1, RequestBegins, RequestsAssumption
    <2>2. CASE RequestStart(AnyRequest)
      <3>1. AnyRequest.deps = <<<<>>>> /\ AnyRequest.concurrency = 0
        BY DEF AnyRequest, Req
      <3>2. <<>> \in Seq(Nat)
        OBVIOUS
      <3>3. <<<<>>>> \in Seq(Seq(Nat))
        BY <3>2
      <3>4. AnyRequest.deps \in Seq(Seq(Nat)) /\ AnyRequest.concurrency \in Nat
        BY <3>1, <3>3
      <3> QED BY <2>2, <3>4, RequestBegins
    <2> QED BY <2>1, <2>2 DEF EdgeInit
  <1>3. RegistryInv /\ FetchInv
    <2>1. CASE ToolsInit
      <3>1. PICK d \in PackageDirs : ToolsStart(d)
        BY <2>1 DEF ToolsInit
      <3> QED BY <3>1, ToolsBegin, PackagesAssumption
    <2>2. CASE ToolsStart(<<>>)
      <3>1. <<>> \in Seq({<<>>[i] : i \in DOMAIN <<>>})
        OBVIOUS
      <3> QED BY <2>2, <3>1, ToolsBegin
    <2> QED BY <2>1, <2>2 DEF EdgeInit
  <1>4. LoaderInv
    <2>1. CASE DefInit
      <3>1. PICK w \in {"definitions", "presets"}, d \in Directories : DefStart(w, d)
        BY <2>1 DEF DefInit
      <3> QED BY <3>1, LoaderBegins, DirectoriesAssumption
    <2>2. CASE DefStart("definitions", <<>>)
      <3>1. <<>> \in Seq({<<>>[i] : i \in DOMAIN <<>>})
        OBVIOUS
      <3> QED BY <2>2, <3>1, LoaderBegins
    <2> QED BY <2>1, <2>2 DEF EdgeInit
  <1>5. RedactInv
    <2>1. CASE TextInit
      <3>1. PICK r \in Responses : RedactStart(r)
        BY <2>1 DEF TextInit
      <3> QED BY <3>1, RedactBegins, ResponsesAssumption
    <2>2. CASE RedactStart(<<>>)
      <3>1. <<>> \in Seq({<<>>[i] : i \in DOMAIN <<>>}) /\ \A i \in DOMAIN <<>> : FALSE
        OBVIOUS
      <3> QED BY <2>2, <3>1, RedactBegins
    <2> QED BY <2>1, <2>2 DEF EdgeInit
  <1> QED BY <1>1, <1>2, <1>3, <1>4, <1>5, HttpBegins, RateBegins, VersionBegins, MetricBegins, ChildBegins, WasmBegins,
             KavachBegins, GradeBegins DEF EdgeInv

\* Every step keeps it, part by part.
LEMMA EdgeKeeps ==
  ASSUME EdgeInv, [EdgeNext]_edgeVars
  PROVE  EdgeInv'
  <1>0. /\ RequestInv /\ HttpInv /\ RateInv /\ VersionInv /\ MetricInv /\ ChildInv /\ WasmInv /\ KavachInv
        /\ RegistryInv /\ FetchInv /\ GradeInv /\ LoaderInv /\ RedactInv
    BY DEF EdgeInv
  <1>1. /\ [RequestNext]_requestVars /\ [HttpNext]_httpVars
        /\ [RateNext]_rateVars /\ [VersionNext]_versionVars /\ [MetricNext]_metricVars
        /\ [ChildNext]_childVars /\ [WasmNext]_wasmVars /\ [KavachNext]_<<kavach>>
        /\ [RegistryNext]_registryVars /\ [FetchNext]_<<fetch>>
        /\ [AssessmentNext]_<<assessment>> /\ [TextNext]_textVars /\ [LoaderNext]_loaderVars
    BY EachEdge
  <1>2. RequestInv' /\ HttpInv'
    BY <1>0, <1>1, RequestKeeps, HttpStep
  <1>3. RateInv' /\ VersionInv' /\ MetricInv'
    BY <1>0, <1>1, RateStep, VersionStep, MetricStepKeeps
  <1>4. ChildInv' /\ WasmInv' /\ KavachInv'
    BY <1>0, <1>1, ChildStepKeeps, WasmKeeps, KavachKeeps
  <1>5. RegistryInv' /\ FetchInv' /\ GradeInv'
    BY <1>0, <1>1, RegistryKeeps, FetchKeeps, GradeKeeps
  <1>6. LoaderInv' /\ RedactInv'
    BY <1>0, <1>1, LoaderKeeps, RedactKeeps
  <1> QED BY <1>2, <1>3, <1>4, <1>5, <1>6 DEF EdgeInv

\* So it holds throughout.
LEMMA EdgeStays == EdgeSpec => []EdgeInv
  <1>1. EdgeInit => EdgeInv
    BY EdgeBegins
  <1>2. EdgeInv /\ [EdgeNext]_edgeVars => EdgeInv'
    BY EdgeKeeps
  <1> QED BY <1>1, <1>2, PTL DEF EdgeSpec

\* And it is enough.
LEMMA EdgeSays ==
  ASSUME EdgeInv
  PROVE  EdgeSound
  <1>1. /\ RequestInv /\ HttpInv /\ RateInv /\ VersionInv /\ MetricInv /\ ChildInv /\ WasmInv /\ KavachInv
        /\ RegistryInv /\ FetchInv
    BY DEF EdgeInv
  <1> QED BY <1>1, SandboxSays, ToolsSay, RequestSays, HttpSays, StoresSay DEF EdgeSound

(***************************************************************************)
(* A tool runs in the weakest isolation that is as strong as asked, and no *)
(* child outlives its call; a name of the registry stands for the last     *)
(* package that loaded; a request is refused exactly when its name, a      *)
(* text, a count or an index is out of range or its dependencies are       *)
(* circular, one from another system when a text or its metadata is too    *)
(* long; a protected handler answers only to its credentials; no client    *)
(* exceeds its burst, its rate and what its evictions give back; versions  *)
(* and metrics are kept.  For every directory, request, environment and    *)
(* limit.                                                                  *)
(***************************************************************************)
THEOREM EdgeIsSound == EdgeSpec => []EdgeSound
  <1>1. EdgeInv => EdgeSound
    BY EdgeSays
  <1> QED BY <1>1, EdgeStays, PTL

(***************************************************************************)
(* The grade of the security audit is on its scale, falls with every       *)
(* header less, open policy and disclosure, and its risk level says how    *)
(* many headers are missing, whatever the site answers.                    *)
(***************************************************************************)
THEOREM GradeIsSound == EdgeSpec => []GradeSound
  <1>1. EdgeInv => GradeSound
    BY GradeSays DEF EdgeInv
  <1> QED BY <1>1, EdgeStays, PTL

(***************************************************************************)
(* A directory of definitions that loads gives every definition that was   *)
(* there to the end, once and in order, and nothing else, and a load that  *)
(* can list the directory fails only for a broken or a removed definition, *)
(* whatever is removed, and wherever the listing breaks off, while         *)
(* load_all_from_dir or load_all_presets walks it.                         *)
(***************************************************************************)
THEOREM LoaderKeepsAll == EdgeSpec => []LoaderKept
  <1>1. EdgeInv => LoaderKept
    BY LoaderSays DEF EdgeInv
  <1> QED BY <1>1, EdgeStays, PTL

(***************************************************************************)
(* The redaction of a response panics, cutting a key out of it inside a    *)
(* character, only if the response holds a character that is not ASCII.    *)
(***************************************************************************)
THEOREM RedactionPanicsExplained == EdgeSpec => []PanicsExplained
  <1>1. EdgeInv => PanicsExplained
    BY DEF EdgeInv, RedactInv, PanicsExplained
  <1> QED BY <1>1, EdgeStays, PTL
=============================================================================
