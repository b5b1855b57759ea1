---------------------------- MODULE ServerStores ----------------------------
(***************************************************************************)
(* Small stores behind the server: the rate limiter of                     *)
(* rust-old/src/server/rate_limit.rs, the versions of agent definitions of *)
(* definitions/versioning.rs, and the metrics of server/prometheus.rs.     *)
(*                                                                         *)
(* The limiter's token buckets are majra's (external): a bucket that is    *)
(* not there is full, one that is there fills by the clock.                *)
(***************************************************************************)
EXTENDS Integers, Sequences, FiniteSets

CONSTANTS
    Clients, SharedKey,     \* keys of clients, and the key of all without one
    Rate, Burst, EvictionInterval,
    MaxRateClock,           \* a bound
    Saved, MaxVersions, MaxVersionSaves,  \* definitions, a cap of the code, a bound
    MetricCrews, MaxMetricCrews           \* crews, and a bound on their starts

ASSUME ServerStoresAssumption ==
    /\ {Rate, Burst, EvictionInterval, MaxRateClock, MaxVersionSaves, MaxMetricCrews} \subseteq Nat
    /\ MaxVersions \in Nat \ {0, 1}
ASSUME MetricCrewsAssumption == IsFiniteSet(MetricCrews)

VARIABLES
    buckets,    \* tokens and time of the last use, per key; Full when evicted
    rateClock,
    passed, evictions,  \* requests let through, and evictions of the bucket, per key
    history,    \* versions kept: sequence of number and definition
    saved,      \* every definition ever saved, in order
    crewsTotal, crewsActive, metricAt, scraped

rateVars == <<buckets, rateClock, passed, evictions>>
versionVars == <<history, saved>>
metricVars == <<crewsTotal, crewsActive, metricAt, scraped>>
storeVars == <<rateVars, versionVars, metricVars>>

Keys == Clients \cup {SharedKey}
Full == [tokens |-> Burst, at |-> 0, known |-> FALSE]

ServerStoresInit ==
    /\ buckets = [k \in Keys |-> Full] /\ rateClock = 0
    /\ passed = [k \in Keys |-> 0] /\ evictions = [k \in Keys |-> 0]
    /\ history = <<>> /\ saved = <<>>
    /\ crewsTotal = 0 /\ crewsActive = 0 /\ metricAt = [c \in MetricCrews |-> "idle"] /\ scraped = <<>>
-----------------------------------------------------------------------------
(* rate_limit.rs                                                           *)

\* extract_client_key: the first address the proxy names, or one key for all.
ClientKey(header) == IF header = {} THEN SharedKey ELSE CHOOSE k \in header : TRUE

Filled(b) ==
    LET t == b.tokens + Rate * (rateClock - b.at) IN IF t > Burst \/ ~b.known THEN Burst ELSE t

\* rate_limit_middleware: a request of an empty bucket is answered 429.
RateCheck(header) ==
    LET k == ClientKey(header) ok == Filled(buckets[k]) >= 1 IN
      /\ buckets' = [buckets EXCEPT ![k] = [tokens |-> Filled(@) - (IF ok THEN 1 ELSE 0), at |-> rateClock, known |-> TRUE]]
      /\ passed' = [passed EXCEPT ![k] = @ + (IF ok THEN 1 ELSE 0)]
      /\ UNCHANGED <<rateClock, evictions, versionVars, metricVars>>

\* Wrong variant: an empty bucket goes as soon as time has passed.
Stale_Any(b) == rateClock > b.at

Stale(b) == rateClock - b.at >= EvictionInterval

Forgotten == {k \in Keys : buckets[k].known /\ Stale(buckets[k])}

EvictStale ==
    /\ buckets' = [k \in Keys |-> IF k \in Forgotten THEN Full ELSE buckets[k]]
    /\ evictions' = [k \in Keys |-> IF k \in Forgotten THEN evictions[k] + 1 ELSE evictions[k]]
    /\ UNCHANGED <<rateClock, passed, versionVars, metricVars>>

RateTick ==
    /\ rateClock < MaxRateClock /\ rateClock' = rateClock + 1
    /\ UNCHANGED <<buckets, passed, evictions, versionVars, metricVars>>

RateNext == EvictStale \/ RateTick \/ \E h \in {{c} : c \in Clients} \cup {{}} : RateCheck(h)
-----------------------------------------------------------------------------
(* versioning.rs: the store has one owner                                  *)

\* What is left once the oldest are evicted to make room for one.
Kept == IF Len(history) < MaxVersions THEN history
        ELSE SubSeq(history, Len(history) - MaxVersions + 2, Len(history))

\* Wrong variant: versions are numbered by their place in the history.
NextVersion_Length == Len(Kept) + 1

NextVersion == IF Kept = <<>> THEN 1 ELSE Kept[Len(Kept)].version + 1

SaveVersion(d) ==
    /\ Len(saved) < MaxVersionSaves
    /\ history' = Append(Kept, [version |-> NextVersion, definition |-> d])
    /\ saved' = Append(saved, d)
    /\ UNCHANGED <<rateVars, metricVars>>

\* rollback saves the old definition as a new version.
Rollback(v) == \E i \in DOMAIN history : history[i].version = v /\ SaveVersion(history[i].definition)

VersionNext == (\E d \in Saved : SaveVersion(d)) \/ \E v \in 1..MaxVersionSaves : Rollback(v)
-----------------------------------------------------------------------------
(* prometheus.rs: two atomics for the start of a crew, and a scrape that   *)
(* reads one after the other                                               *)

MetricStep(c, from, to, total, active) ==
    /\ metricAt[c] = from /\ metricAt' = [metricAt EXCEPT ![c] = to]
    /\ crewsTotal' = total /\ crewsActive' = active
    /\ UNCHANGED <<scraped, rateVars, versionVars>>

CountStarted(c) == MetricStep(c, "idle", "counted", crewsTotal + 1, crewsActive)
CountActive(c) == MetricStep(c, "counted", "active", crewsTotal, crewsActive + 1)

\* The gauge does not go below zero.
CountCompleted(c) == MetricStep(c, "active", "idle", crewsTotal, IF crewsActive > 0 THEN crewsActive - 1 ELSE 0)

ScrapeTotal ==
    /\ Len(scraped) \in {0, 2} /\ scraped' = <<crewsTotal>>
    /\ UNCHANGED <<crewsTotal, crewsActive, metricAt, rateVars, versionVars>>
ScrapeActive ==
    /\ Len(scraped) = 1 /\ scraped' = Append(scraped, crewsActive)
    /\ UNCHANGED <<crewsTotal, crewsActive, metricAt, rateVars, versionVars>>

MetricNext ==
    \/ ScrapeTotal \/ ScrapeActive
    \/ \E c \in MetricCrews : (crewsTotal < MaxMetricCrews /\ CountStarted(c)) \/ CountActive(c) \/ CountCompleted(c)
-----------------------------------------------------------------------------
\* What a client regains when its bucket is forgotten: nothing if the interval is
\* long enough to fill it.
Gift == IF Burst > Rate * EvictionInterval THEN Burst - Rate * EvictionInterval ELSE 0

\* No client gets through more often than its burst, the rate since the start and the
\* gift of each eviction allow, and it is forgotten at most once in an interval: with
\* a bucket that fills within the interval evictions are for free.  Version numbers are
\* never used twice and the newest is the number of all saves, although old ones
\* are dropped; and the gauge is the number of crews between start and end.
StoresKeep ==
    /\ \A k \in Keys : /\ passed[k] <= Burst + Rate * rateClock + Gift * evictions[k]
                       /\ evictions[k] * EvictionInterval <= rateClock
    /\ \A i \in DOMAIN history :
         /\ history[i].version = Len(saved) - Len(history) + i
         /\ history[i].definition = saved[history[i].version]
    /\ crewsActive = Cardinality({c \in MetricCrews : metricAt[c] = "active"})
    /\ Len(scraped) = 2 => scraped[2] <= scraped[1] + Cardinality(MetricCrews)
=============================================================================
