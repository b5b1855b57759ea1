------------------------- MODULE EventBusProofs -------------------------
(***************************************************************************)
(* The event bus carries a crew's events to whoever subscribed to it and   *)
(* to nobody else, in order, for any number of crews, clients and senders: *)
(* Spec => []BusSound.                                                     *)
(*                                                                         *)
(* BusSound is not inductive: nothing in it says whose sender a client     *)
(* holds once the map has let go of it, or that a subscription taken from  *)
(* the pool is empty, open and on no list.  BusInv adds that every sender  *)
(* ever made was made for one crew (Owners), that every subscription made  *)
(* is held or pooled (Holders), where a client may hold what (ByPlace),    *)
(* and that no more subscriptions are made than there are clients          *)
(* (Minters: the pool is asked first).                                     *)
(***************************************************************************)
EXTENDS EventBus, FiniteSetTheorems, TLAPS

\* The senders and the subscriptions made so far, and those in the pool.
Made == 1..made
Minted == 1..minted
Pool == Range(idle)

\* What a channel may hold: events of crew c, newer than lo and up to hi, in order.
Rings == {r \in Seq(Events) : Len(r) <= Capacity}
Numbered(r, c, lo, hi) == \A i \in DOMAIN r :
    r[i].crew = c /\ r[i].n <= hi /\ r[i].n > (IF i = 1 THEN lo ELSE r[i - 1].n)

Typed ==
    /\ lagged \in [Subs -> Nat] /\ closed \in [Subs -> BOOLEAN]
    /\ crew \in [Crews -> {"new", "running", "ended", "failed"}] /\ sent \in [Crews -> 0..MaxEvents]
    /\ at \in [Clients -> Places] /\ of \in [Clients -> Crews]
    /\ exists \in [Clients -> BOOLEAN] /\ lag \in [Clients -> Nat] /\ seen \in [Clients -> 0..MaxEvents]

SendersTyped ==
    /\ made \in Ids
    /\ channels \in [Crews -> Made \cup {0}] /\ tx \in [Crews -> Made \cup {0}]
    /\ htx \in [Clients -> Made \cup {0}] /\ subs \in [Senders -> SUBSET Minted]
    /\ \A s \in Senders \ Made : subs[s] = {}
    /\ \A c \in Crews : crew[c] = "running" => tx[c] # 0

PoolTyped ==
    /\ minted \in Nat /\ idle \in Seq(Minted) /\ \A i, j \in DOMAIN idle : i # j => idle[i] # idle[j]

RingsTyped == sub \in [Clients -> Minted \cup {0}] /\ ring \in [Subs -> Rings]

\* What a client holds goes with where it is.
ByPlace == \A k \in Clients :
    /\ at[k] \in {"start", "taking"} => sub[k] = 0
    /\ k \in Streams /\ at[k] = "adding" => sub[k] = 0
    /\ k \in Embedders => at[k] \in {"start", "taking", "adding", "lag", "clear", "recv", "closed", "over", "gone"}
    /\ k \in Embedders /\ at[k] = "gone" => sub[k] = 0
    /\ k \in Embedders /\ at[k] \in {"taking", "adding"} => htx[k] # 0
    /\ k \in Embedders /\ at[k] = "adding" => sub[k] # 0
    /\ at[k] \in {"adding", "leaving", "leavingLagged"} => htx[k] # 0
    /\ at[k] \in {"lag", "clear", "recv", "closed", "over", "lagged", "leaving", "leavingLagged"} => sub[k] # 0

\* Every subscription made is in the pool or with one client, and not with two.
Holders ==
    /\ \A k, j \in Clients : k # j /\ sub[k] # 0 => sub[k] # sub[j]
    /\ \A k \in Clients : sub[k] \notin Pool
    /\ \A u \in Minted : u \in Pool \/ \E k \in Clients : sub[k] = u

\* A subscription is on one list at most, while it is open; in the pool, before it is
\* made and before its client has added it, it is open and on none.
Listed ==
    /\ \A s, r \in Senders : s # r => subs[s] \cap subs[r] = {}
    /\ \A s \in Senders : \A u \in subs[s] : ~closed[u] /\ u \notin Pool
    /\ \A u \in Subs : u \in Pool \/ u \notin Minted => ~closed[u]
    /\ \A k \in Embedders : at[k] = "adding" => ~closed[sub[k]] /\ \A s \in Senders : sub[k] \notin subs[s]

\* A channel holds what its client's crew sent and the client has not seen; in the
\* pool and before it is made it is empty.
Contents ==
    /\ \A k \in Clients : sub[k] # 0 => Numbered(ring[sub[k]], of[k], seen[k], sent[of[k]])
    /\ \A k \in Clients : seen[k] <= sent[of[k]]
    /\ \A u \in Subs : u \in Pool \/ u \notin Minted => ring[u] = <<>>

\* owner says for which crew each sender was made (0: not yet).
OwnedBy(owner) ==
    /\ \A c \in Crews : channels[c] # 0 => owner[channels[c]] = c
    /\ \A c \in Crews : tx[c] # 0 => owner[tx[c]] = c
    /\ \A k \in Clients : htx[k] # 0 => owner[htx[k]] = of[k]
    /\ \A s \in Senders : \A k \in Clients : sub[k] \in subs[s] => owner[s] = of[k]

Owners == \E owner \in [Senders -> Crews \cup {0}] : OwnedBy(owner)

\* by says which client stands for each subscription: a stream for its own.
StandsFor(by) ==
    /\ \A u, v \in Minted : by[u] = by[v] => u = v
    /\ \A k \in Streams : \A u \in Minted : by[u] = k <=> sub[k] = u

Minters == \E by \in [Minted -> Clients] : StandsFor(by)

BusInv ==
    /\ Typed /\ SendersTyped /\ PoolTyped /\ RingsTyped /\ ByPlace
    /\ Holders /\ Listed /\ Contents /\ Owners /\ Minters
-----------------------------------------------------------------------------
(* Channels, the pool and the two counters.                                *)

LEMMA EmptyRing == <<>> \in Rings /\ \A c, lo, hi : Numbered(<<>>, c, lo, hi)
  BY BoundsAssumption DEF Rings, Numbered

\* One more event: the oldest goes when there is no room, and the order stays.
LEMMA PushedRing ==
  ASSUME NEW c \in Crews, NEW lo \in Nat, NEW hi \in Nat, lo <= hi, hi + 1 \in 1..MaxEvents,
         NEW r \in Rings, Numbered(r, c, lo, hi),
         NEW e, e = [crew |-> c, n |-> hi + 1]
  PROVE  LET new == IF Len(r) >= Capacity THEN Append(Tail(r), e) ELSE Append(r, e)
         IN  new \in Rings /\ Numbered(new, c, lo, hi + 1)
  <1>0. /\ e \in Events /\ e.crew = c /\ e.n = hi + 1 /\ r \in Seq(Events) /\ Len(r) \in Nat /\ Len(r) <= Capacity
        /\ Capacity \in Nat \ {0}
    BY BoundsAssumption DEF Events, Rings
  <1>1. \A i \in 1..Len(r) :
          r[i] \in Events /\ r[i].crew = c /\ r[i].n \in Nat /\ r[i].n <= hi /\ r[i].n > (IF i = 1 THEN lo ELSE r[i - 1].n)
    <2>1. DOMAIN r = 1..Len(r) /\ \A i \in 1..Len(r) : r[i] \in Events
      BY <1>0
    <2>2. \A x \in Events : x.n \in Nat
      BY DEF Events
    <2> QED BY <2>1, <2>2 DEF Numbered
  <1>2. CASE Len(r) < Capacity
    <2> DEFINE new == Append(r, e)
    <2>1. /\ new \in Seq(Events) /\ Len(new) = Len(r) + 1 /\ DOMAIN new = 1..(Len(r) + 1)
          /\ \A i \in 1..Len(r) : new[i] = r[i]
          /\ new[Len(r) + 1] = e
      BY <1>0
    <2> HIDE DEF new
    <2>2. new \in Rings
      BY <1>0, <1>2, <2>1 DEF Rings
    <2>3. Numbered(new, c, lo, hi + 1)
      <3> SUFFICES ASSUME NEW i \in 1..(Len(r) + 1)
                   PROVE  new[i].crew = c /\ new[i].n <= hi + 1 /\ new[i].n > (IF i = 1 THEN lo ELSE new[i - 1].n)
        BY <2>1 DEF Numbered
      <3>1. CASE i \in 1..Len(r)
        <4>1. i # 1 => i - 1 \in 1..Len(r)
          BY <3>1, <1>0
        <4>2. new[i] = r[i] /\ (i # 1 => new[i - 1] = r[i - 1])
          BY <2>1, <3>1, <4>1
        <4>3. /\ r[i].crew = c /\ r[i].n \in Nat /\ r[i].n <= hi
              /\ r[i].n > (IF i = 1 THEN lo ELSE r[i - 1].n)
          BY <1>1, <3>1
        <4> QED BY <4>2, <4>3
      <3>2. CASE i = Len(r) + 1
        <4>1. i # 1 => i - 1 \in 1..Len(r) /\ i - 1 = Len(r)
          BY <3>2, <1>0
        <4> QED BY <1>0, <1>1, <2>1, <3>2, <4>1
      <3> QED BY <3>1, <3>2, <1>0
    <2> QED BY <1>2, <1>0, <2>2, <2>3 DEF new
  <1>3. CASE Len(r) >= Capacity
    <2> DEFINE new == Append(Tail(r), e)
    <2>1. /\ new \in Seq(Events) /\ Len(new) = Len(r) /\ DOMAIN new = 1..Len(r)
          /\ \A i \in 1..(Len(r) - 1) : new[i] = r[i + 1]
          /\ new[Len(r)] = e
      BY <1>0, <1>3
    <2> HIDE DEF new
    <2>2. new \in Rings
      BY <1>0, <1>3, <2>1 DEF Rings
    <2>3. Numbered(new, c, lo, hi + 1)
      <3> SUFFICES ASSUME NEW i \in 1..Len(r)
                   PROVE  new[i].crew = c /\ new[i].n <= hi + 1 /\ new[i].n > (IF i = 1 THEN lo ELSE new[i - 1].n)
        BY <2>1 DEF Numbered
      <3>1. CASE i \in 1..(Len(r) - 1)
        <4>1. i + 1 \in 1..Len(r) /\ i + 1 # 1 /\ (i # 1 => i - 1 \in 1..(Len(r) - 1) /\ (i - 1) + 1 = i /\ i \in 1..Len(r))
          BY <3>1, <1>0
        <4>2. new[i] = r[i + 1] /\ (i # 1 => new[i - 1] = r[i])
          BY <2>1, <3>1, <4>1
        <4>3. r[i + 1].n > r[i].n /\ r[i].n \in Nat /\ r[i + 1].n \in Nat /\ r[i + 1].n <= hi /\ r[i + 1].crew = c
          BY <1>1, <4>1
        <4>4. i = 1 => r[i].n > lo
          BY <1>1
        <4> QED BY <4>2, <4>3, <4>4
      <3>2. CASE i = Len(r)
        <4>1. i # 1 => i - 1 \in 1..(Len(r) - 1) /\ (i - 1) + 1 = i /\ i \in 1..Len(r)
          BY <3>2, <1>0
        <4>2. i # 1 => new[i - 1] = r[i] /\ r[i].n <= hi /\ r[i].n \in Nat
          BY <2>1, <4>1, <1>1
        <4> QED BY <1>0, <2>1, <3>2, <4>2
      <3> QED BY <3>1, <3>2, <1>0
    <2> QED BY <1>3, <2>2, <2>3 DEF new
  <1> QED BY <1>0, <1>2, <1>3

\* The oldest event is read.
LEMMA ReadRing ==
  ASSUME NEW c, NEW lo \in Nat, NEW hi \in Nat, NEW r \in Rings, r # <<>>, Numbered(r, c, lo, hi)
  PROVE  Tail(r) \in Rings /\ Numbered(Tail(r), c, Head(r).n, hi) /\ Head(r).n \in 0..MaxEvents /\ Head(r).n <= hi
  <1>0. r \in Seq(Events) /\ Len(r) \in Nat \ {0} /\ Len(r) <= Capacity /\ Capacity \in Nat
    BY BoundsAssumption DEF Rings
  <1>1. /\ Tail(r) \in Seq(Events) /\ Len(Tail(r)) = Len(r) - 1 /\ DOMAIN Tail(r) = 1..(Len(r) - 1)
        /\ \A i \in 1..(Len(r) - 1) : Tail(r)[i] = r[i + 1]
        /\ Head(r) = r[1]
    BY <1>0
  <1>2. Tail(r) \in Rings
    BY <1>0, <1>1 DEF Rings
  <1>3. \A i \in 1..Len(r) :
          r[i] \in Events /\ r[i].crew = c /\ r[i].n \in Nat /\ r[i].n <= hi /\ r[i].n > (IF i = 1 THEN lo ELSE r[i - 1].n)
    <2>1. DOMAIN r = 1..Len(r) /\ \A i \in 1..Len(r) : r[i] \in Events
      BY <1>0
    <2>2. \A x \in Events : x.n \in Nat
      BY DEF Events
    <2> QED BY <2>1, <2>2 DEF Numbered
  <1>4. Head(r).n \in 0..MaxEvents /\ Head(r).n <= hi
    BY <1>0, <1>1, <1>3, BoundsAssumption DEF Events
  <1>5. Numbered(Tail(r), c, Head(r).n, hi)
    <2> SUFFICES ASSUME NEW i \in 1..(Len(r) - 1)
                 PROVE  /\ Tail(r)[i].crew = c /\ Tail(r)[i].n <= hi
                        /\ Tail(r)[i].n > (IF i = 1 THEN Head(r).n ELSE Tail(r)[i - 1].n)
      BY <1>1 DEF Numbered
    <2>1. i + 1 \in 1..Len(r) /\ i + 1 # 1 /\ (i + 1) - 1 = i /\ (i # 1 => i - 1 \in 1..(Len(r) - 1) /\ (i - 1) + 1 = i)
      BY <1>0
    <2>2. r[i + 1].n > r[i].n /\ r[i + 1].n <= hi /\ r[i + 1].crew = c
      BY <1>3, <2>1
    <2>3. Tail(r)[i] = r[i + 1] /\ (i # 1 => Tail(r)[i - 1] = r[i])
      BY <1>1, <2>1
    <2> QED BY <1>1, <2>2, <2>3
  <1> QED BY <1>2, <1>4, <1>5

\* Taking from the pool, which is a stack, and giving back.
LEMMA PoolTake ==
  ASSUME PoolTyped, idle # <<>>, idle' = Tail(idle), UNCHANGED minted
  PROVE  PoolTyped' /\ Head(idle) \in Minted /\ Head(idle) \in Pool /\ Pool' = Pool \ {Head(idle)}
  <1>0. idle \in Seq(Minted) /\ Len(idle) \in Nat \ {0} /\ Minted' = Minted
    BY DEF PoolTyped, Minted
  <1>1. /\ Tail(idle) \in Seq(Minted) /\ DOMAIN Tail(idle) = 1..(Len(idle) - 1)
        /\ \A i \in 1..(Len(idle) - 1) : Tail(idle)[i] = idle[i + 1]
        /\ Head(idle) = idle[1] /\ DOMAIN idle = 1..Len(idle) /\ idle[1] \in Minted
    BY <1>0
  <1>2. \A i, j \in 1..Len(idle) : i # j => idle[i] # idle[j]
    BY <1>1 DEF PoolTyped
  <1>3. PoolTyped'
    <2>1. \A i, j \in 1..(Len(idle) - 1) : i # j => Tail(idle)[i] # Tail(idle)[j]
      <3> SUFFICES ASSUME NEW i \in 1..(Len(idle) - 1), NEW j \in 1..(Len(idle) - 1), i # j
                   PROVE  Tail(idle)[i] # Tail(idle)[j]
        OBVIOUS
      <3>1. i + 1 \in 1..Len(idle) /\ j + 1 \in 1..Len(idle) /\ i + 1 # j + 1
        BY <1>0
      <3> QED BY <1>1, <1>2, <3>1
    <2> QED BY <1>0, <1>1, <2>1 DEF PoolTyped
  <1>4. Pool' = Pool \ {Head(idle)}
    <2>1. ASSUME NEW u \in Pool' PROVE u \in Pool \ {Head(idle)}
      <3>1. PICK i \in 1..(Len(idle) - 1) : u = Tail(idle)[i]
        BY <1>1, <2>1 DEF Pool, Range
      <3>2. i + 1 \in 1..Len(idle) /\ i + 1 # 1 /\ 1 \in 1..Len(idle)
        BY <1>0
      <3> QED BY <1>1, <1>2, <3>1, <3>2 DEF Pool, Range
    <2>2. ASSUME NEW u \in Pool, u # Head(idle) PROVE u \in Pool'
      <3>1. PICK i \in 1..Len(idle) : u = idle[i]
        BY <1>1 DEF Pool, Range
      <3>2. i - 1 \in 1..(Len(idle) - 1) /\ (i - 1) + 1 = i
        BY <1>0, <1>1, <2>2, <3>1
      <3> QED BY <1>1, <3>1, <3>2 DEF Pool, Range
    <2> QED BY <2>1, <2>2
  <1>5. Head(idle) \in Pool
    BY <1>0, <1>1 DEF Pool, Range
  <1> QED BY <1>1, <1>3, <1>4, <1>5

LEMMA PoolGive ==
  ASSUME PoolTyped, NEW u \in Minted, u \notin Pool, idle' = <<u>> \o idle, UNCHANGED minted
  PROVE  PoolTyped' /\ Pool' = Pool \cup {u}
  <1>0. idle \in Seq(Minted) /\ Len(idle) \in Nat /\ Minted' = Minted /\ DOMAIN idle = 1..Len(idle)
    BY DEF PoolTyped, Minted
  <1>1. /\ idle' \in Seq(Minted) /\ DOMAIN idle' = 1..(Len(idle) + 1) /\ idle'[1] = u
        /\ \A i \in 2..(Len(idle) + 1) : idle'[i] = idle[i - 1]
    BY <1>0
  <1>2. \A i \in 1..Len(idle) : idle[i] # u
    BY <1>0 DEF Pool, Range
  <1>3. PoolTyped'
    <2> SUFFICES ASSUME NEW i \in 1..(Len(idle) + 1), NEW j \in 1..(Len(idle) + 1), i # j
                 PROVE  idle'[i] # idle'[j]
      BY <1>0, <1>1 DEF PoolTyped
    <2>1. i # 1 => i - 1 \in 1..Len(idle) /\ i \in 2..(Len(idle) + 1)
      BY <1>0
    <2>2. j # 1 => j - 1 \in 1..Len(idle) /\ j \in 2..(Len(idle) + 1)
      BY <1>0
    <2>3. i - 1 # j - 1
      BY <1>0
    <2>4. CASE i # 1 /\ j # 1
      <3>1. idle[i - 1] # idle[j - 1]
        BY <1>0, <2>1, <2>2, <2>3, <2>4 DEF PoolTyped
      <3> QED BY <1>1, <2>1, <2>2, <2>4, <3>1
    <2>5. CASE i = 1
      BY <1>1, <1>2, <2>2, <2>5
    <2>6. CASE j = 1
      BY <1>1, <1>2, <2>1, <2>6
    <2> QED BY <2>4, <2>5, <2>6
  <1>4. Pool' = Pool \cup {u}
    <2>1. ASSUME NEW v \in Pool' PROVE v \in Pool \cup {u}
      <3>1. PICK i \in 1..(Len(idle) + 1) : v = idle'[i]
        BY <1>1, <2>1 DEF Pool, Range
      <3>2. i # 1 => i - 1 \in 1..Len(idle) /\ i \in 2..(Len(idle) + 1)
        BY <1>0
      <3> QED BY <1>0, <1>1, <3>1, <3>2 DEF Pool, Range
    <2>2. ASSUME NEW v \in Pool PROVE v \in Pool'
      <3>1. PICK i \in 1..Len(idle) : v = idle[i]
        BY <1>0 DEF Pool, Range
      <3>2. i + 1 \in 2..(Len(idle) + 1) /\ (i + 1) - 1 = i /\ i + 1 \in 1..(Len(idle) + 1)
        BY <1>0
      <3> QED BY <1>1, <3>1, <3>2 DEF Pool, Range
    <2>3. u \in Pool'
      BY <1>0, <1>1 DEF Pool, Range
    <2> QED BY <2>1, <2>2, <2>3
  <1> QED BY <1>3, <1>4

LEMMA PoolSame ==
  ASSUME PoolTyped, UNCHANGED <<idle, minted>>
  PROVE  PoolTyped' /\ Pool' = Pool /\ Minted' = Minted
  BY DEF PoolTyped, Pool, Minted

\* One more subscription is made: its number is new.
LEMMA Mints ==
  ASSUME PoolTyped, UNCHANGED idle, minted' = minted + 1
  PROVE  PoolTyped' /\ Pool' = Pool /\ Minted' = Minted \cup {minted + 1} /\ minted + 1 \notin Minted \cup {0} \cup Pool
  <1>0. minted \in Nat /\ idle \in Seq(Minted) /\ DOMAIN idle = 1..Len(idle) /\ Len(idle) \in Nat
    BY DEF PoolTyped
  <1>1. Minted' = Minted \cup {minted + 1} /\ minted + 1 \notin Minted \cup {0}
    BY <1>0 DEF Minted
  <1>2. Pool' = Pool /\ Pool \subseteq Minted
    BY <1>0 DEF Pool, Range
  <1>3. idle' \in Seq(Minted')
    BY <1>0, <1>1
  <1> QED BY <1>0, <1>1, <1>2, <1>3 DEF PoolTyped

LEMMA PoolMinted == PoolTyped => Pool \subseteq Minted /\ 0 \notin Minted
  BY DEF PoolTyped, Pool, Range, Minted

\* No more are made than there are clients to stand for them.
LEMMA CountFits ==
  ASSUME NEW n \in Nat, NEW by \in [1..n -> Clients], \A u, v \in 1..n : by[u] = by[v] => u = v
  PROVE  n <= Cardinality(Clients) /\ 1..n \subseteq Subs
  <1>2. by \in Injection(1..n, Clients)
    BY DEF Injection, IsInjective
  <1>3. Cardinality(1..n) <= Cardinality(Clients) /\ IsFiniteSet(Clients)
    BY <1>2, FS_Injection, ClientsAssumption
  <1>4. Cardinality(1..n) = n /\ Cardinality(Clients) \in Nat
    BY <1>3, FS_Interval, FS_CardinalityType
  <1> QED BY <1>3, <1>4 DEF Subs

LEMMA MintedFit ==
  ASSUME minted \in Nat, Minters
  PROVE  minted <= Cardinality(Clients) /\ Minted \subseteq Subs
  <1>1. PICK by \in [Minted -> Clients] : StandsFor(by)
    BY DEF Minters
  <1>2. \A u, v \in Minted : by[u] = by[v] => u = v
    BY <1>1 DEF StandsFor
  <1> QED BY <1>1, <1>2, CountFits DEF Minted

LEMMA MadeFit == made \in Ids => Made \subseteq Senders /\ 0 \notin Made
  BY BoundsAssumption DEF Ids, Made, Senders
-----------------------------------------------------------------------------
(* The steps.                                                              *)

\* The sender that is got was made for that crew, now or before.
LEMMA Gets ==
  ASSUME SendersTyped, NEW c \in Crews, NEW owner \in [Senders -> Crews \cup {0}], OwnedBy(owner), GetSender(c),
         UNCHANGED minted
  PROVE  /\ made' \in Ids /\ Made \subseteq Made' /\ SenderOf(c) \in Made' /\ 0 \notin Made' /\ UNCHANGED subs
         /\ channels' \in [Crews -> Made' \cup {0}] /\ Made' \subseteq Senders
         /\ \E new \in [Senders -> Crews \cup {0}] :
              /\ new[SenderOf(c)] = c /\ \A r \in Made : new[r] = owner[r]
              /\ \A d \in Crews : channels'[d] # 0 => new[channels'[d]] = d
  <1>1. CASE channels[c] # 0
    <2>1. UNCHANGED <<channels, subs, made>> /\ SenderOf(c) = channels[c]
      BY <1>1 DEF GetSender, bus, SenderOf
    <2>2. Made' = Made /\ Made \subseteq Senders /\ 0 \notin Made
      BY <2>1, MadeFit DEF SendersTyped, Made
    <2>3. /\ owner[SenderOf(c)] = c
          /\ \A d \in Crews : channels'[d] # 0 => owner[channels'[d]] = d
      BY <1>1, <2>1 DEF OwnedBy
    <2> QED BY <1>1, <2>1, <2>2, <2>3 DEF SendersTyped
  <1>2. CASE channels[c] = 0
    <2> DEFINE s == made + 1
    <2>1. /\ made < MaxSenders /\ made' = s /\ SenderOf(c) = s /\ UNCHANGED subs
          /\ channels' = [Cleaned EXCEPT ![c] = s]
      BY <1>2 DEF GetSender, SenderOf
    <2>2. made \in Nat /\ made' \in Ids /\ made' \in Senders
      BY <2>1, BoundsAssumption DEF SendersTyped, Ids, Senders
    <2>3. Made' = Made \cup {s} /\ s \notin Made \cup {0} /\ 0 \notin Made'
      BY <2>1, <2>2 DEF Made
    <2>4. Cleaned \in [Crews -> Made \cup {0}] /\ \A d \in Crews : Cleaned[d] \in {0, channels[d]}
      BY DEF Cleaned, SendersTyped
    <2>5. Made' \subseteq Senders
      BY <2>1, <2>2, <2>3, MadeFit DEF SendersTyped
    <2> HIDE DEF s
    <2> DEFINE new == [owner EXCEPT ![s] = c]
    <2>6. s \in Senders /\ new \in [Senders -> Crews \cup {0}] /\ new[s] = c /\ \A r \in Made : new[r] = owner[r]
      BY <2>1, <2>2, <2>3, <2>5
    <2>7. channels' \in [Crews -> Made' \cup {0}]
      BY <2>1, <2>3, <2>4
    <2>8. \A d \in Crews : channels'[d] # 0 => new[channels'[d]] = d
      <3> SUFFICES ASSUME NEW d \in Crews, channels'[d] # 0 PROVE new[channels'[d]] = d
        OBVIOUS
      <3>1. CASE d = c
        BY <2>1, <2>4, <2>6, <3>1
      <3>2. CASE d # c
        <4>1. channels'[d] = channels[d] /\ channels[d] \in Made
          BY <2>1, <2>4, <3>2 DEF SendersTyped
        <4> QED BY <2>6, <4>1 DEF OwnedBy
      <3> QED BY <3>1, <3>2
    <2> HIDE DEF new
    <2> QED BY <2>1, <2>2, <2>3, <2>5, <2>6, <2>7, <2>8
  <1> QED BY <1>1, <1>2

LEMMA BusStart == Init => BusInv
  <1> SUFFICES ASSUME Init PROVE BusInv
    OBVIOUS
  <1>0. /\ made = 0 /\ minted = 0 /\ idle = <<>> /\ Made = {} /\ Minted = {} /\ Pool = {}
    BY DEF Init, Made, Minted, Pool, Range
  <1>1. Typed
    BY BoundsAssumption DEF Init, Typed, Places
  <1>2. SendersTyped
    BY <1>0, BoundsAssumption DEF Init, SendersTyped, Ids
  <1>3. PoolTyped
    BY <1>0 DEF PoolTyped
  <1>4. RingsTyped
    BY EmptyRing DEF Init, RingsTyped
  <1>5. ByPlace /\ Holders /\ Listed
    BY <1>0, ClientsAssumption DEF Init, ByPlace, Holders, Listed, Clients
  <1>6. Contents
    BY <1>0, BoundsAssumption DEF Init, Contents
  <1>7. Owners
    <2> DEFINE owner == [s \in Senders |-> 0]
    <2>1. owner \in [Senders -> Crews \cup {0}] /\ OwnedBy(owner)
      BY DEF Init, OwnedBy
    <2> QED BY <2>1 DEF Owners
  <1>8. Minters
    <2> DEFINE by == [u \in Minted |-> CHOOSE k \in Clients : TRUE]
    <2>1. by \in [Minted -> Clients] /\ StandsFor(by)
      BY <1>0 DEF StandsFor
    <2> QED BY <2>1 DEF Minters
  <1> QED BY <1>1, <1>2, <1>3, <1>4, <1>5, <1>6, <1>7, <1>8 DEF BusInv

LEMMA AskExistsStep ==
  ASSUME BusInv, NEW k \in Clients, AskExists(k)
  PROVE  BusInv'
  <1>0. /\ Typed /\ SendersTyped /\ PoolTyped /\ RingsTyped /\ ByPlace
        /\ Holders /\ Listed /\ Contents /\ Owners /\ Minters
    BY DEF BusInv
  <1>1. /\ at[k] = "start" /\ k \in Streams /\ at' = [at EXCEPT ![k] = "taking"]
        /\ exists' = [exists EXCEPT ![k] = channels[of[k]] # 0] /\ UNCHANGED <<channels, subs, made, ring, lagged, closed, idle, minted, crew, tx, sent, of, htx, sub, lag, seen>>
    BY DEF AskExists, bus, pool, runs, Goes
  <1>s. PoolTyped' /\ Pool' = Pool /\ Minted' = Minted
    BY <1>0, <1>1, PoolSame
  <1>m. Made' = Made
    BY <1>1 DEF Made
  <1>10. SendersTyped'
    BY <1>0, <1>1, <1>s, <1>m DEF SendersTyped
  <1>11. RingsTyped'
    BY <1>0, <1>1, <1>s DEF RingsTyped
  <1>12. Holders'
    BY <1>0, <1>1, <1>s DEF Holders
  <1>13. Contents'
    BY <1>0, <1>1, <1>s DEF Contents
  <1>14. Owners'
    BY <1>0, <1>1 DEF Owners, OwnedBy
  <1>15. Minters'
    BY <1>0, <1>1, <1>s DEF Minters, StandsFor
  <1>16. Typed'
    BY <1>0, <1>1 DEF Typed, Places
  <1>17. ByPlace'
    BY <1>0, <1>1, ClientsAssumption DEF ByPlace, Typed
  <1>18. Listed'
    BY <1>0, <1>1, <1>s, ClientsAssumption DEF Listed, Typed, Clients
  <1> QED BY <1>s, <1>10, <1>11, <1>12, <1>13, <1>14, <1>15, <1>16, <1>17, <1>18 DEF BusInv

LEMMA ReadLagStep ==
  ASSUME BusInv, NEW k \in Clients, ReadLag(k)
  PROVE  BusInv'
  <1>0. /\ Typed /\ SendersTyped /\ PoolTyped /\ RingsTyped /\ ByPlace
        /\ Holders /\ Listed /\ Contents /\ Owners /\ Minters
    BY DEF BusInv
  <1>1. /\ at[k] = "lag" /\ at' = [at EXCEPT ![k] = "clear"]
        /\ lag' = [lag EXCEPT ![k] = lagged[sub[k]]] /\ UNCHANGED <<channels, subs, made, ring, lagged, closed, idle, minted, crew, tx, sent, of, exists, htx, sub, seen>>
    BY DEF ReadLag, bus, pool, runs, Goes
  <1>s. PoolTyped' /\ Pool' = Pool /\ Minted' = Minted
    BY <1>0, <1>1, PoolSame
  <1>m. Made' = Made
    BY <1>1 DEF Made
  <1>10. SendersTyped'
    BY <1>0, <1>1, <1>s, <1>m DEF SendersTyped
  <1>11. RingsTyped'
    BY <1>0, <1>1, <1>s DEF RingsTyped
  <1>12. Holders'
    BY <1>0, <1>1, <1>s DEF Holders
  <1>13. Contents'
    BY <1>0, <1>1, <1>s DEF Contents
  <1>14. Owners'
    BY <1>0, <1>1 DEF Owners, OwnedBy
  <1>15. Minters'
    BY <1>0, <1>1, <1>s DEF Minters, StandsFor
  <1>16. Typed'
    <2>1. sub[k] \in Subs
      BY <1>0, <1>1, MintedFit DEF ByPlace, RingsTyped, PoolTyped
    <2> QED BY <1>0, <1>1, <2>1 DEF Typed, Places
  <1>17. ByPlace'
    BY <1>0, <1>1 DEF ByPlace, Typed
  <1>18. Listed'
    BY <1>0, <1>1, <1>s DEF Listed, Typed, Clients
  <1> QED BY <1>s, <1>10, <1>11, <1>12, <1>13, <1>14, <1>15, <1>16, <1>17, <1>18 DEF BusInv

LEMMA ClearLagStep ==
  ASSUME BusInv, NEW k \in Clients, ClearLag(k)
  PROVE  BusInv'
  <1>0. /\ Typed /\ SendersTyped /\ PoolTyped /\ RingsTyped /\ ByPlace
        /\ Holders /\ Listed /\ Contents /\ Owners /\ Minters
    BY DEF BusInv
  <1>1. /\ at[k] = "clear" /\ at' = [at EXCEPT ![k] = IF lag[k] > 0 /\ k \in Streams THEN "lagged" ELSE "recv"]
        /\ lagged' = [lagged EXCEPT ![sub[k]] = 0] /\ UNCHANGED <<channels, subs, made, ring, closed, idle, minted, crew, tx, sent, of, exists, htx, sub, lag, seen>>
    BY DEF ClearLag, bus, runs, local, Goes
  <1>s. PoolTyped' /\ Pool' = Pool /\ Minted' = Minted
    BY <1>0, <1>1, PoolSame
  <1>m. Made' = Made
    BY <1>1 DEF Made
  <1>10. SendersTyped'
    BY <1>0, <1>1, <1>s, <1>m DEF SendersTyped
  <1>11. RingsTyped'
    BY <1>0, <1>1, <1>s DEF RingsTyped
  <1>12. Holders'
    BY <1>0, <1>1, <1>s DEF Holders
  <1>13. Contents'
    BY <1>0, <1>1, <1>s DEF Contents
  <1>14. Owners'
    BY <1>0, <1>1 DEF Owners, OwnedBy
  <1>15. Minters'
    BY <1>0, <1>1, <1>s DEF Minters, StandsFor
  <1>16. Typed'
    BY <1>0, <1>1 DEF Typed, Places
  <1>17. ByPlace'
    BY <1>0, <1>1, ClientsAssumption DEF ByPlace, Typed
  <1>18. Listed'
    BY <1>0, <1>1, <1>s DEF Listed, Typed, Clients
  <1> QED BY <1>s, <1>10, <1>11, <1>12, <1>13, <1>14, <1>15, <1>16, <1>17, <1>18 DEF BusInv

LEMMA AskClosedStep ==
  ASSUME BusInv, NEW k \in Clients, AskClosed(k)
  PROVE  BusInv'
  <1>0. /\ Typed /\ SendersTyped /\ PoolTyped /\ RingsTyped /\ ByPlace
        /\ Holders /\ Listed /\ Contents /\ Owners /\ Minters
    BY DEF BusInv
  <1>1. /\ at[k] = "closed" /\ at' = [at EXCEPT ![k] = IF closed[sub[k]] THEN "over" ELSE "lag"] /\ UNCHANGED <<channels, subs, made, ring, lagged, closed, idle, minted, crew, tx, sent, of, exists, htx, sub, lag, seen>>
    BY DEF AskClosed, bus, pool, runs, local, Goes
  <1>s. PoolTyped' /\ Pool' = Pool /\ Minted' = Minted
    BY <1>0, <1>1, PoolSame
  <1>m. Made' = Made
    BY <1>1 DEF Made
  <1>10. SendersTyped'
    BY <1>0, <1>1, <1>s, <1>m DEF SendersTyped
  <1>11. RingsTyped'
    BY <1>0, <1>1, <1>s DEF RingsTyped
  <1>12. Holders'
    BY <1>0, <1>1, <1>s DEF Holders
  <1>13. Contents'
    BY <1>0, <1>1, <1>s DEF Contents
  <1>14. Owners'
    BY <1>0, <1>1 DEF Owners, OwnedBy
  <1>15. Minters'
    BY <1>0, <1>1, <1>s DEF Minters, StandsFor
  <1>16. Typed'
    BY <1>0, <1>1 DEF Typed, Places
  <1>17. ByPlace'
    BY <1>0, <1>1 DEF ByPlace, Typed
  <1>18. Listed'
    BY <1>0, <1>1, <1>s DEF Listed, Typed, Clients
  <1> QED BY <1>s, <1>10, <1>11, <1>12, <1>13, <1>14, <1>15, <1>16, <1>17, <1>18 DEF BusInv

LEMMA RecvStep ==
  ASSUME BusInv, NEW k \in Clients, Recv(k)
  PROVE  BusInv'
  <1>0. /\ Typed /\ SendersTyped /\ PoolTyped /\ RingsTyped /\ ByPlace
        /\ Holders /\ Listed /\ Contents /\ Owners /\ Minters
    BY DEF BusInv
  <1>a. at[k] = "recv" /\ sub[k] # 0 /\ sub[k] \in Minted /\ sub[k] \in Subs /\ sub[k] \notin Pool
    BY <1>0, MintedFit DEF Recv, ByPlace, RingsTyped, PoolTyped, Holders
  <1>1. UNCHANGED <<channels, subs, made, lagged, closed, idle, minted, crew, tx, sent, of, exists, htx, sub, lag>>
    BY DEF Recv, bus, runs
  <1>2. \/ /\ ring[sub[k]] # <<>> /\ ring' = [ring EXCEPT ![sub[k]] = Tail(@)]
           /\ seen' = [seen EXCEPT ![k] = Head(ring[sub[k]]).n] /\ at' = [at EXCEPT ![k] = "lag"]
        \/ at' = [at EXCEPT ![k] = "closed"] /\ UNCHANGED <<ring, seen>>
    BY DEF Recv, Goes
  <1>3. /\ ring[sub[k]] \in Rings /\ Numbered(ring[sub[k]], of[k], seen[k], sent[of[k]])
        /\ seen[k] \in Nat /\ sent[of[k]] \in Nat
    BY <1>0, <1>a DEF RingsTyped, Contents, Typed
  <1>4. ring[sub[k]] # <<>> =>
          /\ Tail(ring[sub[k]]) \in Rings /\ Head(ring[sub[k]]).n \in 0..MaxEvents
          /\ Numbered(Tail(ring[sub[k]]), of[k], Head(ring[sub[k]]).n, sent[of[k]])
          /\ Head(ring[sub[k]]).n <= sent[of[k]]
    BY <1>3, ReadRing
  <1>s. PoolTyped' /\ Pool' = Pool /\ Minted' = Minted
    BY <1>0, <1>1, PoolSame
  <1>m. Made' = Made
    BY <1>1 DEF Made
  <1>10. SendersTyped'
    BY <1>0, <1>1, <1>s, <1>m DEF SendersTyped
  <1>11. Holders'
    BY <1>0, <1>1, <1>s DEF Holders
  <1>12. Owners'
    BY <1>0, <1>1 DEF Owners, OwnedBy
  <1>13. Minters'
    BY <1>0, <1>1, <1>s DEF Minters, StandsFor
  <1>14. Typed'
    BY <1>0, <1>1, <1>2, <1>4 DEF Typed, Places
  <1>15. RingsTyped'
    BY <1>0, <1>1, <1>s, <1>2, <1>4, ZenonT(40) DEF RingsTyped
  <1>16. ByPlace'
    BY <1>0, <1>1, <1>2, <1>a DEF ByPlace, Typed
  <1>17. Listed'
    BY <1>0, <1>1, <1>2, <1>a, <1>s DEF Listed, Typed, Clients
  <1>18. Contents'
    <2>1. CASE UNCHANGED <<ring, seen>>
      BY <1>0, <1>1, <1>s, <2>1 DEF Contents
    <2>2. CASE /\ ring[sub[k]] # <<>> /\ ring' = [ring EXCEPT ![sub[k]] = Tail(@)]
               /\ seen' = [seen EXCEPT ![k] = Head(ring[sub[k]]).n]
      <3>1. ASSUME NEW j \in Clients, sub[j] # 0
            PROVE  Numbered(ring'[sub[j]], of[j], seen'[j], sent[of[j]])
        <4>1. CASE j = k
          BY <1>0, <1>a, <1>4, <2>2, <4>1 DEF RingsTyped, Typed
        <4>2. CASE j # k
          <5>1. sub[j] # sub[k]
            BY <1>0, <1>a, <4>2 DEF Holders
          <5> QED BY <1>0, <2>2, <3>1, <4>2, <5>1 DEF Contents, RingsTyped, Typed
        <4> QED BY <4>1, <4>2
      <3>2. \A j \in Clients : seen'[j] <= sent[of[j]]
        BY <1>0, <1>4, <2>2 DEF Contents, Typed
      <3>3. \A u \in Subs : u \in Pool \/ u \notin Minted => ring'[u] = <<>>
        BY <1>0, <1>a, <2>2 DEF Contents, RingsTyped
      <3> QED BY <1>1, <1>s, <3>1, <3>2, <3>3 DEF Contents
    <2> QED BY <1>2, <2>1, <2>2
  <1> QED BY <1>s, <1>10, <1>11, <1>12, <1>13, <1>14, <1>15, <1>16, <1>17, <1>18 DEF BusInv

LEMMA RegisterStep ==
  ASSUME BusInv, NEW c \in Crews, Register(c)
  PROVE  BusInv'
  <1>0. /\ Typed /\ SendersTyped /\ PoolTyped /\ RingsTyped /\ ByPlace
        /\ Holders /\ Listed /\ Contents /\ Owners /\ Minters
    BY DEF BusInv
  <1>1. /\ GetSender(c) /\ crew' = [crew EXCEPT ![c] = "running"] /\ tx' = [tx EXCEPT ![c] = SenderOf(c)] /\ UNCHANGED <<ring, lagged, closed, idle, minted, sent, of, at, exists, htx, sub, lag, seen>>
    BY DEF Register, pool, local
  <1>b. PICK owner \in [Senders -> Crews \cup {0}] : OwnedBy(owner)
    BY <1>0 DEF Owners
  <1>g. /\ made' \in Ids /\ Made \subseteq Made' /\ SenderOf(c) \in Made' /\ 0 \notin Made'
        /\ channels' \in [Crews -> Made' \cup {0}] /\ Made' \subseteq Senders /\ UNCHANGED subs
        /\ \E new \in [Senders -> Crews \cup {0}] :
             /\ new[SenderOf(c)] = c /\ \A r \in Made : new[r] = owner[r]
             /\ \A d \in Crews : channels'[d] # 0 => new[channels'[d]] = d
    BY <1>0, <1>b, <1>1, Gets DEF Typed
  <1>s. PoolTyped' /\ Pool' = Pool /\ Minted' = Minted
    BY <1>0, <1>1, PoolSame
  <1>10. RingsTyped'
    BY <1>0, <1>1, <1>s DEF RingsTyped
  <1>11. ByPlace'
    BY <1>0, <1>1 DEF ByPlace
  <1>12. Holders'
    BY <1>0, <1>1, <1>s DEF Holders
  <1>13. Contents'
    BY <1>0, <1>1, <1>s DEF Contents
  <1>14. Minters'
    BY <1>0, <1>1, <1>s DEF Minters, StandsFor
  <1>15. Typed'
    BY <1>0, <1>1 DEF Typed
  <1>16. SendersTyped'
    BY <1>0, <1>1, <1>g, <1>s DEF SendersTyped, Typed
  <1>17. Listed'
    BY <1>0, <1>1, <1>g, <1>s DEF Listed
  <1>18. Owners'
    <2>1. PICK new \in [Senders -> Crews \cup {0}] :
            /\ new[SenderOf(c)] = c /\ \A r \in Made : new[r] = owner[r]
            /\ \A d \in Crews : channels'[d] # 0 => new[channels'[d]] = d
      BY <1>g
    <2>2. \A d \in Crews : tx'[d] # 0 => new[tx'[d]] = d
      BY <1>0, <1>1, <1>b, <2>1 DEF OwnedBy, SendersTyped
    <2>3. \A j \in Clients : htx'[j] # 0 => new[htx'[j]] = of'[j]
      BY <1>0, <1>1, <1>b, <2>1 DEF OwnedBy, SendersTyped
    <2>4. \A s \in Senders : \A j \in Clients : sub'[j] \in subs'[s] => new[s] = of'[j]
      BY <1>0, <1>1, <1>g, <1>b, <2>1 DEF OwnedBy, SendersTyped
    <2> QED BY <2>1, <2>2, <2>3, <2>4 DEF Owners, OwnedBy
  <1> QED BY <1>s, <1>10, <1>11, <1>12, <1>13, <1>14, <1>15, <1>16, <1>17, <1>18 DEF BusInv

LEMMA TakeSenderStep ==
  ASSUME BusInv, NEW k \in Clients, TakeSender(k)
  PROVE  BusInv'
  <1>0. /\ Typed /\ SendersTyped /\ PoolTyped /\ RingsTyped /\ ByPlace
        /\ Holders /\ Listed /\ Contents /\ Owners /\ Minters
    BY DEF BusInv
  <1>1. /\ GetSender(of[k]) /\ htx' = [htx EXCEPT ![k] = SenderOf(of[k])]
        /\ at[k] = (IF k \in Streams THEN "taking" ELSE "start") /\ at' = [at EXCEPT ![k] = IF k \in Streams THEN "adding" ELSE "taking"]
        /\ UNCHANGED <<ring, lagged, closed, idle, minted, crew, tx, sent, of, exists, sub, lag, seen>>
    BY DEF TakeSender, pool, runs, Goes
  <1>b. PICK owner \in [Senders -> Crews \cup {0}] : OwnedBy(owner)
    BY <1>0 DEF Owners
  <1>g. /\ made' \in Ids /\ Made \subseteq Made' /\ SenderOf(of[k]) \in Made' /\ 0 \notin Made'
        /\ channels' \in [Crews -> Made' \cup {0}] /\ Made' \subseteq Senders /\ UNCHANGED subs
        /\ \E new \in [Senders -> Crews \cup {0}] :
             /\ new[SenderOf(of[k])] = of[k] /\ \A r \in Made : new[r] = owner[r]
             /\ \A d \in Crews : channels'[d] # 0 => new[channels'[d]] = d
    BY <1>0, <1>b, <1>1, Gets DEF Typed
  <1>s. PoolTyped' /\ Pool' = Pool /\ Minted' = Minted
    BY <1>0, <1>1, PoolSame
  <1>10. RingsTyped'
    BY <1>0, <1>1, <1>s DEF RingsTyped
  <1>11. Holders'
    BY <1>0, <1>1, <1>s DEF Holders
  <1>12. Contents'
    BY <1>0, <1>1, <1>s DEF Contents
  <1>13. Minters'
    BY <1>0, <1>1, <1>s DEF Minters, StandsFor
  <1>14. Typed'
    BY <1>0, <1>1 DEF Typed, Places
  <1>15. SendersTyped'
    BY <1>0, <1>1, <1>g, <1>s DEF SendersTyped
  <1>16. ByPlace'
    BY <1>0, <1>1, <1>g, ClientsAssumption DEF ByPlace, Typed, SendersTyped, Clients
  <1>17. Listed'
    BY <1>0, <1>1, <1>g, <1>s, ClientsAssumption DEF Listed, Typed, Clients
  <1>18. Owners'
    <2>1. PICK new \in [Senders -> Crews \cup {0}] :
            /\ new[SenderOf(of[k])] = of[k] /\ \A r \in Made : new[r] = owner[r]
            /\ \A d \in Crews : channels'[d] # 0 => new[channels'[d]] = d
      BY <1>g
    <2>2. \A d \in Crews : tx'[d] # 0 => new[tx'[d]] = d
      BY <1>0, <1>1, <1>b, <2>1 DEF OwnedBy, SendersTyped
    <2>3. \A j \in Clients : htx'[j] # 0 => new[htx'[j]] = of'[j]
      BY <1>0, <1>1, <1>b, <2>1 DEF OwnedBy, SendersTyped
    <2>4. \A s \in Senders : \A j \in Clients : sub'[j] \in subs'[s] => new[s] = of'[j]
      BY <1>0, <1>1, <1>g, <1>b, <2>1 DEF OwnedBy, SendersTyped
    <2> QED BY <2>1, <2>2, <2>3, <2>4 DEF Owners, OwnedBy
  <1> QED BY <1>s, <1>10, <1>11, <1>12, <1>13, <1>14, <1>15, <1>16, <1>17, <1>18 DEF BusInv

LEMMA LeaveSenderStep ==
  ASSUME BusInv, NEW k \in Clients, LeaveSender(k)
  PROVE  BusInv'
  <1>0. /\ Typed /\ SendersTyped /\ PoolTyped /\ RingsTyped /\ ByPlace
        /\ Holders /\ Listed /\ Contents /\ Owners /\ Minters
    BY DEF BusInv
  <1>1. /\ GetSender(of[k]) /\ htx' = [htx EXCEPT ![k] = SenderOf(of[k])]
        /\ at[k] \in {"over", "lagged"} /\ k \in Streams /\ at' = [at EXCEPT ![k] = IF at[k] = "lagged" THEN "leavingLagged" ELSE "leaving"]
        /\ UNCHANGED <<ring, lagged, closed, idle, minted, crew, tx, sent, of, exists, sub, lag, seen>>
    BY DEF LeaveSender, pool, runs, Goes
  <1>b. PICK owner \in [Senders -> Crews \cup {0}] : OwnedBy(owner)
    BY <1>0 DEF Owners
  <1>g. /\ made' \in Ids /\ Made \subseteq Made' /\ SenderOf(of[k]) \in Made' /\ 0 \notin Made'
        /\ channels' \in [Crews -> Made' \cup {0}] /\ Made' \subseteq Senders /\ UNCHANGED subs
        /\ \E new \in [Senders -> Crews \cup {0}] :
             /\ new[SenderOf(of[k])] = of[k] /\ \A r \in Made : new[r] = owner[r]
             /\ \A d \in Crews : channels'[d] # 0 => new[channels'[d]] = d
    BY <1>0, <1>b, <1>1, Gets, SMTT(40) DEF Typed
  <1>s. PoolTyped' /\ Pool' = Pool /\ Minted' = Minted
    BY <1>0, <1>1, PoolSame
  <1>10. RingsTyped'
    BY <1>0, <1>1, <1>s DEF RingsTyped
  <1>11. Holders'
    BY <1>0, <1>1, <1>s DEF Holders
  <1>12. Contents'
    BY <1>0, <1>1, <1>s DEF Contents
  <1>13. Minters'
    BY <1>0, <1>1, <1>s DEF Minters, StandsFor
  <1>14. Typed'
    BY <1>0, <1>1 DEF Typed, Places
  <1>15. SendersTyped'
    BY <1>0, <1>1, <1>g, <1>s DEF SendersTyped
  <1>16. ByPlace'
    BY <1>0, <1>1, <1>g, ClientsAssumption DEF ByPlace, Typed, SendersTyped, Clients
  <1>17. Listed'
    BY <1>0, <1>1, <1>g, <1>s, ClientsAssumption DEF Listed, Typed, Clients
  <1>18. Owners'
    <2>1. PICK new \in [Senders -> Crews \cup {0}] :
            /\ new[SenderOf(of[k])] = of[k] /\ \A r \in Made : new[r] = owner[r]
            /\ \A d \in Crews : channels'[d] # 0 => new[channels'[d]] = d
      BY <1>g
    <2>2. \A d \in Crews : tx'[d] # 0 => new[tx'[d]] = d
      BY <1>0, <1>1, <1>b, <2>1 DEF OwnedBy, SendersTyped
    <2>3. \A j \in Clients : htx'[j] # 0 => new[htx'[j]] = of'[j]
      BY <1>0, <1>1, <1>b, <2>1 DEF OwnedBy, SendersTyped
    <2>4. \A s \in Senders : \A j \in Clients : sub'[j] \in subs'[s] => new[s] = of'[j]
      BY <1>0, <1>1, <1>g, <1>b, <2>1 DEF OwnedBy, SendersTyped
    <2> QED BY <2>1, <2>2, <2>3, <2>4 DEF Owners, OwnedBy
  <1> QED BY <1>s, <1>10, <1>11, <1>12, <1>13, <1>14, <1>15, <1>16, <1>17, <1>18 DEF BusInv

LEMMA SendStep ==
  ASSUME BusInv, NEW c \in Crews, Send(c)
  PROVE  BusInv'
  <1>0. /\ Typed /\ SendersTyped /\ PoolTyped /\ RingsTyped /\ ByPlace
        /\ Holders /\ Listed /\ Contents /\ Owners /\ Minters
    BY DEF BusInv
  <1>1. /\ sent[c] < MaxEvents /\ sent' = [sent EXCEPT ![c] = @ + 1] /\ UNCHANGED <<channels, subs, made, closed, idle, minted, crew, tx, of, at, exists, htx, sub, lag, seen>>
    BY DEF Send, bus, local
  <1>2. /\ ring' = [u \in Subs |-> IF u \in subs[tx[c]] THEN Pushed(u, [crew |-> c, n |-> sent[c] + 1]) ELSE ring[u]]
        /\ lagged' = [u \in Subs |-> IF u \in subs[tx[c]] /\ ~closed[u] /\ Full(u) THEN lagged[u] + 1 ELSE lagged[u]]
    BY DEF Send
  <1>3. sent[c] \in Nat /\ sent[c] + 1 \in 0..MaxEvents /\ sent[c] + 1 \in 1..MaxEvents
    BY <1>0, <1>1, BoundsAssumption DEF Typed
  <1>4. ASSUME NEW u \in Subs
        PROVE  \/ ring'[u] = ring[u]
               \/ \E k \in Clients : /\ sub[k] = u /\ of[k] = c /\ u \in Minted \ Pool /\ ring'[u] \in Rings
                                     /\ Numbered(ring'[u], c, seen[k], sent[c] + 1)
    <2>1. CASE u \notin subs[tx[c]] \/ closed[u]
      BY <1>2, <2>1 DEF Pushed
    <2>2. CASE u \in subs[tx[c]] /\ ~closed[u]
      <3>0. tx[c] # 0 /\ tx[c] \in Made /\ tx[c] \in Senders
        BY <1>0, MadeFit DEF SendersTyped, Send
      <3>1. u \in Minted /\ u \notin Pool
        BY <1>0, <2>2, <3>0 DEF SendersTyped, Listed
      <3>2. PICK k \in Clients : sub[k] = u
        BY <1>0, <3>1 DEF Holders
      <3>3. of[k] = c
        <4>1. PICK owner \in [Senders -> Crews \cup {0}] : OwnedBy(owner)
          BY <1>0 DEF Owners
        <4> QED BY <2>2, <3>0, <3>2, <4>1 DEF OwnedBy
      <3>4. /\ ring[u] \in Rings /\ Numbered(ring[u], c, seen[k], sent[c])
            /\ seen[k] \in Nat /\ seen[k] <= sent[c]
        <4>1. u # 0
          BY <3>1, <1>0, PoolMinted
        <4> QED BY <1>0, <3>2, <3>3, <4>1 DEF RingsTyped, Contents, Typed
      <3> DEFINE e == [crew |-> c, n |-> sent[c] + 1]
                 new == IF Len(ring[u]) >= Capacity THEN Append(Tail(ring[u]), e) ELSE Append(ring[u], e)
      <3>5. new \in Rings /\ Numbered(new, c, seen[k], sent[c] + 1)
        BY <1>3, <3>4, PushedRing
      <3>6. ring'[u] = new
        BY <1>2, <2>2 DEF Pushed, Full
      <3> QED BY <3>1, <3>2, <3>3, <3>5, <3>6
    <2> QED BY <2>1, <2>2
  <1>s. PoolTyped' /\ Pool' = Pool /\ Minted' = Minted
    BY <1>0, <1>1, PoolSame
  <1>m. Made' = Made
    BY <1>1 DEF Made
  <1>10. SendersTyped'
    BY <1>0, <1>1, <1>s, <1>m DEF SendersTyped
  <1>11. ByPlace'
    BY <1>0, <1>1 DEF ByPlace
  <1>12. Holders'
    BY <1>0, <1>1, <1>s DEF Holders
  <1>13. Listed'
    BY <1>0, <1>1, <1>s DEF Listed
  <1>14. Owners'
    BY <1>0, <1>1 DEF Owners, OwnedBy
  <1>15. Minters'
    BY <1>0, <1>1, <1>s DEF Minters, StandsFor
  <1>16. Typed'
    BY <1>0, <1>1, <1>2, <1>3 DEF Typed
  <1>17. RingsTyped'
    <2>1. \A u \in Subs : ring'[u] \in Rings
      BY <1>0, <1>4 DEF RingsTyped
    <2>2. ring' \in [Subs -> Rings]
      BY <1>2, <2>1
    <2> QED BY <1>0, <1>1, <1>s, <2>2 DEF RingsTyped
  <1>18. Contents'
    <2>1. ASSUME NEW k \in Clients, sub[k] # 0
          PROVE  Numbered(ring'[sub[k]], of[k], seen[k], sent'[of[k]])
      <3>0. sub[k] \in Subs
        BY <1>0, <2>1, MintedFit DEF RingsTyped, PoolTyped
      <3>1. CASE ring'[sub[k]] = ring[sub[k]]
        <4>1. Numbered(ring[sub[k]], of[k], seen[k], sent[of[k]]) /\ of[k] \in Crews
          BY <1>0, <2>1 DEF Contents, Typed
        <4>2. sent[of[k]] \in Nat /\ sent'[of[k]] \in Nat /\ sent[of[k]] <= sent'[of[k]]
          BY <1>0, <1>1, <1>3, <4>1 DEF Typed
        <4>3. ring[sub[k]] \in Seq(Events) /\ \A i \in DOMAIN ring[sub[k]] : ring[sub[k]][i].n \in Nat
          <5>1. ring[sub[k]] \in Seq(Events)
            BY <1>0, <3>0 DEF RingsTyped, Rings
          <5>2. \A i \in DOMAIN ring[sub[k]] : ring[sub[k]][i] \in Events
            BY <5>1
          <5>3. \A x \in Events : x.n \in Nat
            BY DEF Events
          <5> QED BY <5>1, <5>2, <5>3
        <4>4. \A i \in DOMAIN ring[sub[k]] : ring[sub[k]][i].n <= sent'[of[k]]
          <5> SUFFICES ASSUME NEW i \in DOMAIN ring[sub[k]] PROVE ring[sub[k]][i].n <= sent'[of[k]]
            OBVIOUS
          <5>1. ring[sub[k]][i].n <= sent[of[k]] /\ ring[sub[k]][i].n \in Nat
            BY <4>1, <4>3 DEF Numbered
          <5> QED BY <5>1, <4>2
        <4> QED BY <3>1, <4>1, <4>4 DEF Numbered
      <3>2. CASE ring'[sub[k]] # ring[sub[k]]
        <4>1. PICK j \in Clients : sub[j] = sub[k] /\ of[j] = c /\ Numbered(ring'[sub[k]], c, seen[j], sent[c] + 1)
          BY <1>4, <3>0, <3>2
        <4>2. j = k
          BY <1>0, <2>1, <4>1 DEF Holders
        <4>3. sent'[c] = sent[c] + 1
          BY <1>0, <1>1 DEF Typed
        <4> QED BY <4>1, <4>2, <4>3
      <3> QED BY <3>1, <3>2
    <2>2. ASSUME NEW k \in Clients PROVE seen[k] <= sent'[of[k]]
      <3>1. seen[k] \in Nat /\ sent[of[k]] \in Nat /\ seen[k] <= sent[of[k]]
        BY <1>0 DEF Contents, Typed
      <3>2. sent'[of[k]] = sent[of[k]] \/ sent'[of[k]] = sent[of[k]] + 1
        BY <1>0, <1>1 DEF Typed
      <3> QED BY <3>1, <3>2
    <2>3. \A u \in Subs : u \in Pool \/ u \notin Minted => ring'[u] = <<>>
      BY <1>0, <1>4 DEF Contents
    <2> QED BY <1>1, <1>s, <2>1, <2>2, <2>3 DEF Contents
  <1> QED BY <1>s, <1>10, <1>11, <1>12, <1>13, <1>14, <1>15, <1>16, <1>17, <1>18 DEF BusInv

LEMMA FinishErrorStep ==
  ASSUME BusInv, NEW c \in Crews, FinishError(c)
  PROVE  BusInv'
  <1>0. /\ Typed /\ SendersTyped /\ PoolTyped /\ RingsTyped /\ ByPlace
        /\ Holders /\ Listed /\ Contents /\ Owners /\ Minters
    BY DEF BusInv
  <1>1. /\ crew' = [crew EXCEPT ![c] = "failed"]
        /\ UNCHANGED <<channels, subs, made, ring, lagged, closed, idle, minted, tx, sent, of, at, exists, htx, sub, lag, seen>>
    BY DEF FinishError, local, bus, pool
  <1>s. PoolTyped' /\ Pool' = Pool /\ Minted' = Minted
    BY <1>0, <1>1, PoolSame
  <1>m. Made' = Made
    BY <1>1 DEF Made
  <1>10. RingsTyped'
    BY <1>0, <1>1, <1>s DEF RingsTyped
  <1>11. ByPlace'
    BY <1>0, <1>1 DEF ByPlace
  <1>12. Holders'
    BY <1>0, <1>1, <1>s DEF Holders
  <1>13. Contents'
    BY <1>0, <1>1, <1>s DEF Contents
  <1>14. Minters'
    BY <1>0, <1>1, <1>s DEF Minters, StandsFor
  <1>15. Typed'
    BY <1>0, <1>1 DEF Typed
  <1>16. SendersTyped'
    BY <1>0, <1>1, <1>s, <1>m DEF SendersTyped, Typed
  <1>17. Listed'
    BY <1>0, <1>1, <1>s DEF Listed
  <1>18. Owners'
    BY <1>0, <1>1 DEF Owners, OwnedBy
  <1> QED BY <1>s, <1>10, <1>11, <1>12, <1>13, <1>14, <1>15, <1>16, <1>17, <1>18 DEF BusInv

LEMMA FinishStep ==
  ASSUME BusInv, NEW c \in Crews, Finish(c)
  PROVE  BusInv'
  <1>0. /\ Typed /\ SendersTyped /\ PoolTyped /\ RingsTyped /\ ByPlace
        /\ Holders /\ Listed /\ Contents /\ Owners /\ Minters
    BY DEF BusInv
  <1>1. /\ Remove(c) /\ crew' = [crew EXCEPT ![c] = "ended"] /\ UNCHANGED made /\ UNCHANGED <<made, ring, lagged, idle, minted, tx, sent, of, at, exists, htx, sub, lag, seen>>
    BY DEF Finish, local, Remove, bus
  <1>b. PICK owner \in [Senders -> Crews \cup {0}] : OwnedBy(owner)
    BY <1>0 DEF Owners
  <1>r. /\ channels' \in [Crews -> Made \cup {0}] /\ \A d \in Crews : channels'[d] \in {0, channels[d]}
        /\ subs' \in [Senders -> SUBSET Minted] /\ \A s \in Senders : subs'[s] \subseteq subs[s]
        /\ closed' \in [Subs -> BOOLEAN]
        /\ \A u \in Subs : closed'[u] # closed[u] =>
             (\E s \in Senders : u \in subs[s]) /\ \A s \in Senders : u \notin subs'[s]
        /\ UNCHANGED made
    <2>1. CASE channels[c] = 0
      BY <1>0, <1>1, <2>1 DEF Remove, bus, SendersTyped, Typed
    <2>2. CASE channels[c] # 0
      <3>1. /\ closed' = [u \in Subs |-> closed[u] \/ u \in subs[channels[c]]]
            /\ subs' = [subs EXCEPT ![channels[c]] = {}]
            /\ channels' = [channels EXCEPT ![c] = 0] /\ UNCHANGED made
        BY <1>1, <2>2 DEF Remove, ClosedBy, SubsAfterRemove
      <3>2. channels[c] \in Senders /\ c \in Crews
        BY <1>0, <2>2, MadeFit DEF SendersTyped, Typed
      <3>3. closed' \in [Subs -> BOOLEAN]
        BY <3>1
      <3>4. \A u \in Subs : closed'[u] # closed[u] => u \in subs[channels[c]]
        BY <1>0, <3>1 DEF Typed
      <3>5. \A u \in subs[channels[c]] : \A s \in Senders : u \notin subs'[s]
        BY <1>0, <3>1, <3>2 DEF Listed, SendersTyped
      <3> QED BY <1>0, <3>1, <3>2, <3>3, <3>4, <3>5 DEF SendersTyped
    <2> QED BY <2>1, <2>2
  <1>s. PoolTyped' /\ Pool' = Pool /\ Minted' = Minted
    BY <1>0, <1>1, PoolSame
  <1>m. Made' = Made
    BY <1>1 DEF Made
  <1>10. RingsTyped'
    BY <1>0, <1>1, <1>s DEF RingsTyped
  <1>11. ByPlace'
    BY <1>0, <1>1 DEF ByPlace
  <1>12. Holders'
    BY <1>0, <1>1, <1>s DEF Holders
  <1>13. Contents'
    BY <1>0, <1>1, <1>s DEF Contents
  <1>14. Minters'
    BY <1>0, <1>1, <1>s DEF Minters, StandsFor
  <1>15. Typed'
    BY <1>0, <1>1, <1>r DEF Typed
  <1>16. SendersTyped'
    BY <1>0, <1>1, <1>r, <1>s, <1>m DEF SendersTyped, Typed
  <1>17. Listed'
    <2>0. \A u \in Subs : (\A s \in Senders : u \notin subs[s]) => closed'[u] = closed[u]
      BY <1>r
    <2>1. \A s, r \in Senders : s # r => subs'[s] \cap subs'[r] = {}
      BY <1>0, <1>r DEF Listed
    <2>2. ASSUME NEW s \in Senders, NEW u \in subs'[s] PROVE ~closed'[u] /\ u \notin Pool
      <3>1. u \in subs[s] /\ u \in Subs
        BY <1>0, <1>r, <2>2, MintedFit DEF SendersTyped, PoolTyped
      <3> QED BY <1>0, <1>r, <2>2, <3>1 DEF Listed
    <2>3. \A u \in Subs : u \in Pool \/ u \notin Minted => ~closed'[u]
      BY <1>0, <2>0 DEF Listed, SendersTyped
    <2>4. ASSUME NEW k1 \in Embedders, at'[k1] = "adding"
          PROVE  ~closed'[sub[k1]] /\ \A s \in Senders : sub[k1] \notin subs'[s]
      <3>1. at[k1] = "adding" /\ k1 \in Clients
        BY <1>0, <1>1, <2>4 DEF Typed, Clients
      <3>2. sub[k1] \in Subs
        BY <1>0, <3>1, MintedFit DEF ByPlace, RingsTyped, PoolTyped
      <3> QED BY <1>0, <1>r, <2>0, <3>1, <3>2 DEF Listed
    <2> QED BY <1>1, <1>s, <2>1, <2>2, <2>3, <2>4 DEF Listed
  <1>18. Owners'
    <2>1. OwnedBy(owner)'
      BY <1>0, <1>1, <1>r, <1>b DEF OwnedBy, SendersTyped
    <2> QED BY <2>1 DEF Owners
  <1> QED BY <1>s, <1>10, <1>11, <1>12, <1>13, <1>14, <1>15, <1>16, <1>17, <1>18 DEF BusInv

LEMMA NotFoundStep ==
  ASSUME BusInv, NEW k \in Clients, NotFound(k)
  PROVE  BusInv'
  <1>0. /\ Typed /\ SendersTyped /\ PoolTyped /\ RingsTyped /\ ByPlace
        /\ Holders /\ Listed /\ Contents /\ Owners /\ Minters
    BY DEF BusInv
  <1>1. /\ Remove(of[k]) /\ at[k] = "notFound" /\ at' = [at EXCEPT ![k] = "gone"] /\ UNCHANGED <<made, ring, lagged, idle, minted, crew, tx, sent, of, exists, htx, sub, lag, seen>>
    BY DEF NotFound, local, runs, Goes, Remove, bus
  <1>b. PICK owner \in [Senders -> Crews \cup {0}] : OwnedBy(owner)
    BY <1>0 DEF Owners
  <1>r. /\ channels' \in [Crews -> Made \cup {0}] /\ \A d \in Crews : channels'[d] \in {0, channels[d]}
        /\ subs' \in [Senders -> SUBSET Minted] /\ \A s \in Senders : subs'[s] \subseteq subs[s]
        /\ closed' \in [Subs -> BOOLEAN]
        /\ \A u \in Subs : closed'[u] # closed[u] =>
             (\E s \in Senders : u \in subs[s]) /\ \A s \in Senders : u \notin subs'[s]
        /\ UNCHANGED made
    <2>1. CASE channels[of[k]] = 0
      BY <1>0, <1>1, <2>1 DEF Remove, bus, SendersTyped, Typed
    <2>2. CASE channels[of[k]] # 0
      <3>1. /\ closed' = [u \in Subs |-> closed[u] \/ u \in subs[channels[of[k]]]]
            /\ subs' = [subs EXCEPT ![channels[of[k]]] = {}]
            /\ channels' = [channels EXCEPT ![of[k]] = 0] /\ UNCHANGED made
        BY <1>1, <2>2 DEF Remove, ClosedBy, SubsAfterRemove
      <3>2. channels[of[k]] \in Senders /\ of[k] \in Crews
        BY <1>0, <2>2, MadeFit DEF SendersTyped, Typed
      <3>3. closed' \in [Subs -> BOOLEAN]
        BY <3>1
      <3>4. \A u \in Subs : closed'[u] # closed[u] => u \in subs[channels[of[k]]]
        BY <1>0, <3>1 DEF Typed
      <3>5. \A u \in subs[channels[of[k]]] : \A s \in Senders : u \notin subs'[s]
        BY <1>0, <3>1, <3>2 DEF Listed, SendersTyped
      <3> QED BY <1>0, <3>1, <3>2, <3>3, <3>4, <3>5 DEF SendersTyped
    <2> QED BY <2>1, <2>2
  <1>s. PoolTyped' /\ Pool' = Pool /\ Minted' = Minted
    BY <1>0, <1>1, PoolSame
  <1>m. Made' = Made
    BY <1>1 DEF Made
  <1>10. RingsTyped'
    BY <1>0, <1>1, <1>s DEF RingsTyped
  <1>11. Holders'
    BY <1>0, <1>1, <1>s DEF Holders
  <1>12. Contents'
    BY <1>0, <1>1, <1>s DEF Contents
  <1>13. Minters'
    BY <1>0, <1>1, <1>s DEF Minters, StandsFor
  <1>14. Typed'
    BY <1>0, <1>1, <1>r DEF Typed, Places
  <1>15. SendersTyped'
    BY <1>0, <1>1, <1>r, <1>s, <1>m DEF SendersTyped, Typed
  <1>16. ByPlace'
    BY <1>0, <1>1, ClientsAssumption DEF ByPlace, Typed, Clients
  <1>17. Listed'
    <2>0. \A u \in Subs : (\A s \in Senders : u \notin subs[s]) => closed'[u] = closed[u]
      BY <1>r
    <2>1. \A s, r \in Senders : s # r => subs'[s] \cap subs'[r] = {}
      BY <1>0, <1>r DEF Listed
    <2>2. ASSUME NEW s \in Senders, NEW u \in subs'[s] PROVE ~closed'[u] /\ u \notin Pool
      <3>1. u \in subs[s] /\ u \in Subs
        BY <1>0, <1>r, <2>2, MintedFit DEF SendersTyped, PoolTyped
      <3> QED BY <1>0, <1>r, <2>2, <3>1 DEF Listed
    <2>3. \A u \in Subs : u \in Pool \/ u \notin Minted => ~closed'[u]
      BY <1>0, <2>0 DEF Listed, SendersTyped
    <2>4. ASSUME NEW k1 \in Embedders, at'[k1] = "adding"
          PROVE  ~closed'[sub[k1]] /\ \A s \in Senders : sub[k1] \notin subs'[s]
      <3>1. at[k1] = "adding" /\ k1 \in Clients
        BY <1>0, <1>1, <2>4 DEF Typed, Clients
      <3>2. sub[k1] \in Subs
        BY <1>0, <3>1, MintedFit DEF ByPlace, RingsTyped, PoolTyped
      <3> QED BY <1>0, <1>r, <2>0, <3>1, <3>2 DEF Listed
    <2> QED BY <1>1, <1>s, <2>1, <2>2, <2>3, <2>4 DEF Listed
  <1>18. Owners'
    <2>1. OwnedBy(owner)'
      BY <1>0, <1>1, <1>r, <1>b DEF OwnedBy, SendersTyped
    <2> QED BY <2>1 DEF Owners
  <1> QED BY <1>s, <1>10, <1>11, <1>12, <1>13, <1>14, <1>15, <1>16, <1>17, <1>18 DEF BusInv

LEMMA UnsubscribeStep ==
  ASSUME BusInv, NEW k \in Clients, Unsubscribe(k)
  PROVE  BusInv'
  <1>0. /\ Typed /\ SendersTyped /\ PoolTyped /\ RingsTyped /\ ByPlace
        /\ Holders /\ Listed /\ Contents /\ Owners /\ Minters
    BY DEF BusInv
  <1>1. /\ at[k] \in {"leaving", "leavingLagged"} /\ at' = [at EXCEPT ![k] = IF at[k] = "leavingLagged" THEN "told" ELSE "gone"]
        /\ subs' = [subs EXCEPT ![htx[k]] = @ \ {sub[k]}]
        /\ closed' = [closed EXCEPT ![sub[k]] = @ \/ sub[k] \in subs[htx[k]]]
        /\ UNCHANGED <<channels, made, ring, lagged, idle, minted, crew, tx, sent, of, exists, htx, sub, lag, seen>>
    BY DEF Unsubscribe, local, runs, Goes
  <1>a. htx[k] \in Senders /\ sub[k] \in Subs
    BY <1>0, <1>1, MintedFit, MadeFit DEF ByPlace, RingsTyped, PoolTyped, SendersTyped
  <1>b. PICK owner \in [Senders -> Crews \cup {0}] : OwnedBy(owner)
    BY <1>0 DEF Owners
  <1>r. /\ subs' \in [Senders -> SUBSET Minted] /\ \A s \in Senders : subs'[s] \subseteq subs[s]
        /\ closed' \in [Subs -> BOOLEAN]
        /\ \A u \in Subs : closed'[u] # closed[u] =>
             (\E s \in Senders : u \in subs[s]) /\ \A s \in Senders : u \notin subs'[s]
        /\ \A d \in Crews : channels'[d] \in {0, channels[d]}
    <2>1. \A u \in Subs : closed'[u] # closed[u] => u = sub[k] /\ sub[k] \in subs[htx[k]]
      BY <1>0, <1>1, <1>a DEF Typed
    <2>2. closed' \in [Subs -> BOOLEAN]
      BY <1>0, <1>1, <1>a DEF Typed
    <2>3. sub[k] \in subs[htx[k]] => \A s \in Senders : sub[k] \notin subs'[s]
      BY <1>0, <1>1, <1>a DEF Listed, SendersTyped
    <2> QED BY <1>0, <1>1, <1>a, <2>1, <2>2, <2>3 DEF SendersTyped
  <1>s. PoolTyped' /\ Pool' = Pool /\ Minted' = Minted
    BY <1>0, <1>1, PoolSame
  <1>m. Made' = Made
    BY <1>1 DEF Made
  <1>10. RingsTyped'
    BY <1>0, <1>1, <1>s DEF RingsTyped
  <1>11. Holders'
    BY <1>0, <1>1, <1>s DEF Holders
  <1>12. Contents'
    BY <1>0, <1>1, <1>s DEF Contents
  <1>13. Minters'
    BY <1>0, <1>1, <1>s DEF Minters, StandsFor
  <1>14. Typed'
    BY <1>0, <1>1, <1>r DEF Typed, Places
  <1>15. SendersTyped'
    BY <1>0, <1>1, <1>r, <1>s, <1>m DEF SendersTyped, Typed
  <1>16. ByPlace'
    BY <1>0, <1>1, ClientsAssumption DEF ByPlace, Typed, Clients
  <1>17. Listed'
    <2>0. \A u \in Subs : (\A s \in Senders : u \notin subs[s]) => closed'[u] = closed[u]
      BY <1>r
    <2>1. \A s, r \in Senders : s # r => subs'[s] \cap subs'[r] = {}
      BY <1>0, <1>r DEF Listed
    <2>2. ASSUME NEW s \in Senders, NEW u \in subs'[s] PROVE ~closed'[u] /\ u \notin Pool
      <3>1. u \in subs[s] /\ u \in Subs
        BY <1>0, <1>r, <2>2, MintedFit DEF SendersTyped, PoolTyped
      <3> QED BY <1>0, <1>r, <2>2, <3>1 DEF Listed
    <2>3. \A u \in Subs : u \in Pool \/ u \notin Minted => ~closed'[u]
      BY <1>0, <2>0 DEF Listed, SendersTyped
    <2>4. ASSUME NEW k1 \in Embedders, at'[k1] = "adding"
          PROVE  ~closed'[sub[k1]] /\ \A s \in Senders : sub[k1] \notin subs'[s]
      <3>1. at[k1] = "adding" /\ k1 \in Clients
        BY <1>0, <1>1, <2>4 DEF Typed, Clients
      <3>2. sub[k1] \in Subs
        BY <1>0, <3>1, MintedFit DEF ByPlace, RingsTyped, PoolTyped
      <3> QED BY <1>0, <1>r, <2>0, <3>1, <3>2 DEF Listed
    <2> QED BY <1>1, <1>s, <2>1, <2>2, <2>3, <2>4 DEF Listed
  <1>18. Owners'
    <2>1. OwnedBy(owner)'
      BY <1>0, <1>1, <1>r, <1>b DEF OwnedBy, SendersTyped
    <2> QED BY <2>1 DEF Owners
  <1> QED BY <1>s, <1>10, <1>11, <1>12, <1>13, <1>14, <1>15, <1>16, <1>17, <1>18 DEF BusInv

LEMMA AddStep ==
  ASSUME BusInv, NEW k \in Clients, Add(k)
  PROVE  BusInv'
  <1>0. /\ Typed /\ SendersTyped /\ PoolTyped /\ RingsTyped /\ ByPlace
        /\ Holders /\ Listed /\ Contents /\ Owners /\ Minters
    BY DEF BusInv
  <1>1. /\ at[k] = "adding" /\ subs' = [subs EXCEPT ![htx[k]] = @ \cup {sub'[k]}] /\ UNCHANGED <<channels, made, ring, lagged, closed, idle, crew, tx, sent, of, exists, htx, lag, seen>>
    BY DEF Add, runs
  <1>a. htx[k] \in Senders /\ htx[k] \in Made
    BY <1>0, <1>1, MadeFit DEF ByPlace, SendersTyped
  <1>b. PICK owner \in [Senders -> Crews \cup {0}] : OwnedBy(owner)
    BY <1>0 DEF Owners
  <1>c. PICK by \in [Minted -> Clients] : StandsFor(by)
    BY <1>0 DEF Minters
  <1>d. \A u \in Minted : u \in Subs
    BY <1>0, MintedFit DEF PoolTyped
  <1>2. CASE k \in Streams
    <2>1. /\ minted' = minted + 1 /\ sub' = [sub EXCEPT ![k] = minted + 1] /\ sub[k] = 0
          /\ at' = [at EXCEPT ![k] = IF exists[k] THEN "lag" ELSE "notFound"] /\ k \notin Embedders
      BY <1>0, <1>1, <1>2, ClientsAssumption DEF Add, Goes, ByPlace
    <2> DEFINE new == minted + 1
    <2>p. /\ PoolTyped' /\ Pool' = Pool /\ Minted' = Minted \cup {new} /\ new \notin Minted \cup {0} \cup Pool
          /\ 0 \notin Minted /\ Pool \subseteq Minted /\ minted' \in Nat
      BY <1>0, <1>1, <2>1, Mints, PoolMinted DEF PoolTyped
    <2>s. sub' = [sub EXCEPT ![k] = new] /\ subs' = [subs EXCEPT ![htx[k]] = @ \cup {new}] /\ sub'[k] = new
      BY <1>0, <1>1, <2>1 DEF RingsTyped
    <2> HIDE DEF new
    <2>m. Minters'
      <3> DEFINE by2 == [u \in Minted' |-> IF u = new THEN k ELSE by[u]]
      <3>1. by2 \in [Minted' -> Clients] /\ by2[new] = k /\ \A u \in Minted : by2[u] = by[u]
        BY <1>c, <2>p
      <3>2. \A u \in Minted : by[u] # k
        BY <1>2, <1>c, <2>p, <2>1 DEF StandsFor
      <3>3. \A u, v \in Minted' : by2[u] = by2[v] => u = v
        BY <1>c, <2>p, <3>1, <3>2 DEF StandsFor
      <3>4. \A j \in Streams : \A u \in Minted' : by2[u] = j <=> sub'[j] = u
        <4> SUFFICES ASSUME NEW j \in Streams, NEW u \in Minted' PROVE by2[u] = j <=> sub'[j] = u
          OBVIOUS
        <4>0. j \in Clients /\ sub \in [Clients -> Minted \cup {0}]
          BY <1>0 DEF Clients, RingsTyped
        <4>1. CASE j = k
          BY <2>s, <2>p, <3>1, <3>2, <4>0, <4>1
        <4>2. CASE j # k
          <5>1. sub'[j] = sub[j]
            BY <2>s, <4>0, <4>2
          <5> QED BY <1>c, <2>p, <3>1, <4>0, <4>2, <5>1 DEF StandsFor
        <4> QED BY <4>1, <4>2
      <3> HIDE DEF by2
      <3> QED BY <3>1, <3>3, <3>4 DEF Minters, StandsFor
    <2>t. new \in Subs
      <3>1. PICK by2 \in [Minted' -> Clients] : StandsFor(by2)'
        BY <2>m DEF Minters
      <3>2. \A u, v \in Minted' : by2[u] = by2[v] => u = v
        BY <3>1 DEF StandsFor
      <3>3. Minted' \subseteq Subs
        BY <2>p, <3>1, <3>2, CountFits DEF Minted
      <3> QED BY <2>p, <3>3
    <2>2. Typed'
      BY <1>0, <1>1, <2>1 DEF Typed, Places
    <2>3. SendersTyped'
      <3>1. Made' = Made
        BY <1>1 DEF Made
      <3> QED BY <1>0, <1>1, <1>a, <2>s, <2>p, <3>1 DEF SendersTyped
    <2>4. RingsTyped'
      BY <1>0, <1>1, <2>s, <2>p DEF RingsTyped
    <2>5. ByPlace'
      BY <1>0, <1>1, <2>1, <2>s, <2>p DEF ByPlace, Typed, RingsTyped
    <2>6. Holders'
      <3>0. \A j \in Clients : sub[j] # new /\ (j # k => sub'[j] = sub[j])
        BY <1>0, <2>s, <2>p DEF RingsTyped
      <3>1. \A i, j \in Clients : i # j /\ sub'[i] # 0 => sub'[i] # sub'[j]
        BY <1>0, <2>s, <3>0 DEF Holders
      <3>2. \A j \in Clients : sub'[j] \notin Pool
        BY <1>0, <2>s, <2>p, <3>0 DEF Holders
      <3>3. ASSUME NEW u \in Minted, u \notin Pool PROVE \E j \in Clients : sub'[j] = u
        <4>1. PICK j \in Clients : sub[j] = u
          BY <1>0, <3>3 DEF Holders
        <4> QED BY <2>1, <2>p, <3>0, <3>3, <4>1
      <3> QED BY <2>s, <2>p, <3>1, <3>2, <3>3 DEF Holders
    <2>7. Listed'
      <3>1. \A s \in Senders : new \notin subs[s]
        BY <1>0, <2>p DEF SendersTyped
      <3>2. ~closed[new]
        BY <1>0, <2>p, <2>t DEF Listed
      <3>3. \A s, r \in Senders : s # r => subs'[s] \cap subs'[r] = {}
        BY <1>0, <1>a, <2>s, <3>1 DEF Listed, SendersTyped
      <3>4. \A s \in Senders : \A u \in subs'[s] : ~closed[u] /\ u \notin Pool
        BY <1>0, <1>a, <2>s, <2>p, <3>2 DEF Listed, SendersTyped
      <3>5. ASSUME NEW j \in Embedders, at'[j] = "adding"
            PROVE  ~closed[sub'[j]] /\ \A s \in Senders : sub'[j] \notin subs'[s]
        <4>1. j \in Clients /\ j # k /\ at[j] = "adding" /\ sub'[j] = sub[j] /\ sub[j] # new
          BY <1>0, <2>1, <2>s, <2>p, <3>5 DEF Typed, Clients, RingsTyped
        <4> QED BY <1>0, <1>a, <2>s, <3>5, <4>1 DEF Listed, SendersTyped
      <3> QED BY <1>0, <1>1, <2>p, <3>3, <3>4, <3>5 DEF Listed
    <2>8. Contents'
      <3>1. ring[new] = <<>>
        BY <1>0, <2>p, <2>t DEF Contents
      <3> QED BY <1>0, <1>1, <2>s, <2>p, <3>1, EmptyRing DEF Contents, RingsTyped, Typed
    <2>9. Owners'
      <3>1. owner[htx[k]] = of[k]
        BY <1>a, <1>b, <1>0, MadeFit DEF OwnedBy, SendersTyped
      <3>2. \A s \in Senders : \A j \in Clients : sub'[j] \in subs'[s] => owner[s] = of[j]
        BY <1>0, <1>a, <1>b, <2>s, <2>p, <3>1 DEF OwnedBy, RingsTyped, SendersTyped
      <3>3. OwnedBy(owner)'
        BY <1>1, <1>b, <3>2 DEF OwnedBy
      <3> QED BY <3>3 DEF Owners
    <2> QED BY <2>2, <2>3, <2>p, <2>4, <2>5, <2>6, <2>7, <2>8, <2>9, <2>m DEF BusInv
  <1>3. CASE k \notin Streams
    <2>1. /\ UNCHANGED <<minted, sub>> /\ at' = [at EXCEPT ![k] = "lag"] /\ k \in Embedders
          /\ sub[k] # 0 /\ ~closed[sub[k]] /\ sub[k] \in Minted /\ sub[k] \notin Pool
          /\ \A s \in Senders : sub[k] \notin subs[s]
      BY <1>0, <1>1, <1>3 DEF Add, Goes, ByPlace, Clients, Listed, RingsTyped, Holders
    <2>p. PoolTyped' /\ Pool' = Pool /\ Minted' = Minted
      BY <1>0, <1>1, <2>1, PoolSame
    <2>s. subs' = [subs EXCEPT ![htx[k]] = @ \cup {sub[k]}]
      BY <1>1, <2>1
    <2>2. Typed'
      BY <1>0, <1>1, <2>1 DEF Typed, Places
    <2>3. SendersTyped'
      <3>1. Made' = Made
        BY <1>1 DEF Made
      <3> QED BY <1>0, <1>1, <1>a, <2>1, <2>s, <2>p, <3>1 DEF SendersTyped
    <2>4. RingsTyped' /\ Holders' /\ Contents'
      BY <1>0, <1>1, <2>1, <2>p DEF RingsTyped, Holders, Contents
    <2>5. ByPlace'
      BY <1>0, <1>1, <2>1 DEF ByPlace, Typed
    <2>6. Minters'
      BY <1>0, <2>1, <2>p DEF Minters, StandsFor
    <2>7. Listed'
      <3>3. \A s, r \in Senders : s # r => subs'[s] \cap subs'[r] = {}
        BY <1>0, <1>a, <2>s, <2>1 DEF Listed, SendersTyped
      <3>4. \A s \in Senders : \A u \in subs'[s] : ~closed[u] /\ u \notin Pool
        BY <1>0, <1>a, <2>s, <2>1 DEF Listed, SendersTyped
      <3>5. ASSUME NEW j \in Embedders, at'[j] = "adding"
            PROVE  ~closed[sub[j]] /\ \A s \in Senders : sub[j] \notin subs'[s]
        <4>1. j \in Clients /\ j # k /\ at[j] = "adding" /\ sub[j] # sub[k]
          BY <1>0, <2>1, <3>5 DEF Typed, Clients, Holders
        <4> QED BY <1>0, <1>a, <2>s, <3>5, <4>1 DEF Listed, SendersTyped
      <3> QED BY <1>0, <1>1, <2>1, <2>p, <3>3, <3>4, <3>5 DEF Listed
    <2>9. Owners'
      <3>1. owner[htx[k]] = of[k]
        BY <1>a, <1>b, <1>0, MadeFit DEF OwnedBy, SendersTyped
      <3>2. \A s \in Senders : \A j \in Clients : sub[j] \in subs'[s] => owner[s] = of[j]
        BY <1>0, <1>a, <1>b, <2>s, <2>1, <3>1 DEF OwnedBy, SendersTyped, Holders
      <3>3. OwnedBy(owner)'
        BY <1>1, <1>b, <2>1, <3>2 DEF OwnedBy
      <3> QED BY <3>3 DEF Owners
    <2> QED BY <2>2, <2>3, <2>p, <2>4, <2>5, <2>6, <2>7, <2>9 DEF BusInv
  <1> QED BY <1>2, <1>3
LEMMA TakeIdleStep ==
  ASSUME BusInv, NEW k \in Clients, TakeIdle(k)
  PROVE  BusInv'
  <1>0. /\ Typed /\ SendersTyped /\ PoolTyped /\ RingsTyped /\ ByPlace
        /\ Holders /\ Listed /\ Contents /\ Owners /\ Minters
    BY DEF BusInv
  <1>1. /\ at[k] = "taking" /\ k \in Embedders /\ k \notin Streams /\ at' = [at EXCEPT ![k] = "adding"]
        /\ UNCHANGED <<channels, subs, made, ring, closed, crew, tx, sent, of, exists, htx, lag, seen>>
    BY ClientsAssumption DEF TakeIdle, Goes, bus, runs
  <1>2. sub[k] = 0 /\ htx[k] # 0 /\ 0 \notin Minted /\ Pool \subseteq Minted
    BY <1>0, <1>1, PoolMinted DEF ByPlace
  <1>3. \A u \in Minted : u \in Subs
    BY <1>0, MintedFit DEF PoolTyped
  <1>m. Made' = Made
    BY <1>1 DEF Made
  \* Either way k gets a subscription u that nobody holds, open, empty and on no list.
  <1>4. \E u : /\ sub' = [sub EXCEPT ![k] = u] /\ u \in Minted' /\ u \in Subs /\ u # 0
               /\ Minted \subseteq Minted' /\ Minted' \subseteq Minted \cup {u} /\ Pool' = Pool \ {u} /\ PoolTyped'
               /\ (\A j \in Clients : sub[j] # u) /\ ~closed[u] /\ ring[u] = <<>>
               /\ (\A s \in Senders : u \notin subs[s]) /\ lagged' \in [Subs -> Nat] /\ Minters'
    <2>1. CASE idle # <<>>
      <3> DEFINE u == Head(idle)
      <3>1. /\ sub' = [sub EXCEPT ![k] = u] /\ idle' = Tail(idle) /\ UNCHANGED minted
            /\ lagged' = [lagged EXCEPT ![u] = 0]
        BY <2>1 DEF TakeIdle
      <3>2. PoolTyped' /\ u \in Minted /\ u \in Pool /\ Pool' = Pool \ {u}
        BY <1>0, <2>1, <3>1, PoolTake
      <3>3. Minted' = Minted /\ u \in Subs /\ u # 0
        BY <1>2, <1>3, <3>1, <3>2 DEF Minted
      <3> HIDE DEF u
      <3>4. \A j \in Clients : sub[j] # u
        BY <1>0, <3>2 DEF Holders
      <3>5. ~closed[u] /\ \A s \in Senders : u \notin subs[s]
        BY <1>0, <3>2, <3>3 DEF Listed
      <3>6. ring[u] = <<>>
        BY <1>0, <3>2, <3>3 DEF Contents
      <3>7. lagged' \in [Subs -> Nat]
        BY <1>0, <3>1 DEF Typed
      <3>8. Minters'
        <4>1. PICK by \in [Minted -> Clients] : StandsFor(by)
          BY <1>0 DEF Minters
        <4>2. \A j \in Streams : sub'[j] = sub[j]
          BY <1>0, <1>1, <3>1 DEF RingsTyped, Clients
        <4>3. StandsFor(by)'
          BY <3>3, <4>1, <4>2 DEF StandsFor
        <4> QED BY <3>3, <4>1, <4>3 DEF Minters
      <3> QED BY <3>1, <3>2, <3>3, <3>4, <3>5, <3>6, <3>7, <3>8
    <2>2. CASE idle = <<>>
      <3> DEFINE u == minted + 1
      <3>1. sub' = [sub EXCEPT ![k] = u] /\ minted' = minted + 1 /\ UNCHANGED <<idle, lagged>>
        BY <2>2 DEF TakeIdle
      <3>2. /\ PoolTyped' /\ Pool' = Pool /\ Minted' = Minted \cup {u} /\ u \notin Minted \cup {0} \cup Pool
            /\ minted' \in Nat
        BY <1>0, <3>1, Mints DEF PoolTyped
      <3> HIDE DEF u
      <3>3. \A v \in Minted : \E j \in Clients : sub[j] = v
        <4>1. Pool = {}
          BY <2>2 DEF Pool, Range
        <4> QED BY <1>0, <4>1 DEF Holders
      <3>4. \A j \in Clients : sub[j] # u
        BY <1>0, <3>2 DEF RingsTyped
      <3> DEFINE by == [v \in Minted' |-> IF v = u THEN k ELSE CHOOSE j \in Clients : sub[j] = v]
      <3>5. by[u] = k /\ \A v \in Minted : by[v] \in Clients /\ sub[by[v]] = v
        BY <3>2, <3>3
      <3>6. by \in [Minted' -> Clients]
        <4>1. \A v \in Minted' : by[v] \in Clients
          BY <3>2, <3>5
        <4> QED BY <4>1
      <3> HIDE DEF by
      <3>7. \A v, w \in Minted' : by[v] = by[w] => v = w
        BY <1>2, <3>2, <3>5
      <3>8. ASSUME NEW j \in Streams, NEW v \in Minted' PROVE by[v] = j <=> sub'[j] = v
        <4>1. j \in Clients /\ j # k /\ sub'[j] = sub[j]
          BY <1>0, <1>1, <3>1 DEF RingsTyped, Clients
        <4>2. CASE v = u
          BY <3>4, <3>5, <4>1, <4>2
        <4>3. CASE v \in Minted
          <5>1. sub[j] = v => by[v] = j
            BY <1>0, <1>2, <3>5, <4>1, <4>3 DEF Holders
          <5> QED BY <3>5, <4>1, <4>3, <5>1
        <4> QED BY <3>2, <4>2, <4>3
      <3>9. Minters' /\ u \in Subs
        <4>1. Minters'
          BY <3>6, <3>7, <3>8 DEF Minters, StandsFor
        <4>2. Minted' \subseteq Subs
          BY <3>2, <3>6, <3>7, CountFits DEF Minted
        <4> QED BY <3>2, <4>1, <4>2
      <3>10. ~closed[u] /\ \A s \in Senders : u \notin subs[s]
        BY <1>0, <3>2, <3>9 DEF Listed, SendersTyped
      <3>11. ring[u] = <<>>
        BY <1>0, <3>2, <3>9 DEF Contents
      <3>12. lagged' \in [Subs -> Nat]
        BY <1>0, <3>1 DEF Typed
      <3> QED BY <3>1, <3>2, <3>4, <3>9, <3>10, <3>11, <3>12
    <2> QED BY <2>1, <2>2
  <1>5. PICK u : /\ sub' = [sub EXCEPT ![k] = u] /\ u \in Minted' /\ u \in Subs /\ u # 0
                 /\ Minted \subseteq Minted' /\ Minted' \subseteq Minted \cup {u} /\ Pool' = Pool \ {u} /\ PoolTyped'
                 /\ (\A j \in Clients : sub[j] # u) /\ ~closed[u] /\ ring[u] = <<>>
                 /\ (\A s \in Senders : u \notin subs[s]) /\ lagged' \in [Subs -> Nat] /\ Minters'
    BY <1>4
  <1>6. sub'[k] = u /\ \A j \in Clients : j # k => sub'[j] = sub[j]
    BY <1>0, <1>5 DEF RingsTyped
  <1>10. Typed'
    BY <1>0, <1>1, <1>5 DEF Typed, Places
  <1>11. SendersTyped'
    BY <1>0, <1>1, <1>5, <1>m DEF SendersTyped
  <1>12. RingsTyped'
    BY <1>0, <1>1, <1>5 DEF RingsTyped
  <1>13. ByPlace'
    BY <1>0, <1>1, <1>2, <1>5, <1>6, ClientsAssumption DEF ByPlace, Typed, Clients
  <1>14. Holders'
    <2>1. \A i, j \in Clients : i # j /\ sub'[i] # 0 => sub'[i] # sub'[j]
      BY <1>0, <1>5, <1>6 DEF Holders
    <2>2. \A j \in Clients : sub'[j] \notin Pool'
      BY <1>0, <1>5, <1>6 DEF Holders
    <2>3. ASSUME NEW v \in Minted', v \notin Pool' PROVE \E j \in Clients : sub'[j] = v
      <3>1. CASE v = u
        BY <1>6, <3>1
      <3>2. CASE v # u
        <4>1. v \in Minted /\ v \notin Pool
          BY <1>5, <2>3, <3>2
        <4>2. PICK j \in Clients : sub[j] = v
          BY <1>0, <4>1 DEF Holders
        <4> QED BY <1>2, <1>6, <4>1, <4>2
      <3> QED BY <3>1, <3>2
    <2> QED BY <2>1, <2>2, <2>3 DEF Holders
  <1>15. Listed'
    <2>1. \A s \in Senders : \A v \in subs[s] : ~closed[v] /\ v \notin Pool'
      BY <1>0, <1>5 DEF Listed
    <2>2. \A v \in Subs : v \in Pool' \/ v \notin Minted' => ~closed[v]
      BY <1>0, <1>5 DEF Listed
    <2>3. ASSUME NEW j \in Embedders, at'[j] = "adding"
          PROVE  ~closed[sub'[j]] /\ \A s \in Senders : sub'[j] \notin subs[s]
      <3>1. CASE j = k
        BY <1>5, <1>6, <3>1
      <3>2. CASE j # k
        BY <1>0, <1>1, <1>6, <2>3, <3>2 DEF Listed, Typed, Clients
      <3> QED BY <3>1, <3>2
    <2> QED BY <1>0, <1>1, <2>1, <2>2, <2>3 DEF Listed
  <1>16. Contents'
    <2>1. ASSUME NEW j \in Clients, sub'[j] # 0 PROVE Numbered(ring[sub'[j]], of[j], seen[j], sent[of[j]])
      <3>1. CASE j = k
        BY <1>5, <1>6, <3>1, EmptyRing
      <3>2. CASE j # k
        BY <1>0, <1>6, <2>1, <3>2 DEF Contents
      <3> QED BY <3>1, <3>2
    <2>2. \A v \in Subs : v \in Pool' \/ v \notin Minted' => ring[v] = <<>>
      BY <1>0, <1>5 DEF Contents
    <2> QED BY <1>0, <1>1, <2>1, <2>2 DEF Contents
  <1>17. Owners'
    <2>1. PICK owner \in [Senders -> Crews \cup {0}] : OwnedBy(owner)
      BY <1>0 DEF Owners
    <2>2. \A s \in Senders : \A j \in Clients : sub'[j] \in subs[s] => owner[s] = of[j]
      BY <1>5, <1>6, <2>1 DEF OwnedBy
    <2>3. OwnedBy(owner)'
      BY <1>1, <2>1, <2>2 DEF OwnedBy
    <2> QED BY <2>3 DEF Owners
  <1> QED BY <1>5, <1>10, <1>11, <1>12, <1>13, <1>14, <1>15, <1>16, <1>17 DEF BusInv

LEMMA RecycleStep ==
  ASSUME BusInv, NEW k \in Clients, Recycle(k)
  PROVE  BusInv'
  <1>0. /\ Typed /\ SendersTyped /\ PoolTyped /\ RingsTyped /\ ByPlace
        /\ Holders /\ Listed /\ Contents /\ Owners /\ Minters
    BY DEF BusInv
  <1> DEFINE u == sub[k]
  <1>1. /\ at[k] = "over" /\ k \in Embedders /\ k \notin Streams /\ closed[u] /\ at' = [at EXCEPT ![k] = "gone"]
        /\ ring' = [ring EXCEPT ![u] = <<>>] /\ closed' = [closed EXCEPT ![u] = FALSE]
        /\ idle' = <<u>> \o idle /\ sub' = [sub EXCEPT ![k] = 0]
        /\ UNCHANGED <<channels, subs, made, lagged, minted, crew, tx, sent, of, exists, htx, lag, seen>>
    BY ClientsAssumption DEF Recycle, MayRecycle, Drained, Goes, bus, runs
  <1>2. u # 0 /\ u \in Minted /\ u \notin Pool /\ u \in Subs
    BY <1>0, <1>1, MintedFit DEF ByPlace, RingsTyped, Holders, PoolTyped
  <1>3. PoolTyped' /\ Pool' = Pool \cup {u}
    BY <1>0, <1>1, <1>2, PoolGive
  <1>4. Minted' = Minted /\ Made' = Made
    BY <1>1 DEF Minted, Made
  <1>5. /\ sub'[k] = 0 /\ \A j \in Clients : j # k => sub'[j] = sub[j] /\ sub[j] # u
    BY <1>0, <1>1, <1>2 DEF RingsTyped, Holders
  <1>6. \A s \in Senders : u \notin subs[s]
    BY <1>0, <1>1 DEF Listed
  <1> HIDE DEF u
  <1>7. /\ ring'[u] = <<>> /\ ~closed'[u]
        /\ \A v \in Subs : v # u => ring'[v] = ring[v] /\ closed'[v] = closed[v]
    BY <1>0, <1>1, <1>2 DEF RingsTyped, Typed
  <1>10. Typed'
    BY <1>0, <1>1, <1>2 DEF Typed, Places
  <1>11. SendersTyped'
    BY <1>0, <1>1, <1>4 DEF SendersTyped
  <1>12. RingsTyped'
    BY <1>0, <1>1, <1>4, EmptyRing DEF RingsTyped
  <1>13. ByPlace'
    BY <1>0, <1>1, <1>5, ClientsAssumption DEF ByPlace, Typed, Clients
  <1>14. Holders'
    <2>1. \A i, j \in Clients : i # j /\ sub'[i] # 0 => sub'[i] # sub'[j]
      BY <1>0, <1>5 DEF Holders
    <2>2. \A j \in Clients : sub'[j] \notin Pool'
      BY <1>0, <1>2, <1>3, <1>5, PoolMinted DEF Holders
    <2>3. ASSUME NEW v \in Minted, v \notin Pool' PROVE \E j \in Clients : sub'[j] = v
      <3>1. v # u /\ v \notin Pool
        BY <1>3, <2>3
      <3>2. PICK j \in Clients : sub[j] = v
        BY <1>0, <3>1 DEF Holders
      <3> QED BY <1>5, <3>1, <3>2 DEF u
    <2> QED BY <1>4, <2>1, <2>2, <2>3 DEF Holders
  <1>15. Listed'
    <2>1. \A s \in Senders : \A v \in subs[s] : ~closed'[v] /\ v \notin Pool'
      <3> SUFFICES ASSUME NEW s \in Senders, NEW v \in subs[s] PROVE ~closed'[v] /\ v \notin Pool'
        OBVIOUS
      <3>1. v # u /\ v \in Subs /\ ~closed[v] /\ v \notin Pool
        BY <1>0, <1>6, MintedFit DEF Listed, SendersTyped, PoolTyped
      <3> QED BY <1>3, <1>7, <3>1
    <2>2. \A v \in Subs : v \in Pool' \/ v \notin Minted => ~closed'[v]
      BY <1>0, <1>3, <1>7 DEF Listed
    <2>3. ASSUME NEW j \in Embedders, at'[j] = "adding"
          PROVE  ~closed'[sub'[j]] /\ \A s \in Senders : sub'[j] \notin subs[s]
      <3>1. j # k /\ at[j] = "adding" /\ j \in Clients
        BY <1>0, <1>1, <2>3 DEF Typed, Clients
      <3>2. sub'[j] = sub[j] /\ sub[j] # u
        BY <1>5, <3>1
      <3>3. sub[j] \in Subs
        BY <1>0, <3>1, MintedFit DEF ByPlace, RingsTyped, PoolTyped
      <3> QED BY <1>0, <1>7, <2>3, <3>1, <3>2, <3>3 DEF Listed
    <2> QED BY <1>0, <1>1, <1>4, <2>1, <2>2, <2>3 DEF Listed
  <1>16. Contents'
    <2>1. ASSUME NEW j \in Clients, sub'[j] # 0 PROVE Numbered(ring'[sub'[j]], of[j], seen[j], sent[of[j]])
      <3>1. j # k /\ sub'[j] = sub[j] /\ sub[j] # u
        BY <1>5, <2>1
      <3>2. sub[j] \in Subs
        BY <1>0, <2>1, <3>1, MintedFit DEF RingsTyped, PoolTyped
      <3> QED BY <1>0, <1>7, <2>1, <3>1, <3>2 DEF Contents
    <2>2. \A v \in Subs : v \in Pool' \/ v \notin Minted => ring'[v] = <<>>
      BY <1>0, <1>3, <1>7 DEF Contents
    <2> QED BY <1>0, <1>1, <1>4, <2>1, <2>2 DEF Contents
  <1>17. Owners'
    <2>1. PICK owner \in [Senders -> Crews \cup {0}] : OwnedBy(owner)
      BY <1>0 DEF Owners
    <2>2. \A s \in Senders : 0 \notin subs[s]
      BY <1>0, PoolMinted DEF SendersTyped
    <2>3. \A s \in Senders : \A j \in Clients : sub'[j] \in subs[s] => owner[s] = of[j]
      BY <1>5, <2>1, <2>2 DEF OwnedBy
    <2>4. OwnedBy(owner)'
      BY <1>1, <2>1, <2>3 DEF OwnedBy
    <2> QED BY <2>4 DEF Owners
  <1>18. Minters'
    <2>1. PICK by \in [Minted -> Clients] : StandsFor(by)
      BY <1>0 DEF Minters
    <2>2. \A j \in Streams : sub'[j] = sub[j]
      BY <1>1, <1>5 DEF Clients
    <2>3. StandsFor(by)'
      BY <1>4, <2>1, <2>2 DEF StandsFor
    <2> QED BY <1>4, <2>1, <2>3 DEF Minters
  <1> QED BY <1>3, <1>10, <1>11, <1>12, <1>13, <1>14, <1>15, <1>16, <1>17, <1>18 DEF BusInv

LEMMA NextCrewStep ==
  ASSUME BusInv, NEW k \in Clients, NextCrew(k)
  PROVE  BusInv'
  <1>0. /\ Typed /\ SendersTyped /\ PoolTyped /\ RingsTyped /\ ByPlace
        /\ Holders /\ Listed /\ Contents /\ Owners /\ Minters
    BY DEF BusInv
  <1>1. PICK c \in Crews :
          /\ at[k] = "gone" /\ k \in Embedders /\ of' = [of EXCEPT ![k] = c]
          /\ htx' = [htx EXCEPT ![k] = 0] /\ lag' = [lag EXCEPT ![k] = 0] /\ seen' = [seen EXCEPT ![k] = 0]
          /\ at' = [at EXCEPT ![k] = "start"]
          /\ UNCHANGED <<channels, subs, made, ring, lagged, closed, idle, minted, crew, tx, sent, exists, sub>>
    BY DEF NextCrew, Goes, bus, pool, runs
  <1>2. sub[k] = 0 /\ 0 \notin Minted
    BY <1>0, <1>1, PoolMinted DEF ByPlace
  <1>s. PoolTyped' /\ Pool' = Pool /\ Minted' = Minted
    BY <1>0, <1>1, PoolSame
  <1>m. Made' = Made
    BY <1>1 DEF Made
  <1>10. Typed'
    BY <1>0, <1>1, BoundsAssumption DEF Typed, Places
  <1>11. SendersTyped'
    BY <1>0, <1>1, <1>s, <1>m DEF SendersTyped
  <1>12. RingsTyped'
    BY <1>0, <1>1, <1>s DEF RingsTyped
  <1>13. ByPlace'
    BY <1>0, <1>1, <1>2 DEF ByPlace, Typed, SendersTyped, Clients
  <1>14. Holders'
    BY <1>0, <1>1, <1>s DEF Holders
  <1>15. Listed'
    BY <1>0, <1>1, <1>s DEF Listed, Typed, Clients
  <1>16. Contents'
    <2>1. \A j \in Clients : sub[j] # 0 => Numbered(ring[sub[j]], of'[j], seen'[j], sent[of'[j]])
      BY <1>0, <1>1, <1>2 DEF Contents, Typed
    <2>2. ASSUME NEW j \in Clients PROVE seen'[j] <= sent[of'[j]]
      <3>1. sent[c] \in Nat
        BY <1>0 DEF Typed
      <3>2. CASE j = k
        BY <1>0, <1>1, <3>1, <3>2 DEF Typed
      <3>3. CASE j # k
        BY <1>0, <1>1, <3>3 DEF Contents, Typed
      <3> QED BY <3>2, <3>3
    <2> QED BY <1>0, <1>1, <1>s, <2>1, <2>2 DEF Contents
  <1>17. Owners'
    <2>1. PICK owner \in [Senders -> Crews \cup {0}] : OwnedBy(owner)
      BY <1>0 DEF Owners
    <2>2. \A s \in Senders : \A j \in Clients : sub[j] \in subs[s] => owner[s] = of'[j]
      BY <1>0, <1>1, <1>2, <2>1 DEF OwnedBy, Typed, SendersTyped
    <2>3. \A j \in Clients : htx'[j] # 0 => owner[htx'[j]] = of'[j]
      BY <1>0, <1>1, <2>1 DEF OwnedBy, Typed, SendersTyped
    <2>4. OwnedBy(owner)'
      BY <1>1, <2>1, <2>2, <2>3 DEF OwnedBy
    <2> QED BY <2>4 DEF Owners
  <1>18. Minters'
    BY <1>0, <1>1, <1>s DEF Minters, StandsFor
  <1> QED BY <1>s, <1>10, <1>11, <1>12, <1>13, <1>14, <1>15, <1>16, <1>17, <1>18 DEF BusInv

LEMMA StutterStep == ASSUME BusInv, UNCHANGED vars PROVE BusInv'
  <1>1. UNCHANGED <<channels, subs, made, ring, lagged, closed, idle, minted, crew, tx, sent, of, at, exists, htx, sub, lag, seen>>
    BY DEF vars
  <1>2. Typed' /\ SendersTyped' /\ PoolTyped' /\ RingsTyped'
    BY <1>1 DEF BusInv, Typed, SendersTyped, PoolTyped, RingsTyped, Made, Minted
  <1>3. ByPlace' /\ Holders' /\ Listed'
    BY <1>1 DEF BusInv, ByPlace, Holders, Listed, Minted, Pool
  <1>4. Contents'
    BY <1>1 DEF BusInv, Contents, Minted, Pool
  <1>5. Owners'
    BY <1>1 DEF BusInv, Owners, OwnedBy
  <1>6. Minters'
    <2>1. Minted' = Minted
      BY <1>1 DEF Minted
    <2> QED BY <1>1, <2>1 DEF BusInv, Minters, StandsFor
  <1> QED BY <1>2, <1>3, <1>4, <1>5, <1>6 DEF BusInv

LEMMA BusStep == BusInv /\ [Next]_vars => BusInv'
  <1> SUFFICES ASSUME BusInv, [Next]_vars PROVE BusInv'
    OBVIOUS
  <1>1. ASSUME NEW c \in Crews, Register(c) \/ Send(c) \/ Finish(c) \/ FinishError(c) PROVE BusInv'
    BY <1>1, RegisterStep, SendStep, FinishStep, FinishErrorStep
  <1>2. ASSUME NEW k \in Clients, ClientStep(k) PROVE BusInv'
    BY <1>2, AskExistsStep, TakeSenderStep, AddStep, NotFoundStep, ReadLagStep, ClearLagStep, RecvStep,
       AskClosedStep, LeaveSenderStep, UnsubscribeStep, TakeIdleStep, RecycleStep DEF ClientStep
  <1>3. ASSUME NEW k \in Clients, NextCrew(k) PROVE BusInv'
    BY <1>3, NextCrewStep
  <1>4. CASE Done \/ UNCHANGED vars
    BY <1>4, StutterStep DEF Done
  <1> QED BY <1>1, <1>2, <1>3, <1>4 DEF Next

LEMMA BusInvSound == BusInv => BusSound
  <1> SUFFICES ASSUME BusInv PROVE BusSound
    OBVIOUS
  <1>0. /\ Typed /\ SendersTyped /\ PoolTyped /\ RingsTyped /\ ByPlace
        /\ Holders /\ Listed /\ Contents /\ Owners /\ Minters
    BY DEF BusInv
  <1>1. Made \subseteq Ids /\ 0 \in Ids
    BY <1>0, BoundsAssumption DEF SendersTyped, Made, Ids
  <1>2. minted \in 0..Cardinality(Clients) /\ Minted \subseteq Subs /\ Minted \cup {0} \subseteq 0..Cardinality(Clients)
    <2>1. minted \in Nat /\ minted <= Cardinality(Clients) /\ Minted \subseteq Subs
      BY <1>0, MintedFit DEF PoolTyped
    <2>2. Cardinality(Clients) \in Nat
      BY ClientsAssumption, FS_CardinalityType
    <2> QED BY <2>1, <2>2 DEF Minted
  <1>3. TypeOK
    <2>1. channels \in [Crews -> Ids] /\ tx \in [Crews -> Ids] /\ htx \in [Clients -> Ids] /\ made \in Ids
      BY <1>0, <1>1 DEF SendersTyped
    <2>2. subs \in [Senders -> SUBSET Subs]
      BY <1>0, <1>2 DEF SendersTyped
    <2>3. ring \in [Subs -> Seq(Events)] /\ \A u \in Subs : Len(ring[u]) <= Capacity
      BY <1>0 DEF RingsTyped, Rings
    <2>4. idle \in Seq(Subs)
      BY <1>0, <1>2 DEF PoolTyped
    <2>5. sub \in [Clients -> 0..Cardinality(Clients)]
      BY <1>0, <1>2 DEF RingsTyped
    <2> QED BY <1>0, <1>2, <2>1, <2>2, <2>3, <2>4, <2>5 DEF TypeOK, Typed
  <1>4. OneHolder
    BY <1>0 DEF OneHolder, Holders, Listed, PoolTyped, Pool
  <1>5. NoCrossTalk
    BY <1>0 DEF NoCrossTalk, Contents, Numbered
  <1>6. ReadsForward
    BY <1>0 DEF ReadsForward, Contents, Numbered
  <1> QED BY <1>3, <1>4, <1>5, <1>6 DEF BusSound

\* In every state of the event bus, a channel carries one crew's events to the one
\* client that holds it and to nobody else, in the order they were sent in and
\* never more than its capacity: over every interleaving of runners, streams and
\* embedders, every clean-up at the cap and every re-use of a channel from the
\* pool (src/server/sse.cyr, ADR 028).
THEOREM BusIsSound == Spec => []BusSound
  <1>1. Spec => []BusInv
    BY BusStart, BusStep, PTL DEF Spec
  <1> QED BY <1>1, BusInvSound, PTL
=============================================================================
