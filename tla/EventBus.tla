------------------------------ MODULE EventBus ------------------------------
(***************************************************************************)
(* The per-crew event bus of src/server/sse.cyr over the lossy push of     *)
(* src/chan_lossy.cyr, the SSE handler of src/server/routes/sse.cyr that   *)
(* reads it, and the bus's pool of used channels (ADR 028).                *)
(*                                                                         *)
(* One mutex guards the map, the subscriber lists and the pool, so a       *)
(* locked section is one step.  A handler takes several of them, and reads *)
(* its own subscription with no lock.                                      *)
(*                                                                         *)
(* Two kinds of client: a stream, which is an HTTP handler, and an         *)
(* embedder, which subscribes before it submits its crew, waits for the    *)
(* channel to close, gives it back and goes on with another crew.  A       *)
(* crew's events are numbered.                                             *)
(***************************************************************************)
EXTENDS Naturals, Sequences, FiniteSets, Functions

CONSTANTS
    Crews, Streams, Embedders,
    MaxEvents,      \* events a crew sends
    Capacity,       \* AGNOSAI_SSE_CHANNEL_CAPACITY
    MaxChannels,    \* AGNOSAI_SSE_MAX_EVENT_CHANNELS
    MaxSenders      \* senders made in all, a bound

ASSUME BoundsAssumption ==
    /\ {MaxEvents, MaxSenders} \subseteq Nat
    /\ {Capacity, MaxChannels} \subseteq Nat \ {0}

Clients == Streams \cup Embedders
ASSUME ClientsAssumption == Streams \cap Embedders = {} /\ IsFiniteSet(Clients)

\* Senders and subscriptions, numbered as they are made; 0 is none.
Senders == 1..MaxSenders
Subs == 1..Cardinality(Clients)

VARIABLES
    channels,   \* AGN_EB_CHANNELS: crew -> sender, or 0
    subs,       \* AGN_ES_SUBS of each sender
    made,       \* senders made so far
    ring,       \* the events in a subscription's channel
    lagged,     \* AGN_ER_LAGGED of a subscription that is not idle
    closed,     \* AGN_ER_CLOSED
    idle,       \* AGN_EB_IDLE, a stack
    minted,     \* subscriptions made so far
    crew, tx,   \* a crew's run, and the sender its runner holds
    sent,       \* how many events it has sent
    of, at,     \* a client's crew, and where it is
    exists,     \* a stream's crew_exists
    htx, sub,   \* the sender and the subscription it holds
    lag,        \* the count it has read and not yet cleared
    seen        \* the last event it got

bus == <<channels, subs, made>>
pool == <<ring, lagged, closed, idle, minted>>
runs == <<crew, tx, sent>>
local == <<exists, htx, sub, lag, seen>>
vars == <<channels, subs, made, ring, lagged, closed, idle, minted, crew, tx, sent,
          of, at, exists, htx, sub, lag, seen>>
-----------------------------------------------------------------------------
Init ==
    /\ channels = [c \in Crews |-> 0]
    /\ subs = [s \in Senders |-> {}] /\ made = 0
    /\ ring = [u \in Subs |-> <<>>] /\ lagged = [u \in Subs |-> 0]
    /\ closed = [u \in Subs |-> FALSE] /\ idle = <<>> /\ minted = 0
    /\ crew = [c \in Crews |-> "new"] /\ tx = [c \in Crews |-> 0]
    /\ sent = [c \in Crews |-> 0]
    /\ of \in [Clients -> Crews]
    /\ at = [k \in Clients |-> "start"]
    /\ exists = [k \in Clients |-> FALSE]
    /\ htx = [k \in Clients |-> 0] /\ sub = [k \in Clients |-> 0]
    /\ lag = [k \in Clients |-> 0]
    /\ seen = [k \in Clients |-> 0]

Live == {c \in Crews : channels[c] # 0}

\* _agnosai_event_bus_cleanup_locked: a channel without subscribers goes.
Cleaned ==
    IF Cardinality(Live) >= MaxChannels
      THEN [c \in Crews |-> IF channels[c] # 0 /\ subs[channels[c]] = {} THEN 0 ELSE channels[c]]
      ELSE channels

\* agnosai_event_bus_sender_a: get the crew's sender, or make one.  At the cap
\* orphans are cleaned first, and the channel is made whatever is left.
SenderOf(c) == IF channels[c] # 0 THEN channels[c] ELSE made + 1

GetSender(c) ==
    IF channels[c] # 0 THEN UNCHANGED bus
    ELSE /\ made < MaxSenders
         /\ made' = made + 1
         /\ channels' = [Cleaned EXCEPT ![c] = made + 1]
         /\ UNCHANGED subs

\* Wrong variant: a removed sender keeps its list of closed channels (2.2.4).
SubsAfterRemove_Kept(c) == subs

SubsAfterRemove(c) == [subs EXCEPT ![channels[c]] = {}]

\* Wrong variant: the crew is forgotten and its subscribers are not told.
ClosedBy_Nobody(c) == closed

ClosedBy(c) == [u \in Subs |-> closed[u] \/ u \in subs[channels[c]]]

\* agnosai_event_bus_remove: close every subscriber, empty the list, forget
\* the crew.
Remove(c) ==
    IF channels[c] = 0 THEN UNCHANGED <<bus, closed>>
    ELSE /\ closed' = ClosedBy(c)
         /\ subs' = SubsAfterRemove(c)
         /\ channels' = [channels EXCEPT ![c] = 0]
         /\ UNCHANGED made
-----------------------------------------------------------------------------
(* A crew.                                                                 *)

\* Registration takes the sender.  An embedder of this crew has subscribed.
Register(c) ==
    /\ crew[c] = "new"
    /\ \A k \in Embedders : of[k] = c => at[k] \notin {"start", "taking", "adding"}
    /\ crew' = [crew EXCEPT ![c] = "running"]
    /\ tx' = [tx EXCEPT ![c] = SenderOf(c)]
    /\ GetSender(c)
    /\ UNCHANGED <<sent, pool, of, at, local>>

\* Wrong variant: one event too many is kept.
Full_OffByOne(u) == Len(ring[u]) > Capacity

\* agnosai_chan_push_lossy into one subscription: at capacity the oldest goes.
\* A closed channel takes nothing.
Full(u) == Len(ring[u]) >= Capacity
Pushed(u, e) ==
    IF closed[u] THEN ring[u]
    ELSE IF Full(u) THEN Append(Tail(ring[u]), e) ELSE Append(ring[u], e)

\* agnosai_event_sender_send, on the sender the runner holds: it works on
\* when the bus has already let go of it.
Send(c) ==
    /\ crew[c] = "running" /\ sent[c] < MaxEvents
    /\ sent' = [sent EXCEPT ![c] = @ + 1]
    /\ LET e == [crew |-> c, n |-> sent[c] + 1] IN
       LET to == subs[tx[c]] IN
         /\ ring' = [u \in Subs |-> IF u \in to THEN Pushed(u, e) ELSE ring[u]]
         /\ lagged' = [u \in Subs |-> IF u \in to /\ ~closed[u] /\ Full(u)
                                        THEN lagged[u] + 1 ELSE lagged[u]]
    /\ UNCHANGED <<bus, closed, idle, minted, crew, tx, of, at, local>>

\* The end of a run, after its final state is stored.
Finish(c) ==
    /\ crew[c] = "running"
    /\ crew' = [crew EXCEPT ![c] = "ended"]
    /\ Remove(c)
    /\ UNCHANGED <<ring, lagged, idle, minted, tx, sent, of, at, local>>

\* The error arm: a graph with a cycle, or a dependency on a task that is not
\* there.  It returns before the bus is told, and the crew keeps its channel.
FinishError(c) ==
    /\ crew[c] = "running"
    /\ crew' = [crew EXCEPT ![c] = "failed"]
    /\ UNCHANGED <<bus, pool, tx, sent, of, at, local>>
-----------------------------------------------------------------------------
(* A stream: agnosai_sse_crew_stream.                                      *)

Goes(k, place) == at' = [at EXCEPT ![k] = place]

AskExists(k) ==
    /\ at[k] = "start" /\ k \in Streams
    /\ exists' = [exists EXCEPT ![k] = channels[of[k]] # 0]
    /\ Goes(k, "taking")
    /\ UNCHANGED <<bus, pool, runs, of, htx, sub, lag, seen>>

\* subscribe is two locked sections: the sender, then the list.
TakeSender(k) ==
    /\ at[k] = IF k \in Streams THEN "taking" ELSE "start"
    /\ GetSender(of[k])
    /\ htx' = [htx EXCEPT ![k] = SenderOf(of[k])]
    /\ Goes(k, IF k \in Streams THEN "adding" ELSE "taking")
    /\ UNCHANGED <<pool, runs, of, exists, sub, lag, seen>>

\* A stream mints its subscription; an embedder has taken one already.
Add(k) ==
    /\ at[k] = "adding"
    /\ IF k \in Streams
         THEN /\ minted' = minted + 1
              /\ sub' = [sub EXCEPT ![k] = minted + 1]
              /\ Goes(k, IF exists[k] THEN "lag" ELSE "notFound")
         ELSE /\ UNCHANGED <<minted, sub>>
              /\ Goes(k, "lag")
    /\ subs' = [subs EXCEPT ![htx[k]] = @ \cup {sub'[k]}]
    /\ UNCHANGED <<channels, made, ring, lagged, closed, idle, runs, of, exists, htx, lag,
                   seen>>

\* subscribe made a channel for an id that had none: take it away again.
NotFound(k) ==
    /\ at[k] = "notFound"
    /\ Remove(of[k])
    /\ Goes(k, "gone")
    /\ UNCHANGED <<ring, lagged, idle, minted, runs, of, local>>

\* agnosai_event_sub_lagged, a load and a store with no lock between them.
ReadLag(k) ==
    /\ at[k] = "lag"
    /\ lag' = [lag EXCEPT ![k] = lagged[sub[k]]]
    /\ Goes(k, "clear")
    /\ UNCHANGED <<bus, pool, runs, of, exists, htx, sub, seen>>

ClearLag(k) ==
    /\ at[k] = "clear"
    /\ lagged' = [lagged EXCEPT ![sub[k]] = 0]
    /\ Goes(k, IF lag[k] > 0 /\ k \in Streams THEN "lagged" ELSE "recv")
    /\ UNCHANGED <<bus, ring, closed, idle, minted, runs, of, local>>

\* chan_try_recv: an event to deliver, or nothing, and then the closed flag
\* says whether to wait for more.
Recv(k) ==
    /\ at[k] = "recv"
    /\ LET u == sub[k] IN
         IF ring[u] # <<>>
           THEN /\ ring' = [ring EXCEPT ![u] = Tail(@)]
                /\ seen' = [seen EXCEPT ![k] = Head(ring[u]).n]
                /\ Goes(k, "lag")
           ELSE /\ Goes(k, "closed")
                /\ UNCHANGED <<ring, seen>>
    /\ UNCHANGED <<bus, lagged, closed, idle, minted, runs, of, exists, htx, sub, lag>>

AskClosed(k) ==
    /\ at[k] = "closed"
    /\ Goes(k, IF closed[sub[k]] THEN "over" ELSE "lag")
    /\ UNCHANGED <<bus, pool, runs, of, local>>

\* The stream is over: the sender again, to unsubscribe from it.
LeaveSender(k) ==
    /\ at[k] \in {"over", "lagged"} /\ k \in Streams
    /\ GetSender(of[k])
    /\ htx' = [htx EXCEPT ![k] = SenderOf(of[k])]
    /\ Goes(k, IF at[k] = "lagged" THEN "leavingLagged" ELSE "leaving")
    /\ UNCHANGED <<pool, runs, of, exists, sub, lag, seen>>

Unsubscribe(k) ==
    /\ at[k] \in {"leaving", "leavingLagged"}
    /\ subs' = [subs EXCEPT ![htx[k]] = @ \ {sub[k]}]
    /\ closed' = [closed EXCEPT ![sub[k]] = @ \/ sub[k] \in subs[htx[k]]]
    /\ Goes(k, IF at[k] = "leavingLagged" THEN "told" ELSE "gone")
    /\ UNCHANGED <<channels, made, ring, lagged, idle, minted, runs, of, local>>
-----------------------------------------------------------------------------
(* An embedder: agnosai_event_bus_subscribe_a and agnosai_event_bus_recycle. *)

TakeIdle(k) ==
    /\ at[k] = "taking" /\ k \in Embedders
    /\ IF idle # <<>>
         THEN /\ sub' = [sub EXCEPT ![k] = Head(idle)] /\ idle' = Tail(idle)
              /\ lagged' = [lagged EXCEPT ![Head(idle)] = 0]
              /\ UNCHANGED minted
         ELSE /\ sub' = [sub EXCEPT ![k] = minted + 1] /\ minted' = minted + 1
              /\ UNCHANGED <<idle, lagged>>
    /\ Goes(k, "adding")
    /\ UNCHANGED <<bus, ring, closed, runs, of, exists, htx, lag, seen>>

\* agnosai_event_bus_recycle refuses a channel that is open.
MayRecycle(u) == closed[u]

\* Wrong variant: what the last crew left in the ring stays there.
Drained_Not(u) == ring[u]

Drained(u) == <<>>

\* Drain it, open it again, and put it on the stack.
Recycle(k) ==
    /\ at[k] = "over" /\ k \in Embedders
    /\ MayRecycle(sub[k])
    /\ ring' = [ring EXCEPT ![sub[k]] = Drained(sub[k])]
    /\ closed' = [closed EXCEPT ![sub[k]] = FALSE]
    /\ idle' = <<sub[k]>> \o idle
    /\ sub' = [sub EXCEPT ![k] = 0]
    /\ Goes(k, "gone")
    /\ UNCHANGED <<bus, lagged, minted, runs, of, exists, htx, lag, seen>>

\* Its next crew: it subscribes to that one too before it submits it.
NextCrew(k) ==
    /\ at[k] = "gone" /\ k \in Embedders
    /\ \E c \in Crews : crew[c] = "new" /\ of' = [of EXCEPT ![k] = c]
    /\ htx' = [htx EXCEPT ![k] = 0] /\ lag' = [lag EXCEPT ![k] = 0]
    /\ seen' = [seen EXCEPT ![k] = 0]
    /\ Goes(k, "start")
    /\ UNCHANGED <<bus, pool, runs, exists, sub>>
-----------------------------------------------------------------------------
ClientStep(k) ==
    \/ AskExists(k) \/ TakeSender(k) \/ Add(k) \/ NotFound(k)
    \/ ReadLag(k) \/ ClearLag(k) \/ Recv(k) \/ AskClosed(k)
    \/ LeaveSender(k) \/ Unsubscribe(k) \/ TakeIdle(k) \/ Recycle(k)

Done == (\A k \in Clients : at[k] \in {"gone", "told"})
        /\ (\A c \in Crews : crew[c] \in {"ended", "failed"}) /\ UNCHANGED vars

Next ==
    \/ \E c \in Crews : Register(c) \/ Send(c) \/ Finish(c) \/ FinishError(c)
    \/ \E k \in Clients : ClientStep(k) \/ NextCrew(k)
    \/ Done

Spec == Init /\ [][Next]_vars

\* Every crew is registered and ends, in the one way or the other, and a
\* client's thread keeps running once it has come.
Fairness ==
    /\ \A c \in Crews : WF_vars(Register(c)) /\ WF_vars(Finish(c) \/ FinishError(c))
    /\ \A k \in Clients : WF_vars(ClientStep(k))

LiveSpec == Spec /\ Fairness
-----------------------------------------------------------------------------
Ids == 0..MaxSenders
Places == {"start", "taking", "adding", "notFound", "lag", "clear", "recv", "closed",
           "over", "lagged", "leaving", "leavingLagged", "gone", "told"}
Events == [crew : Crews, n : 1..MaxEvents]

\* Every variable holds what the code could store in it, and no channel holds
\* more than its capacity.
TypeOK ==
    /\ channels \in [Crews -> Ids] /\ subs \in [Senders -> SUBSET Subs] /\ made \in Ids
    /\ ring \in [Subs -> Seq(Events)] /\ \A u \in Subs : Len(ring[u]) <= Capacity
    /\ lagged \in [Subs -> Nat] /\ closed \in [Subs -> BOOLEAN]
    /\ idle \in Seq(Subs) /\ minted \in 0..Cardinality(Clients)
    /\ crew \in [Crews -> {"new", "running", "ended", "failed"}] /\ tx \in [Crews -> Ids]
    /\ sent \in [Crews -> 0..MaxEvents]
    /\ at \in [Clients -> Places] /\ of \in [Clients -> Crews]
    /\ exists \in [Clients -> BOOLEAN] /\ htx \in [Clients -> Ids]
    /\ sub \in [Clients -> 0..Cardinality(Clients)] /\ lag \in [Clients -> Nat]
    /\ seen \in [Clients -> 0..MaxEvents]

\* A client reads only its own crew's events, on a channel that has served
\* another crew too (ADR 028: "a sender that still listed it would publish one
\* crew's events into another's").
NoCrossTalk ==
    \A k \in Clients : sub[k] # 0 =>
        \A i \in DOMAIN ring[sub[k]] : ring[sub[k]][i].crew = of[k]

\* What a client has yet to read is newer than what it has read, and in the order
\* it was sent in, whatever a full ring has lost.
ReadsForward ==
    \A k \in Clients : sub[k] # 0 =>
        LET r == ring[sub[k]] IN
          \A i \in DOMAIN r : r[i].n > (IF i = 1 THEN seen[k] ELSE r[i - 1].n)

\* A subscription is in one place: one client holds it, or the pool does; one
\* sender lists it, and lists it only while it is open.
OneHolder ==
    /\ \A k, j \in Clients : k # j /\ sub[k] # 0 => sub[k] # sub[j]
    /\ \A k \in Clients : sub[k] \notin Range(idle)
    /\ \A i, j \in DOMAIN idle : i # j => idle[i] # idle[j]
    /\ \A s, r \in Senders : s # r => subs[s] \cap subs[r] = {}
    /\ \A s \in Senders : \A u \in subs[s] : ~closed[u] /\ u \notin Range(idle)

\* A channel carries one crew's events to whoever holds it and to nobody else, in
\* order, over every re-use of a subscription; every variable keeps its type.
BusSound == TypeOK /\ OneHolder /\ NoCrossTalk /\ ReadsForward

\* A client that is on its crew's channel while the crew has not ended comes to
\* an end: the channel closes, or a stream lags.  It holds for a stream and for
\* an embedder, whatever the other clients and the clean-up at the cap do.  The
\* one exception is a run that ends in the error arm, which leaves its channel
\* open: its clients wait on.
AttachedEnds ==
    \A k \in Clients :
        at[k] = "lag" /\ channels[of[k]] = htx[k] /\ crew[of[k]] # "ended"
            ~> at[k] \in {"gone", "told"} \/ crew[of[k]] = "failed"

\* server/routes/sse.cyr: "Stream `crew_id`'s events to `cfd` until the crew
\* ends or the client lags".  When every crew ends, and none in the error arm,
\* every stream does.
StreamEnds ==
    (\A c \in Crews : <>(crew[c] = "ended")) => \A k \in Streams : <>(at[k] \in {"gone", "told"})
=============================================================================
