------------------------------ MODULE AsyncBus ------------------------------
(***************************************************************************)
(* rust-old/src/server/sse.rs and server/routes/sse.rs: broadcast channels *)
(* of running crews in a map, and the event streams of HTTP clients.       *)
(*                                                                         *)
(* Channels are numbered as they are made, events by their place in the    *)
(* channel; a channel is closed when nobody holds a sender of it: the map, *)
(* the crew's runner, or a stream about to subscribe.  Every use of the    *)
(* map is one step.  tokio's broadcast is external: a receiver that is     *)
(* more than the capacity behind is told so once.                          *)
(***************************************************************************)
EXTENDS Integers, Sequences, FiniteSets

CONSTANTS
    BusCrews, Streams,
    BusCapacity,        \* CHANNEL_CAPACITY
    MaxEventChannels,
    MaxEmits,           \* events of one crew, a bound
    MaxMade             \* channels made in all, a bound

ASSUME AsyncBusAssumption ==
    {BusCapacity, MaxEventChannels, MaxEmits, MaxMade} \subseteq Nat /\ BusCrews \cap Streams = {}

VARIABLES
    channels,   \* the map: a channel per crew, 0 for none
    emitted,    \* events sent, per channel ever made
    actor,      \* where each runner and stream is
    target,     \* the crew each asks for
    held,       \* the channel whose sender or receiver it has
    readNext,     \* the event a stream reads next
    streamEnd     \* how a stream ended

busVars == <<channels, emitted, actor, target, held, readNext, streamEnd>>

Actors == BusCrews \cup Streams

BusInit ==
    /\ channels = [c \in BusCrews |-> 0] /\ emitted = <<>>
    /\ actor = [a \in Actors |-> "start"]
    /\ target \in {f \in [Actors -> BusCrews] : \A c \in BusCrews : f[c] = c}
    /\ held = [a \in Actors |-> 0] /\ readNext = [s \in Streams |-> 1]
    /\ streamEnd = [s \in Streams |-> "none"]

Go(a, where) == actor' = [actor EXCEPT ![a] = where]

\* crew_stream: has
LookForCrew(s) ==
    /\ actor[s] = "start"
    /\ streamEnd' = [streamEnd EXCEPT ![s] = IF channels[target[s]] = 0 THEN "not found" ELSE "none"]
    /\ Go(s, "seeks") /\ UNCHANGED <<channels, emitted, target, held, readNext>>

\* sender: get; the runner begins here.
Seek(a) ==
    /\ actor[a] = (IF a \in Streams THEN "seeks" ELSE "start")
    /\ held' = [held EXCEPT ![a] = channels[target[a]]]
    /\ Go(a, IF channels[target[a]] = 0 THEN "misses" ELSE "sends")
    /\ UNCHANGED <<channels, emitted, target, readNext, streamEnd>>

Receiving == {s \in Streams : actor[s] \in {"subscribed", "reads"}}
Receivers(k) == {s \in Receiving : held[s] = k}

\* cleanup_orphans
Tidied == [c \in BusCrews |-> IF Receivers(channels[c]) = {} THEN 0 ELSE channels[c]]

\* sender: at the limit channels without a receiver go, the running crews' too.
TidyUp(a) ==
    /\ actor[a] = "misses"
    /\ channels' = IF Cardinality({c \in BusCrews : channels[c] # 0}) >= MaxEventChannels THEN Tidied ELSE channels
    /\ Go(a, "creates") /\ UNCHANGED <<emitted, target, held, readNext, streamEnd>>

\* sender: entry, made only if it is still missing.
CreateChannel(a) ==
    /\ actor[a] = "creates"
    /\ IF channels[target[a]] # 0
       THEN held' = [held EXCEPT ![a] = channels[target[a]]] /\ UNCHANGED <<channels, emitted>>
       ELSE /\ Len(emitted) < MaxMade
            /\ emitted' = Append(emitted, 0)
            /\ channels' = [channels EXCEPT ![target[a]] = Len(emitted) + 1]
            /\ held' = [held EXCEPT ![a] = Len(emitted) + 1]
    /\ Go(a, "sends") /\ UNCHANGED <<target, readNext, streamEnd>>

\* subscribe: from here on, and the sender is dropped.
SubscribeStream(s) ==
    /\ actor[s] = "sends"
    /\ readNext' = [readNext EXCEPT ![s] = emitted[held[s]] + 1]
    /\ Go(s, IF streamEnd[s] = "not found" THEN "subscribed" ELSE "reads")
    /\ UNCHANGED <<channels, emitted, target, held, streamEnd>>

RemoveEntry(c) == channels' = [channels EXCEPT ![c] = 0]

\* crew_stream of a crew that was not there: the entry is removed, whoever made
\* it; the stream says so and ends.
EndNotFound(s) ==
    /\ actor[s] = "subscribed" /\ RemoveEntry(target[s])
    /\ Go(s, "done") /\ UNCHANGED <<emitted, target, held, readNext, streamEnd>>

EmitEvent(c) ==
    /\ actor[c] = "sends" /\ emitted[held[c]] < MaxEmits
    /\ emitted' = [emitted EXCEPT ![held[c]] = @ + 1]
    /\ UNCHANGED <<channels, actor, target, held, readNext, streamEnd>>

\* The runner fails and run_crew leaves with its error: the sender is dropped,
\* the map keeps the channel.
RunnerFails(c) ==
    /\ actor[c] = "sends" /\ Go(c, "failed")
    /\ UNCHANGED <<channels, emitted, target, held, readNext, streamEnd>>

\* The runner returns and drops its sender ...
RunnerDone(c) ==
    /\ actor[c] = "sends" /\ Go(c, "returned")
    /\ UNCHANGED <<channels, emitted, target, held, readNext, streamEnd>>

\* Wrong variant: the map keeps the channel of a crew that ended.
RemoveChannel_Never(c) ==
    /\ actor[c] = "returned" /\ Go(c, "done")
    /\ UNCHANGED <<channels, emitted, target, held, readNext, streamEnd>>

\* ... and run_crew removes the entry.
RemoveChannel(c) ==
    /\ actor[c] = "returned" /\ RemoveEntry(c) /\ Go(c, "done")
    /\ UNCHANGED <<emitted, target, held, readNext, streamEnd>>

\* Wrong variant: a channel lives in the map alone.
Senders_Map(k) == {c \in BusCrews : channels[c] = k}

Senders(k) == {c \in BusCrews : channels[c] = k} \cup {a \in Actors : actor[a] = "sends" /\ held[a] = k}

Lagged(s) == emitted[held[s]] - readNext[s] + 1 > BusCapacity

\* crew_stream's loop: the next event, or the end: lagged is told, closed not.
ReadEvent(s) ==
    /\ actor[s] = "reads"
    /\ \/ /\ readNext[s] <= emitted[held[s]] /\ ~Lagged(s)
          /\ readNext' = [readNext EXCEPT ![s] = @ + 1] /\ UNCHANGED <<actor, streamEnd>>
       \/ /\ Lagged(s) /\ Go(s, "done") /\ streamEnd' = [streamEnd EXCEPT ![s] = "lagged"] /\ UNCHANGED readNext
       \/ /\ readNext[s] > emitted[held[s]] /\ Senders(held[s]) = {}
          /\ Go(s, "done") /\ streamEnd' = [streamEnd EXCEPT ![s] = "closed"] /\ UNCHANGED readNext
    /\ UNCHANGED <<channels, emitted, target, held>>

Disconnect(s) ==
    /\ actor[s] = "reads" /\ Go(s, "done") /\ streamEnd' = [streamEnd EXCEPT ![s] = "left"]
    /\ UNCHANGED <<channels, emitted, target, held, readNext>>

ActorStep(a) ==
    \/ Seek(a) \/ TidyUp(a) \/ CreateChannel(a)
    \/ a \in BusCrews /\ (RunnerDone(a) \/ RunnerFails(a) \/ RemoveChannel(a))
    \/ a \in Streams /\ (LookForCrew(a) \/ SubscribeStream(a) \/ EndNotFound(a) \/ ReadEvent(a))

BusNext ==
    \/ \E a \in Actors : ActorStep(a)
    \/ \E c \in BusCrews : EmitEvent(c)
    \/ \E s \in Streams : Disconnect(s)
-----------------------------------------------------------------------------
\* The channel of the runner the stream asks for, when that is what it reads.
OnRunner(s) == held[s] # 0 /\ held[s] = held[target[s]]

\* A stream that reads its crew's channel and ends because the channel closed
\* missed nothing: its crew ended and every event since it subscribed was
\* passed on, although clean-ups and streams of crews that were not there yet
\* take the channel out of the map while the crew runs.
ClosedIsComplete == \A s \in Streams :
    streamEnd[s] = "closed" /\ OnRunner(s) =>
      actor[target[s]] \in {"returned", "done", "failed"} /\ readNext[s] = emitted[held[s]] + 1

\* Every stream that reads its crew's channel ends once the crew does, unless the
\* crew's runner fails: its channel stays in the map and its streams stay open.
StreamsEnd == \A s \in Streams :
    (actor[s] = "reads" /\ OnRunner(s)) ~> actor[s] = "done" \/ actor[target[s]] = "failed"
=============================================================================
