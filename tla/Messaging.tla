------------------------------ MODULE Messaging ------------------------------
(***************************************************************************)
(* rust-old/src/orchestrator/pubsub.rs: patterns with wildcards, each with *)
(* a broadcast channel; publish fans a message out to every pattern that   *)
(* matches its topic.                                                      *)
(*                                                                         *)
(* Patterns and topics are sequences of segments (split on the dot).  The  *)
(* map is a DashMap (external): subscribe looks the pattern up, then       *)
(* counts, then inserts; publish walks shard by shard, with the shard it   *)
(* is in locked against insertions and removals, over its entries one      *)
(* after the other, while others do the same.  A channel is tokio's        *)
(* broadcast (external): each receiver has its own place in the last       *)
(* ChannelCapacity messages and is told when it was overtaken.             *)
(***************************************************************************)
EXTENDS Integers, Sequences, FiniteSets

CONSTANTS
    Patterns, Topics,
    Subscribers,        \* callers of subscribe; each keeps one receiver
    Publishers,         \* callers of publish
    Shards, ShardOf,    \* how many shards the map has, and in which a pattern is
    ChannelCapacity,    \* CHANNEL_CAPACITY
    MaxPatterns,        \* MAX_SUBSCRIPTION_PATTERNS
    MaxMatchDepth,      \* MAX_MATCH_DEPTH
    MaxPublished        \* messages published in all, a bound

ASSUME PubSubAssumption ==
    /\ {ChannelCapacity, MaxPatterns} \subseteq Nat \ {0} /\ {MaxMatchDepth, MaxPublished} \subseteq Nat
    /\ Patterns \cup Topics \subseteq Seq(STRING) /\ IsFiniteSet(Subscribers)
    /\ <<>> \notin Patterns /\ Shards \in Nat \ {0} /\ ShardOf \in [Patterns -> 1..Shards]

VARIABLES
    subscriptions,  \* the patterns with a channel
    receiver,       \* each subscriber's: pattern, messages unread and read, lagged, open
    subscribing,    \* the pattern a caller found room for and has not inserted yet
    walk,           \* each publisher's: message, topic, shard, entries of it to come
    published,      \* messages so far
    owed            \* receivers that were in place when a publish began, still are, and
                    \* have neither read its message nor been told they missed it

psVars == <<subscriptions, receiver, subscribing, walk, published, owed>>

Walk(msg, topic, shard, left) == [msg |-> msg, topic |-> topic, shard |-> shard, left |-> left]
Idle == Walk(0, <<>>, 0, {})
NoReceiver == [pattern |-> <<>>, unread |-> <<>>, read |-> {}, lagged |-> FALSE, open |-> FALSE]

\* matches_recursive_inner, for all calls at once: the places of the topic from
\* which its rest matches the last k segments of the pattern.  Every call has one
\* segment of the pattern less, so its depth is the number of those before.
MatchesInner(p, t) ==
    LET inner[k \in 0..Len(p)] ==
          LET i == Len(p) - k + 1 IN
          {j \in 0..Len(t) :
             /\ Len(p) - k <= MaxMatchDepth
             /\ IF k = 0 THEN j = Len(t)
                ELSE IF p[i] = "#" THEN k = 1 \/ \E m \in inner[k - 1] : m >= j
                ELSE IF j = Len(t) THEN \A m \in i..Len(p) : p[m] = "#"
                ELSE p[i] \in {"*", t[j + 1]} /\ j + 1 \in inner[k - 1]}
    IN  inner[Len(p)]

MatchesPattern(p, t) == 0 \in MatchesInner(p, t)

PubSubInit ==
    /\ subscriptions = {} /\ receiver = [s \in Subscribers |-> NoReceiver]
    /\ subscribing = [s \in Subscribers |-> <<>>]
    /\ walk = [w \in Publishers |-> Idle] /\ published = 0 /\ owed = [w \in Publishers |-> {}]

Attach(s, p) == receiver' = [receiver EXCEPT ![s] = [NoReceiver EXCEPT !.pattern = p, !.open = TRUE]]

\* subscribe, as far as the count: a pattern that is there is joined at once,
\* at the limit a new one is refused.
Subscribe(s, p) ==
    /\ receiver[s] = NoReceiver /\ subscribing[s] = <<>>
    /\ \/ p \in subscriptions /\ Attach(s, p) /\ UNCHANGED subscribing
       \/ /\ p \notin subscriptions /\ Cardinality(subscriptions) < MaxPatterns
          /\ subscribing' = [subscribing EXCEPT ![s] = p] /\ UNCHANGED receiver
    /\ UNCHANGED <<subscriptions, walk, published, owed>>

\* A walk holds the read lock of the shard it is in.
Locked(p) == \E w \in Publishers : walk[w].left # {} /\ walk[w].shard = ShardOf[p]

\* entry().or_insert_with().subscribe()
InsertPattern(s) ==
    /\ subscribing[s] # <<>> /\ ~Locked(subscribing[s])
    /\ subscriptions' = subscriptions \cup {subscribing[s]}
    /\ Attach(s, subscribing[s])
    /\ subscribing' = [subscribing EXCEPT ![s] = <<>>]
    /\ UNCHANGED <<walk, published, owed>>

OnPattern(p) == {s \in Subscribers : receiver[s].open /\ receiver[s].pattern = p}

BeginPublish(w, t) ==
    /\ walk[w] = Idle /\ published < MaxPublished
    /\ published' = published + 1
    /\ walk' = [walk EXCEPT ![w] = Walk(published + 1, t, 0, {})]
    /\ owed' = [owed EXCEPT ![w] = {s \in Subscribers : receiver[s].open /\ MatchesPattern(receiver[s].pattern, t)}]
    /\ UNCHANGED <<subscriptions, receiver, subscribing>>

EnterShard(w) ==
    /\ walk[w] # Idle /\ walk[w].left = {} /\ walk[w].shard < Shards
    /\ LET k == walk[w].shard + 1 IN
         walk' = [walk EXCEPT ![w] = Walk(walk[w].msg, walk[w].topic, k, {p \in subscriptions : ShardOf[p] = k})]
    /\ UNCHANGED <<subscriptions, receiver, subscribing, published, owed>>

\* A channel that is full drops its oldest message, for whoever has not read it.
Delivered(r, msg) ==
    IF Len(r.unread) < ChannelCapacity THEN [r EXCEPT !.unread = Append(r.unread, msg)]
    ELSE [r EXCEPT !.unread = Append(Tail(r.unread), msg), !.lagged = TRUE]

\* Wrong variant: the walk is over once an entry of the shard has matched.
LeftAfter_FirstMatch(w, p) == IF MatchesPattern(p, walk[w].topic) THEN {} ELSE walk[w].left \ {p}

LeftAfter(w, p) == walk[w].left \ {p}

\* The walk comes to an entry: matching receivers get the message.
Visit(w, p) ==
    /\ p \in walk[w].left
    /\ walk' = [walk EXCEPT ![w] = Walk(walk[w].msg, walk[w].topic, walk[w].shard, LeftAfter(w, p))]
    /\ receiver' = [s \in Subscribers |->
                      IF s \in OnPattern(p) /\ MatchesPattern(p, walk[w].topic)
                      THEN Delivered(receiver[s], walk[w].msg) ELSE receiver[s]]
    /\ UNCHANGED <<subscriptions, subscribing, published, owed>>

EndPublish(w) ==
    /\ walk[w] # Idle /\ walk[w].left = {} /\ walk[w].shard = Shards
    /\ walk' = [walk EXCEPT ![w] = Idle] /\ owed' = [owed EXCEPT ![w] = {}]
    /\ UNCHANGED <<subscriptions, receiver, subscribing, published>>

\* The sender is dropped: receivers read what is left, then find it closed.
UnsubscribeAll(p) ==
    /\ p \in subscriptions /\ ~Locked(p)
    /\ subscriptions' = subscriptions \ {p}
    /\ receiver' = [s \in Subscribers |-> IF s \in OnPattern(p)
                                          THEN [receiver[s] EXCEPT !.open = FALSE] ELSE receiver[s]]
    /\ owed' = [w \in Publishers |-> owed[w] \ OnPattern(p)]
    /\ UNCHANGED <<subscribing, walk, published>>

\* The walk of w has been where pattern p is.
Past(w, p) == ShardOf[p] < walk[w].shard \/ (ShardOf[p] = walk[w].shard /\ p \notin walk[w].left)

Unread(s, msg) == \E i \in DOMAIN receiver[s].unread : receiver[s].unread[i] = msg

\* recv: whoever was overtaken is told so first, once.
Receive(s) ==
    /\ IF receiver[s].lagged
       THEN /\ receiver' = [receiver EXCEPT ![s].lagged = FALSE]
            /\ owed' = [w \in Publishers |->
                 IF s \in owed[w] /\ Past(w, receiver[s].pattern) /\ ~Unread(s, walk[w].msg)
                 THEN owed[w] \ {s} ELSE owed[w]]
       ELSE /\ receiver[s].unread # <<>>
            /\ LET r == receiver[s] m == Head(r.unread) IN
                 /\ receiver' = [receiver EXCEPT ![s] = [r EXCEPT !.unread = Tail(r.unread), !.read = r.read \cup {m}]]
                 /\ owed' = [w \in Publishers |-> IF walk[w].msg = m THEN owed[w] \ {s} ELSE owed[w]]
    /\ UNCHANGED <<subscriptions, subscribing, walk, published>>

\* Its owner drops the receiver; the pattern stays in the map.
DropReceiver(s) ==
    /\ receiver[s] # NoReceiver
    /\ receiver' = [receiver EXCEPT ![s] = NoReceiver]
    /\ owed' = [w \in Publishers |-> owed[w] \ {s}]
    /\ UNCHANGED <<subscriptions, subscribing, walk, published>>

PubSubNext ==
    \/ \E s \in Subscribers : InsertPattern(s) \/ Receive(s) \/ DropReceiver(s) \/ \E p \in Patterns : Subscribe(s, p)
    \/ \E w \in Publishers :
         EnterShard(w) \/ EndPublish(w) \/ (\E p \in Patterns : Visit(w, p)) \/ \E t \in Topics : BeginPublish(w, t)
    \/ \E p \in Patterns : UnsubscribeAll(p)
-----------------------------------------------------------------------------
\* What a pattern is documented to match: the segments of the topic in order,
\* one for a star, any number for a hash, itself for any other.
Covers(p, t) ==
    \E f \in [0..Len(p) -> 0..Len(t)] :
      /\ f[0] = 0 /\ f[Len(p)] = Len(t)
      /\ \A i \in 1..Len(p) :
           IF p[i] = "#" THEN f[i] >= f[i - 1]
           ELSE f[i] = f[i - 1] + 1 /\ p[i] \in {"*", t[f[i]]}

\* The recursive matcher finds what the rules say, up to its depth; deeper
\* patterns may be missed and never match too much.
MatcherExact ==
    \A p \in Patterns, t \in Topics :
      IF Len(p) <= MaxMatchDepth THEN MatchesPattern(p, t) <=> Covers(p, t)
      ELSE MatchesPattern(p, t) => Covers(p, t)

\* The matcher is exact.  Whoever was subscribed to a matching pattern from the
\* beginning of a publish has its message by the time the walk has been at the
\* pattern, or has read it, or is told that it fell behind, whatever else is
\* published, inserted and removed meanwhile; and has no message twice.  The limit on
\* patterns is passed by less than the callers that looked at the count before others
\* inserted.
FanOutExact ==
    /\ MatcherExact
    /\ \A w \in Publishers : \A s \in owed[w] :
         Past(w, receiver[s].pattern) => receiver[s].lagged \/ Unread(s, walk[w].msg)
    /\ \A s \in Subscribers : LET r == receiver[s] IN
         \A i \in DOMAIN r.unread : r.unread[i] \notin r.read /\ \A j \in DOMAIN r.unread : r.unread[j] = r.unread[i] => j = i
    /\ Cardinality(subscriptions) < MaxPatterns + Cardinality(Subscribers)
-----------------------------------------------------------------------------
(***************************************************************************)
(* rust-old/src/orchestrator/ipc.rs: JSON payloads over a Unix socket,     *)
(* each behind its length.  The writer's two writes may each arrive in     *)
(* part, and either side may hang up at any time.                          *)
(*                                                                         *)
(* The socket (external) is a stream of bytes.  A byte is a length, or a   *)
(* byte of the payload with the number of its message; the prefix is one   *)
(* such byte instead of four.  A payload is never empty: the shortest JSON *)
(* text has one character.                                                 *)
(***************************************************************************)
CONSTANTS
    FrameSizes,     \* sizes of payloads
    MaxFrameSize,   \* MAX_FRAME_SIZE
    MaxFrames       \* payloads sent in all, a bound

ASSUME IpcAssumption == FrameSizes \subseteq Nat \ {0} /\ {MaxFrameSize, MaxFrames} \subseteq Nat

VARIABLES
    wire,       \* bytes that have arrived and were not read
    outgoing,   \* bytes the writer has still to hand over
    sent,       \* the messages whose send was begun: their sizes
    refused,    \* the messages that were too large
    need,       \* read_frame: bytes it waits for; 0 before the length
    got,        \* the bytes of the present frame
    received,   \* the payloads recv answered
    link        \* "up", "closed" by a peer; "eof" or "misread" once recv answered an error

ipcVars == <<wire, outgoing, sent, refused, need, got, received, link>>

IpcInit ==
    /\ wire = <<>> /\ outgoing = <<>> /\ sent = <<>> /\ refused = 0
    /\ need = 0 /\ got = <<>> /\ received = <<>> /\ link = "up"

Frame(n, size) == <<[len |-> size, of |-> n]>> \o [i \in 1..size |-> [len |-> 0, of |-> n]]

\* Wrong variant: the length is written before it is looked at.
WriteFrame_LengthFirst(size) ==
    IF size > MaxFrameSize THEN SubSeq(Frame(Len(sent) + 1, size), 1, 1) ELSE Frame(Len(sent) + 1, size)

\* write_frame: a payload above the maximum leaves the stream untouched.
WriteFrame(size) == IF size > MaxFrameSize THEN <<>> ELSE Frame(Len(sent) + 1, size)

Send(size) ==
    /\ link = "up" /\ outgoing = <<>> /\ Len(sent) + refused < MaxFrames
    /\ outgoing' = WriteFrame(size)
    /\ sent' = IF size > MaxFrameSize THEN sent ELSE Append(sent, size)
    /\ refused' = refused + IF size > MaxFrameSize THEN 1 ELSE 0
    /\ UNCHANGED <<wire, need, got, received, link>>

\* The kernel takes some of the bytes.
Carry(n) ==
    /\ link = "up" /\ n \in 1..Len(outgoing)
    /\ wire' = wire \o SubSeq(outgoing, 1, n)
    /\ outgoing' = SubSeq(outgoing, n + 1, Len(outgoing))
    /\ UNCHANGED <<sent, refused, need, got, received, link>>

HangUp ==
    /\ link = "up"
    /\ link' = "closed" /\ outgoing' = <<>>
    /\ UNCHANGED <<wire, sent, refused, need, got, received>>

\* read_frame, the length: none and too many bytes are errors.
ReadLength ==
    /\ link \in {"up", "closed"} /\ need = 0 /\ wire # <<>>
    /\ IF Head(wire).len \in 1..MaxFrameSize
       THEN need' = Head(wire).len /\ UNCHANGED link
       ELSE link' = "misread" /\ UNCHANGED need
    /\ wire' = Tail(wire)
    /\ UNCHANGED <<outgoing, sent, refused, got, received>>

\* read_frame, the payload: read_exact waits for all of it.
ReadPayload ==
    /\ link \in {"up", "closed"} /\ need > 0 /\ wire # <<>>
    /\ wire' = Tail(wire)
    /\ IF need = 1
       THEN received' = Append(received, Append(got, Head(wire))) /\ got' = <<>>
       ELSE got' = Append(got, Head(wire)) /\ UNCHANGED received
    /\ need' = need - 1
    /\ UNCHANGED <<outgoing, sent, refused, link>>

\* The peer is gone and nothing is left: an error, between frames or within.
ReadEof ==
    /\ link = "closed" /\ wire = <<>>
    /\ link' = "eof"
    /\ UNCHANGED <<wire, outgoing, sent, refused, need, got, received>>

IpcNext ==
    \/ \E size \in FrameSizes : Send(size)
    \/ \E n \in 1..Len(outgoing) : Carry(n)
    \/ HangUp \/ ReadLength \/ ReadPayload \/ ReadEof
-----------------------------------------------------------------------------
\* What is received is what was sent, in order, each payload whole and unmixed,
\* however the bytes were cut; a refused payload does not put the reader out of
\* step, and the reader sees an error only when the peer has gone.
FramesWhole ==
    /\ \A i \in DOMAIN received :
         /\ i <= Len(sent)
         /\ received[i] = [k \in 1..sent[i] |-> [len |-> 0, of |-> i]]
    /\ link # "misread"
=============================================================================
