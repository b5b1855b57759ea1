-------------------------------- MODULE Relay --------------------------------
(***************************************************************************)
(* rust-old/src/fleet/relay.rs: messages between nodes, numbered by their  *)
(* sender, with duplicates dropped by the receiver.                        *)
(*                                                                         *)
(* Threads of one node share its relay: a number is taken by one atomic    *)
(* step and the message published by another.  The adapter between relays  *)
(* (external) carries what was published, late, more than once or never.   *)
(***************************************************************************)
EXTENDS Integers, Sequences, FiniteSets

CONSTANTS
    RelayNodes, RelayThreads,
    Everyone,       \* the empty target
    MaxSeq          \* messages of one sender, a bound

ASSUME RelayAssumption == MaxSeq \in Nat /\ Everyone \notin RelayNodes /\ IsFiniteSet(RelayThreads)

VARIABLES
    nextSeq,
    sending,    \* per node and thread: the message that has its number
    onNetwork,  \* messages published and not lost
    seen,       \* last number seen, per receiver and sender
    accepted,   \* what receive answered, in order
    relayStats  \* sent, received, dropped

relayVars == <<nextSeq, sending, onNetwork, seen, accepted, relayStats>>

NoMessage == [seq |-> 0, to |-> Everyone]

RelayInit ==
    /\ nextSeq = [n \in RelayNodes |-> 1]
    /\ sending = [n \in RelayNodes |-> [t \in RelayThreads |-> NoMessage]]
    /\ onNetwork = {} /\ seen = [n \in RelayNodes |-> [m \in RelayNodes |-> 0]]
    /\ accepted = [n \in RelayNodes |-> <<>>]
    /\ relayStats = [n \in RelayNodes |-> [sent |-> 0, received |-> 0, dropped |-> 0]]

\* send, the number; broadcast is sending to everyone.
TakeSeq(n, t, to) ==
    /\ sending[n][t] = NoMessage /\ nextSeq[n] <= MaxSeq
    /\ sending' = [sending EXCEPT ![n][t] = [seq |-> nextSeq[n], to |-> to]]
    /\ nextSeq' = [nextSeq EXCEPT ![n] = @ + 1]
    /\ UNCHANGED <<onNetwork, seen, accepted, relayStats>>

\* send, the local channel, from which the adapter takes it.
PublishMessage(n, t) ==
    /\ sending[n][t] # NoMessage
    /\ onNetwork' = onNetwork \cup {[seq |-> sending[n][t].seq, to |-> sending[n][t].to, from |-> n]}
    /\ sending' = [sending EXCEPT ![n][t] = NoMessage]
    /\ relayStats' = [relayStats EXCEPT ![n].sent = @ + 1]
    /\ UNCHANGED <<nextSeq, seen, accepted>>

LoseMessage(msg) ==
    /\ onNetwork' = onNetwork \ {msg}
    /\ UNCHANGED <<nextSeq, sending, seen, accepted, relayStats>>

Addressed(n, msg) == msg.from # n /\ msg.to \in {Everyone, n}

\* Wrong variant: only the number just before is a duplicate.
Duplicate_Last(n, msg) == msg.seq = seen[n][msg.from]

Duplicate(n, msg) == msg.seq <= seen[n][msg.from]

\* receive, under the lock of the seen map, the fan-out to subscribers included.
ReceiveMessage(n, msg) ==
    /\ Addressed(n, msg)
    /\ IF Duplicate(n, msg)
       THEN relayStats' = [relayStats EXCEPT ![n].dropped = @ + 1] /\ UNCHANGED <<seen, accepted>>
       ELSE /\ seen' = [seen EXCEPT ![n][msg.from] = msg.seq]
            /\ accepted' = [accepted EXCEPT ![n] = Append(@, msg)]
            /\ relayStats' = [relayStats EXCEPT ![n].received = @ + 1]
    /\ relayStats[n].dropped < MaxSeq
    /\ UNCHANGED <<nextSeq, sending, onNetwork>>

RelayNext ==
    \/ \E n \in RelayNodes, t \in RelayThreads :
         PublishMessage(n, t) \/ \E to \in RelayNodes \cup {Everyone} : TakeSeq(n, t, to)
    \/ \E msg \in onNetwork : LoseMessage(msg) \/ \E n \in RelayNodes : ReceiveMessage(n, msg)
-----------------------------------------------------------------------------
\* No node is given a message twice, one of a sender after a later one of the
\* same, its own, or another's; and the counts are of what happened.
OnceInOrder ==
    \A n \in RelayNodes :
      /\ \A i, j \in DOMAIN accepted[n] : i < j /\ accepted[n][i].from = accepted[n][j].from =>
           accepted[n][i].seq < accepted[n][j].seq
      /\ \A i \in DOMAIN accepted[n] : Addressed(n, accepted[n][i]) /\ accepted[n][i].seq < nextSeq[accepted[n][i].from]
      /\ relayStats[n].received = Len(accepted[n])
      /\ relayStats[n].sent + Cardinality({t \in RelayThreads : sending[n][t] # NoMessage}) = nextSeq[n] - 1
=============================================================================
