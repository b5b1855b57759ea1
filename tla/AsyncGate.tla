------------------------------ MODULE AsyncGate ------------------------------
(***************************************************************************)
(* rust-old/src/orchestrator/approval.rs and server/routes/approval.rs:    *)
(* task results that wait for a human, each behind a oneshot channel whose *)
(* sender is in a map under the task's id.                                 *)
(*                                                                         *)
(* Waiters are tasks of the embedder (external: nothing in the tree waits  *)
(* yet), reviewers come in through HTTP.  Every use of the map is one      *)
(* step, and so is dropping a receiver.                                    *)
(***************************************************************************)
EXTENDS Integers, FiniteSets

CONSTANTS
    Waiters, Gated,     \* who waits, and the ids of the tasks
    NoWaiter,
    MaxPendingApprovals

ASSUME AsyncGateAssumption ==
    /\ MaxPendingApprovals \in Nat /\ NoWaiter \notin Waiters
    /\ IsFiniteSet(Waiters) /\ Waiters # {}

VARIABLES
    gatePending,    \* whose sender the map holds for each task
    waitAt,         \* idle, admitted, waiting, expired, closed, done
    waitFor,        \* the task each waiter asked about
    inbox,          \* what its channel holds: empty, approved, rejected, dropped
    verdictOf,      \* what request_approval or wait_for_decision answered
    delivered,      \* the decision a reviewer was told is delivered, and when
    disowned        \* waiters whose entry another took away

gateVars == <<gatePending, waitAt, waitFor, inbox, verdictOf, delivered, disowned>>

Decisions == {"approved", "rejected"}

GateInit ==
    /\ gatePending = [t \in Gated |-> NoWaiter]
    /\ waitAt = [w \in Waiters |-> "idle"] /\ waitFor \in [Waiters -> Gated]
    /\ inbox = [w \in Waiters |-> "empty"] /\ verdictOf = [w \in Waiters |-> "none"]
    /\ delivered = [w \in Waiters |-> "none"] /\ disowned = {}

PendingCount == Cardinality({t \in Gated : gatePending[t] # NoWaiter})

\* request_approval, the look at the limit.
AskApproval(w) ==
    /\ waitAt[w] = "idle"
    /\ IF PendingCount >= MaxPendingApprovals
       THEN waitAt' = [waitAt EXCEPT ![w] = "done"] /\ verdictOf' = [verdictOf EXCEPT ![w] = "refused"]
       ELSE waitAt' = [waitAt EXCEPT ![w] = "admitted"] /\ UNCHANGED verdictOf
    /\ UNCHANGED <<gatePending, waitFor, inbox, delivered, disowned>>

\* A sender that leaves the map unsent is dropped, and its receiver learns that.
DropSender(t) ==
    inbox' = [w \in Waiters |-> IF w = gatePending[t] THEN "dropped" ELSE inbox[w]]

\* request_approval, the entry: whoever was there is replaced.
EnterPending(w) ==
    LET t == waitFor[w] IN
      /\ waitAt[w] = "admitted"
      /\ gatePending' = [gatePending EXCEPT ![t] = w]
      /\ DropSender(t)
      /\ disowned' = disowned \cup ({gatePending[t]} \ {NoWaiter})
      /\ waitAt' = [waitAt EXCEPT ![w] = "waiting"]
      /\ UNCHANGED <<waitFor, verdictOf, delivered>>

Listening(w) == waitAt[w] \in {"waiting", "expired"}

\* submit_decision and the answer of the route: the entry goes whether or not
\* anybody listens; delivered when somebody does.
SubmitDecision(t, d) ==
    LET w == gatePending[t] IN
      /\ w # NoWaiter
      /\ gatePending' = [gatePending EXCEPT ![t] = NoWaiter]
      /\ IF Listening(w)
         THEN /\ inbox' = [inbox EXCEPT ![w] = d]
              /\ delivered' = [delivered EXCEPT ![w] = IF waitAt[w] = "expired" THEN "late" ELSE d]
         ELSE UNCHANGED <<inbox, delivered>>
      /\ UNCHANGED <<waitAt, waitFor, verdictOf, disowned>>

\* cancel
CancelPending(t) ==
    /\ gatePending[t] # NoWaiter
    /\ gatePending' = [gatePending EXCEPT ![t] = NoWaiter]
    /\ DropSender(t) /\ disowned' = disowned \cup {gatePending[t]}
    /\ UNCHANGED <<waitAt, waitFor, verdictOf, delivered>>

\* wait_for_decision: the channel is polled first ...
Decided(w) ==
    /\ waitAt[w] = "waiting" /\ inbox[w] # "empty"
    /\ verdictOf' = [verdictOf EXCEPT ![w] = IF inbox[w] = "approved" THEN "approved" ELSE "rejected"]
    /\ waitAt' = [waitAt EXCEPT ![w] = "done"]
    /\ UNCHANGED <<gatePending, waitFor, inbox, delivered, disowned>>

\* ... and the clock second; only then is the receiver dropped ...
Expire(w) ==
    /\ waitAt[w] = "waiting" /\ inbox[w] = "empty"
    /\ waitAt' = [waitAt EXCEPT ![w] = "expired"]
    /\ UNCHANGED <<gatePending, waitFor, inbox, verdictOf, delivered, disowned>>

CloseReceiver(w) ==
    /\ waitAt[w] = "expired"
    /\ waitAt' = [waitAt EXCEPT ![w] = "closed"]
    /\ UNCHANGED <<gatePending, waitFor, inbox, verdictOf, delivered, disowned>>

\* Wrong variant: the entry is left to a reviewer.
AfterTimeout_Kept(t) == gatePending

\* The entry of the task goes, whoever's it is by now.
AfterTimeout(t) == [gatePending EXCEPT ![t] = NoWaiter]

TimedOut(w) ==
    LET t == waitFor[w] IN
      /\ waitAt[w] = "closed"
      /\ gatePending' = AfterTimeout(t)
      /\ DropSender(t) /\ disowned' = disowned \cup ({gatePending[t]} \ {NoWaiter, w})
      /\ verdictOf' = [verdictOf EXCEPT ![w] = "rejected"]
      /\ waitAt' = [waitAt EXCEPT ![w] = "done"]
      /\ UNCHANGED <<waitFor, delivered>>

GateNext ==
    \/ \E w \in Waiters : AskApproval(w) \/ EnterPending(w) \/ Decided(w)
                          \/ Expire(w) \/ CloseReceiver(w) \/ TimedOut(w)
    \/ \E t \in Gated : CancelPending(t) \/ \E d \in Decisions : SubmitDecision(t, d)
-----------------------------------------------------------------------------
\* A result passes only because a reviewer approved this very request; what a
\* reviewer was told is delivered is what the waiter answers, unless its clock
\* had already run out; a waiter is turned away by a dropped channel only when
\* another request, a cancel or another's timeout took its entry; no entry
\* outlives its waiter, and the limit is passed at most by those admitted at
\* once.
GateHonest ==
    /\ \A w \in Waiters :
         /\ verdictOf[w] = "approved" => delivered[w] = "approved"
         /\ delivered[w] \in Decisions /\ waitAt[w] = "done" => verdictOf[w] = delivered[w]
         /\ inbox[w] = "dropped" /\ waitAt[w] = "waiting" => w \in disowned
         /\ waitAt[w] = "waiting" /\ gatePending[waitFor[w]] # w => inbox[w] # "empty"
    /\ \A t \in Gated : gatePending[t] # NoWaiter => waitAt[gatePending[t]] \in {"waiting", "expired", "closed"}
    /\ PendingCount <= MaxPendingApprovals + Cardinality(Waiters) - 1
=============================================================================
