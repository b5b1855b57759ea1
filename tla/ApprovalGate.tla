---------------------------- MODULE ApprovalGate ----------------------------
(***************************************************************************)
(* The human-in-the-loop gate of src/orchestrator/approval.cyr.            *)
(*                                                                         *)
(* A task that needs sign-off registers a one-slot channel under its id    *)
(* and polls it; an HTTP callback submits the decision, or the approval is *)
(* cancelled.  The pending map and its key mirror are under the gate's     *)
(* mutex; a channel is not, and a waiter looks at the two in turn.         *)
(*                                                                         *)
(* A request is the channel it made; several may be made for one task, and *)
(* each has the one waiter that made it.                                   *)
(***************************************************************************)
EXTENDS Integers, Sequences, FiniteSets, SequencesExt

CONSTANTS
    Tasks,
    MaxRequests,    \* how many requests are made in all
    None,
    MaxPending      \* AGNOSAI_APPROVAL_MAX_PENDING

ASSUME BoundsAssumption == MaxPending \in Nat \ {0} /\ MaxRequests \in Nat
ASSUME NoneAssumption == None \notin Tasks

\* Channels, numbered as they are made; 0 is the null channel.
Requests == 1..MaxRequests

REJECTED == 0
APPROVED == 1
Decisions == {REJECTED, APPROVED}

VARIABLES
    pending,    \* AGN_AG_PENDING: task -> channel, or 0
    keys,       \* AGN_AG_KEYS
    slot,       \* what a channel holds, 0 is empty
    closed,     \* channels closed by a cancel
    task,       \* the task each request is for
    at,         \* where the waiter of each request is
    late,       \* its deadline has passed
    verdict,    \* what the wait returned
    told,       \* the decision a reviewer was told had reached this waiter
    closing     \* channels a cancel has unregistered and not yet closed

vars == <<pending, keys, slot, closed, task, at, late, verdict, told, closing>>
gate == <<pending, keys>>

Unset == 3
-----------------------------------------------------------------------------
Init ==
    /\ pending = [t \in Tasks |-> 0] /\ keys = <<>>
    /\ slot = [c \in Requests |-> 0] /\ closed = {} /\ closing = {}
    /\ task = [c \in Requests |-> None]
    /\ at = [c \in Requests |-> "unmade"]
    /\ late = [c \in Requests |-> FALSE]
    /\ verdict = [c \in Requests |-> Unset]
    /\ told = [c \in Requests |-> Unset]

Waiting(c) == at[c] \notin {"unmade", "refused", "done"}

PendingTasks == {t \in Tasks : pending[t] # 0}

\* _agnosai_approval_forget
Forget(t) == RemoveFirst(keys, t)

AtCapacity == Cardinality(PendingTasks) >= MaxPending

KeysWith(t) == IF pending[t] = 0 THEN Append(keys, t) ELSE keys

\* agnosai_approval_request.  A second request for a pending task replaces the
\* first; at capacity there is no channel, which is a rejection.
Request(c, t) ==
    /\ at[c] = "unmade" /\ \A b \in 1..(c - 1) : at[b] # "unmade"
    /\ task' = [task EXCEPT ![c] = t]
    /\ \/ /\ ~AtCapacity
          /\ pending' = [pending EXCEPT ![t] = c]
          /\ keys' = KeysWith(t)
          /\ at' = [at EXCEPT ![c] = "poll"]
          /\ UNCHANGED verdict
       \/ /\ AtCapacity
          /\ at' = [at EXCEPT ![c] = "refused"]
          /\ verdict' = [verdict EXCEPT ![c] = REJECTED]
          /\ UNCHANGED gate
    /\ UNCHANGED <<slot, closed, late, told, closing>>

\* agnosai_approval_submit_decision: send, then unregister, in one critical
\* section.  1 is added so that no decision is the 0 of an empty channel.
SubmitDecision(t, d) ==
    /\ pending[t] # 0
    /\ LET c == pending[t] IN
         IF slot[c] = 0 /\ c \notin closed
           THEN /\ slot' = [slot EXCEPT ![c] = d + 1]
                /\ told' = [told EXCEPT ![c] = d]
           ELSE UNCHANGED <<slot, told>>
    /\ pending' = [pending EXCEPT ![t] = 0]
    /\ keys' = Forget(t)
    /\ UNCHANGED <<closed, task, at, late, verdict, closing>>

\* agnosai_approval_cancel: unregister under the mutex, close after it.
Cancel(t) ==
    /\ pending[t] # 0
    /\ closing' = closing \cup {pending[t]}
    /\ pending' = [pending EXCEPT ![t] = 0]
    /\ keys' = Forget(t)
    /\ UNCHANGED <<slot, closed, task, at, late, verdict, told>>

CancelClose(c) ==
    /\ c \in closing
    /\ closing' = closing \ {c} /\ closed' = closed \cup {c}
    /\ UNCHANGED <<gate, slot, task, at, late, verdict, told>>
-----------------------------------------------------------------------------
(* agnosai_approval_wait_for_decision                                      *)

\* Wrong variant: the 1 is not taken off again.
Decode_Raw(v) == v

Decode(v) == v - 1

Return(c, v) ==
    /\ at' = [at EXCEPT ![c] = "done"]
    /\ verdict' = [verdict EXCEPT ![c] = v]

\* chan_try_recv, at the head of the loop.
Poll(c) ==
    /\ at[c] = "poll"
    /\ IF slot[c] # 0
         THEN Return(c, Decode(slot[c])) /\ slot' = [slot EXCEPT ![c] = 0]
         ELSE at' = [at EXCEPT ![c] = "check"] /\ UNCHANGED <<slot, verdict>>
    /\ UNCHANGED <<gate, closed, task, late, told, closing>>

\* Still registered under THIS channel?
Check(c) ==
    /\ at[c] = "check"
    /\ at' = [at EXCEPT ![c] = IF pending[task[c]] = c THEN "clock" ELSE "last"]
    /\ UNCHANGED <<gate, slot, closed, task, late, verdict, told, closing>>

\* Wrong variant: the last receive is skipped.
LastWord_None(c) == REJECTED

LastWord(c) == IF slot[c] # 0 THEN Decode(slot[c]) ELSE REJECTED

\* Not any more: one last receive.
LastPoll(c) ==
    /\ at[c] = "last"
    /\ Return(c, LastWord(c))
    /\ slot' = [slot EXCEPT ![c] = 0]
    /\ UNCHANGED <<gate, closed, task, late, told, closing>>

\* Wrong variant: every turn of the loop counts its deadline anew.
Overdue_Sliding(c) == FALSE

Overdue(c) == late[c]

\* Still mine: the deadline, or sleep and poll again.
ReadClock(c) ==
    /\ at[c] = "clock"
    /\ at' = [at EXCEPT ![c] = IF Overdue(c) THEN "expire" ELSE "poll"]
    /\ UNCHANGED <<gate, slot, closed, task, late, verdict, told, closing>>

\* Wrong variant: whatever is registered for the task goes.
MineToRemove_Any(c) == pending[task[c]] # 0

MineToRemove(c) == pending[task[c]] = c

\* Timed out: unregister, only this waiter's own, and reject.
Expire(c) ==
    /\ at[c] = "expire"
    /\ IF MineToRemove(c)
         THEN pending' = [pending EXCEPT ![task[c]] = 0] /\ keys' = Forget(task[c])
         ELSE UNCHANGED gate
    /\ Return(c, REJECTED)
    /\ UNCHANGED <<slot, closed, task, late, told, closing>>

\* The clock passes the deadline of a waiter.
Tick(c) ==
    /\ Waiting(c) /\ ~late[c]
    /\ late' = [late EXCEPT ![c] = TRUE]
    /\ UNCHANGED <<gate, slot, closed, task, at, verdict, told, closing>>
-----------------------------------------------------------------------------
WaiterStep(c) == Poll(c) \/ Check(c) \/ LastPoll(c) \/ ReadClock(c) \/ Expire(c)

\* Nobody is waiting and every request has been made.
Quiet == (\A c \in Requests : at[c] \in {"refused", "done"}) /\ closing = {} /\ UNCHANGED vars

Next ==
    \/ \E c \in Requests, t \in Tasks : Request(c, t)
    \/ \E t \in Tasks, d \in Decisions : SubmitDecision(t, d)
    \/ \E t \in Tasks : Cancel(t)
    \/ \E c \in Requests : CancelClose(c) \/ WaiterStep(c) \/ Tick(c)
    \/ Quiet

Spec == Init /\ [][Next]_vars

\* A waiter's thread keeps polling and the clock keeps going.
Fairness == \A c \in Requests : WF_vars(WaiterStep(c)) /\ WF_vars(Tick(c))

LiveSpec == Spec /\ Fairness
-----------------------------------------------------------------------------
\* Every variable holds what the code could store in it.
TypeOK ==
    /\ pending \in [Tasks -> Requests \cup {0}] /\ keys \in Seq(Tasks)
    /\ slot \in [Requests -> 0..2] /\ closed \subseteq Requests /\ closing \subseteq Requests
    /\ task \in [Requests -> Tasks \cup {None}]
    /\ at \in [Requests -> {"unmade", "poll", "check", "last", "clock", "expire", "refused",
                         "done"}]
    /\ late \in [Requests -> BOOLEAN]
    /\ verdict \in [Requests -> Decisions \cup {Unset}]
    /\ told \in [Requests -> Decisions \cup {Unset}]

\* Every failure mode rejects: a wait returns Approved only when a reviewer
\* approved that very request, not another one for the same task.
FailsClosed == \A c \in Requests : verdict[c] = APPROVED => told[c] = APPROVED

\* pending_tasks lists every pending task, and lists it once.
MirrorExact ==
    /\ Range(keys) = PendingTasks
    /\ \A i, j \in DOMAIN keys : i # j => keys[i] # keys[j]

\* The gate never holds more than its limit.
PendingBounded == Cardinality(PendingTasks) <= MaxPending

\* A live waiter loses its registration only to a decision, a cancel or a
\* newer request for its task: never to another waiter's deadline.
RegistrationKept ==
    \A c \in Requests : Waiting(c) =>
        \/ pending[task[c]] = c
        \/ told[c] # Unset
        \/ c \in closing \cup closed
        \/ \E d \in Requests : d > c /\ task[d] = task[c] /\ at[d] \notin {"unmade", "refused"}

\* What is registered has a live waiter, so no pending task is listed that
\* nobody is waiting for.
PendingIsAwaited ==
    \A t \in Tasks : pending[t] # 0 => Waiting(pending[t]) /\ task[pending[t]] = t

\* The registrations and the waiters agree, both ways.
PlaceIsKept == RegistrationKept /\ PendingIsAwaited

\* A decision a reviewer was told had reached a waiter is what it returns,
\* unless its deadline passed first.
DecisionStands ==
    \A c \in Requests :
        at[c] = "done" /\ told[c] # Unset /\ ~late[c] => verdict[c] = told[c]

\* Every wait ends: requests are finitely many, so in the end nobody waits.
WaitEnds == <>[](\A c \in Requests : ~Waiting(c))
=============================================================================
