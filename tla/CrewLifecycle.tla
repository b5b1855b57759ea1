--------------------------- MODULE CrewLifecycle ---------------------------
(***************************************************************************)
(* What the registry promises a caller that polls GET /api/v1/crews/{id}   *)
(* and calls cancel, forget and submit: the statuses an id can show and    *)
(* the moves between them, with no queue, no run and no memory.  The       *)
(* second variable is what a caller cannot see and every refusal goes by:  *)
(* whether a runner holds the crew.                                        *)
(*                                                                         *)
(* CrewRegistry implements it while no two runs of an id overlap.          *)
(***************************************************************************)
CONSTANT Crews

VARIABLES
    shown,      \* the status an id shows, or "absent"
    held        \* whether a runner holds the crew

lvars == <<shown, held>>

Ended == {"completed", "failed", "cancelled"}
Shown == {"absent", "pending", "running"} \cup Ended

LInit ==
    /\ shown = [c \in Crews |-> "absent"]
    /\ held = [c \in Crews |-> FALSE]

\* A crew is registered, and the crews in gone, all ended, make room for it.
Submit(c, gone) ==
    /\ ~held[c]
    /\ \A d \in gone : shown[d] \in Ended /\ ~held[d]
    /\ shown' = [d \in Crews |-> IF d = c THEN "pending"
                                 ELSE IF d \in gone THEN "absent" ELSE shown[d]]
    /\ held' = [held EXCEPT ![c] = TRUE]

\* It is handed to its runner; a cancel that landed first stands.
Begin(c) ==
    /\ held[c] /\ shown[c] = "pending"
    /\ shown' = [shown EXCEPT ![c] = "running"]
    /\ UNCHANGED held

\* Its run ends and stores how: the last word on this run of the id.
End(c, how) ==
    /\ held[c] /\ how \in Ended
    /\ shown[c] # "pending"
    /\ shown' = [shown EXCEPT ![c] = how]
    /\ held' = [held EXCEPT ![c] = FALSE]

\* Its run ends with nothing to store, or never started.
LetGo(c) ==
    /\ held[c]
    /\ shown' = [shown EXCEPT ![c] = IF @ = "running" THEN "pending" ELSE @]
    /\ held' = [held EXCEPT ![c] = FALSE]

\* A cancel moves only a crew that has not ended.
Cancel(c) ==
    /\ shown[c] \in {"pending", "running"}
    /\ shown' = [shown EXCEPT ![c] = "cancelled"]
    /\ UNCHANGED held

\* A forget or a release, of a crew no runner holds.
Drop(c) ==
    /\ ~held[c] /\ shown[c] # "absent"
    /\ shown' = [shown EXCEPT ![c] = "absent"]
    /\ UNCHANGED held

LNext ==
    \/ \E c \in Crews, gone \in SUBSET Crews : Submit(c, gone)
    \/ \E c \in Crews : Begin(c) \/ LetGo(c) \/ Cancel(c) \/ Drop(c)
    \/ \E c \in Crews, how \in Ended : End(c, how)

LSpec == LInit /\ [][LNext]_lvars
=============================================================================
