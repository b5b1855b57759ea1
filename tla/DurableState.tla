---------------------------- MODULE DurableState ----------------------------
(***************************************************************************)
(* Snapshots of a crew on disk, over crashes and errors of the disk:       *)
(* FileStateStore of rust-old/src/orchestrator/durable_state.rs, which     *)
(* writes the file in place, and src/orchestrator/durable_state.cyr, which *)
(* writes beside it and renames (file_write_atomic, external).             *)
(*                                                                         *)
(* A snapshot is its version.  The file holds a whole snapshot, or         *)
(* something torn: cut off by a crash or by a write that failed, or two    *)
(* snapshots written over each other by saves that overlap.  Torn JSON is  *)
(* refused when it is decoded.                                             *)
(***************************************************************************)
EXTENDS Integers, FiniteSets

CONSTANTS
    Savers,         \* tasks that save the crew's state
    SizeOf,         \* how long each snapshot is
    MaxSaves,       \* saves in all, a bound
    MaxCrashes      \* crashes in all, a bound

ASSUME DurableAssumption == {MaxSaves, MaxCrashes} \subseteq Nat /\ SizeOf \in [1..MaxSaves -> Nat]

VARIABLES
    inPlace,    \* which of the two stores
    file,       \* absent, torn, or the version it holds
    saving,     \* the version each saver is at, and how far: "open", "written"
    saves, crashes,
    safe,       \* the versions a load may answer: the last that was saved, and
                \* those whose save was under way since
    disturbed   \* a crash, an error or another save came into the last save in place

durVars == <<inPlace, file, saving, saves, crashes, safe, disturbed>>

Absent == "absent"
Torn == "torn"
NotSaving == [version |-> 0, at |-> "none"]

DurableInit ==
    /\ inPlace \in BOOLEAN /\ file = [kind |-> Absent, version |-> 0]
    /\ saving = [s \in Savers |-> NotSaving]
    /\ saves = 0 /\ crashes = 0 /\ safe = {0} /\ disturbed = FALSE

Whole(v) == [kind |-> "whole", version |-> v]
UnderWay == {s \in Savers : saving[s].at # "none"}

\* Wrong variant: the new snapshot is written over the old one in either store.
Opened_Truncates == [kind |-> Torn, version |-> 0]

\* What the file is once it has been opened for writing: fs::write truncates.
Opened == IF inPlace THEN [kind |-> Torn, version |-> 0] ELSE file

\* create_dir_all, and the file to write to is opened.
OpenFile(s) ==
    /\ saving[s] = NotSaving /\ saves < MaxSaves
    /\ saves' = saves + 1
    /\ saving' = [saving EXCEPT ![s] = [version |-> saves + 1, at |-> "open"]]
    /\ file' = Opened
    /\ safe' = safe \cup {saves + 1}
    /\ disturbed' = (inPlace /\ UnderWay # {})
    /\ UNCHANGED <<inPlace, crashes>>

\* The directory cannot be made or the file not opened: nothing is touched.
OpenFails(s) ==
    /\ saving[s] = NotSaving /\ saves < MaxSaves
    /\ saves' = saves + 1
    /\ UNCHANGED <<inPlace, file, saving, crashes, safe, disturbed>>

\* The bytes are written from the start; a longer snapshot that is there sticks
\* out behind.
Overwritten(v) ==
    IF file.kind = "whole" /\ SizeOf[file.version] > SizeOf[v]
    THEN [kind |-> Torn, version |-> 0] ELSE Whole(v)

\* In place the write completes the save; beside it, the rename does.
WriteFile(s) ==
    /\ saving[s].at = "open"
    /\ IF inPlace
       THEN /\ file' = Overwritten(saving[s].version)
            /\ safe' = {saving[s].version} \cup {saving[r].version : r \in UnderWay \ {s}}
            /\ saving' = [saving EXCEPT ![s] = NotSaving]
       ELSE saving' = [saving EXCEPT ![s].at = "written"] /\ UNCHANGED <<file, safe>>
    /\ UNCHANGED <<inPlace, saves, crashes, disturbed>>

Rename(s) ==
    /\ saving[s].at = "written"
    /\ file' = Whole(saving[s].version)
    /\ safe' = {saving[s].version} \cup {saving[r].version : r \in UnderWay \ {s}}
    /\ saving' = [saving EXCEPT ![s] = NotSaving]
    /\ UNCHANGED <<inPlace, saves, crashes, disturbed>>

\* What a write that fails leaves: in place a part of the snapshot, or none of
\* it, over what was there; beside it the file is not touched.
AfterError == IF inPlace THEN {file, [kind |-> Torn, version |-> 0]} ELSE {file}

\* The write fails, or the rename: the save returns the error.
SaveFails(s) ==
    /\ saving[s].at # "none"
    /\ file' \in AfterError
    /\ safe' = safe \ {saving[s].version}
    /\ saving' = [saving EXCEPT ![s] = NotSaving]
    /\ disturbed' = (disturbed \/ inPlace)
    /\ UNCHANGED <<inPlace, saves, crashes>>

\* The process dies and starts again: the disk stays.
Crash ==
    /\ crashes < MaxCrashes /\ crashes' = crashes + 1
    /\ saving' = [s \in Savers |-> NotSaving]
    /\ disturbed' = (disturbed \/ (inPlace /\ UnderWay # {}))
    /\ UNCHANGED <<inPlace, file, saves, safe>>

\* load and deserialize_crew_state: the snapshot, none (0), or an error (-1).
Loads(f) == IF f.kind = Torn THEN -1 ELSE f.version

DurableNext == Crash \/ \E s \in Savers :
    OpenFile(s) \/ OpenFails(s) \/ WriteFile(s) \/ Rename(s) \/ SaveFails(s)
-----------------------------------------------------------------------------
\* After any crash and any error of the disk the store that renames answers the
\* last snapshot that was saved or one whose save was under way, never an error,
\* never an older one and never one whose save failed; so does the store that
\* writes in place while no save is going on, unless a crash, a failed write or
\* another save came into the last save that began.  Once a save has had the file
\* to itself, what tore it before is mended.
RecoversSnapshot ==
    ~inPlace \/ (UnderWay = {} /\ ~disturbed) => Loads(file) \in safe
=============================================================================
