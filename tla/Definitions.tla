---------------------------- MODULE Definitions ----------------------------
(***************************************************************************)
(* Agent definitions on disk: loading a directory of them, or of preset    *)
(* crews, from rust-old/src/definitions/loader.rs, and taking a package    *)
(* of definitions through its ZIP bundle and back, from packaging.rs.      *)
(*                                                                         *)
(* The loader walks the directory while others may remove files from it.   *)
(***************************************************************************)
EXTENDS Naturals, Sequences, FiniteSets, SequencesExt

CONSTANTS
    Directories,    \* directories: sequences of [ext, valid, file]
    Packages,       \* packages: the manifest's size and the definitions [key, dots, size]
    MaxEntries,     \* MAX_ENTRIES
    MaxFileSize     \* MAX_FILE_SIZE

ASSUME DefinitionsAssumption == MaxEntries \in Nat /\ MaxFileSize \in Nat
ASSUME DirectoriesAssumption == \A d \in Directories : d \in Seq({d[i] : i \in DOMAIN d})

VARIABLES
    wanted,     \* what is loaded: "definitions" or "presets"
    dir,        \* the directory as it was listed
    removed,    \* entries removed since
    next,       \* next entry to look at
    checked,    \* the entry was found to be a file, and is about to be read
    loaded,     \* entries loaded, in order
    verdict,    \* "loading", "ok", "failed" on a definition, "unreadable" directory
    package,    \* a package: the size of its manifest and its definitions
    bundle,     \* what its export gave
    back        \* what an import of that gave

loaderVars == <<wanted, dir, removed, next, checked, loaded, verdict>>
packageVars == <<package, bundle, back>>
defVars == <<loaderVars, packageVars>>

NoBundle == [made |-> FALSE, entries |-> <<>>]
EmptyPackage == [manifest |-> 0, defs |-> <<>>]
NoPackage == [is |-> "none", defs |-> <<>>]

DefStart(w, d) ==
    /\ wanted = w /\ dir = d /\ removed = {} /\ next = 1 /\ checked = FALSE
    /\ loaded = <<>> /\ verdict = "loading"
    /\ package = EmptyPackage /\ bundle = NoBundle /\ back = NoPackage

DefInit == \E w \in {"definitions", "presets"}, d \in Directories : DefStart(w, d)

Extensions == {"json", "yaml", "yml"}

\* load_all_presets walks as load_all_from_dir does, and knows one format only.
WantedPreset(e) == e.ext = "json"

Wanted(e) == IF wanted = "presets" THEN WantedPreset(e) ELSE e.ext \in Extensions

\* Anything but a file, and any other extension, is passed over in silence.
LookAt ==
    /\ verdict = "loading" /\ ~checked /\ next <= Len(dir)
    /\ IF next \notin removed /\ dir[next].file /\ Wanted(dir[next])
       THEN checked' = TRUE /\ UNCHANGED next
       ELSE next' = next + 1 /\ UNCHANGED checked
    /\ UNCHANGED <<wanted, dir, removed, loaded, verdict, packageVars>>

LoadFromFile ==
    /\ verdict = "loading" /\ checked
    /\ IF next \notin removed /\ dir[next].valid
       THEN /\ loaded' = Append(loaded, next) /\ next' = next + 1 /\ checked' = FALSE
            /\ UNCHANGED verdict
       ELSE verdict' = "failed" /\ UNCHANGED <<loaded, next, checked>>
    /\ UNCHANGED <<wanted, dir, removed, packageVars>>

LoadEnds ==
    /\ verdict = "loading" /\ ~checked /\ next > Len(dir)
    /\ verdict' = "ok"
    /\ UNCHANGED <<wanted, dir, removed, next, checked, loaded, packageVars>>

\* The directory cannot be opened, or an entry of it not read.
ListingFails ==
    /\ verdict = "loading" /\ ~checked
    /\ verdict' = "unreadable"
    /\ UNCHANGED <<wanted, dir, removed, next, checked, loaded, packageVars>>

\* Somebody else removes an entry.
RemoveEntry ==
    /\ verdict = "loading"
    /\ \E i \in DOMAIN dir \ removed : removed' = removed \cup {i}
    /\ UNCHANGED <<wanted, dir, next, checked, loaded, verdict, packageVars>>

LoaderNext == LookAt \/ LoadFromFile \/ LoadEnds \/ ListingFails \/ RemoveEntry
-----------------------------------------------------------------------------
\* The ZIP writer refuses a second file of a name.
ZipAccepts(p) == \A i, j \in DOMAIN p : i # j => p[i].key # p[j].key

\* One entry for the manifest and one per definition.
Export(p) ==
    IF ZipAccepts(p.defs)
    THEN [made |-> TRUE, entries |-> <<[key |-> "manifest", dots |-> FALSE, size |-> p.manifest]>> \o p.defs]
    ELSE NoBundle

Oversized(entries) == \E i \in DOMAIN entries : entries[i].size > MaxFileSize

\* Wrong variant: an entry too large is passed over.
Import_Short(entries) ==
    LET defs == SelectSeq(Tail(entries), LAMBDA d : ~d.dots /\ d.size <= MaxFileSize)
    IN  IF Len(entries) > MaxEntries \/ Oversized(<<Head(entries)>>)
        THEN [is |-> "refused", defs |-> <<>>]
        ELSE [is |-> "read", defs |-> defs]

\* Entries with two dots in their name are left out; too many entries, a manifest
\* or a definition too large fail the whole package.
Import(entries) ==
    LET defs == SelectSeq(Tail(entries), LAMBDA d : ~d.dots)
    IN  IF Len(entries) > MaxEntries \/ Oversized(<<Head(entries)>> \o defs)
        THEN [is |-> "refused", defs |-> <<>>]
        ELSE [is |-> "read", defs |-> defs]

ExportPackage ==
    /\ bundle = NoBundle
    /\ \E p \in Packages : package' = p /\ bundle' = Export(p)
    /\ UNCHANGED <<loaderVars, back>>

ImportPackage ==
    /\ bundle # NoBundle /\ back = NoPackage
    /\ back' = Import(bundle.entries)
    /\ UNCHANGED <<loaderVars, package, bundle>>

PackageNext == ExportPackage \/ ImportPackage
-----------------------------------------------------------------------------
(***************************************************************************)
(* A directory that loads gives, in its order, every definition that was   *)
(* there to the end, and nothing that is not a definition; a load that     *)
(* could list its directory fails only for a broken definition or for one  *)
(* removed under its hands.                                                *)
(***************************************************************************)
LoaderKept ==
    /\ \A i \in DOMAIN loaded :
        /\ Wanted(dir[loaded[i]]) /\ dir[loaded[i]].valid
        /\ \A j \in 1 .. i - 1 : loaded[j] < loaded[i]
    /\ verdict = "ok" => \A i \in DOMAIN dir \ removed :
        dir[i].file /\ Wanted(dir[i]) => i \in ToSet(loaded)
    /\ verdict = "failed" => \E i \in DOMAIN dir : Wanted(dir[i]) /\ (i \in removed \/ ~dir[i].valid)

(***************************************************************************)
(* A package that can be exported comes back from its bundle as it was,    *)
(* unless it has too many entries for a bundle, a manifest or a definition *)
(* that is too large for one, or a key the import passes over.             *)
(***************************************************************************)
PackageKept ==
    /\ back.is = "read" =>
        IF \E i \in DOMAIN package.defs : package.defs[i].dots
        THEN Len(back.defs) < Len(package.defs)
        ELSE back.defs = package.defs
    /\ back.is = "refused" =>
        \/ Len(package.defs) >= MaxEntries
        \/ Oversized(package.defs) \/ package.manifest > MaxFileSize

\* Definitions survive the directory they are loaded from and the bundle they travel in.
DefinitionsKept == LoaderKept /\ PackageKept
=============================================================================
