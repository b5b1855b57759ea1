----------------------------- MODULE AuditChain -----------------------------
(***************************************************************************)
(* src/orchestrator/audit.cyr: the hash chain of audit entries.  Threads   *)
(* record at once: each builds and hashes its entry without the lock, and  *)
(* links, signs and appends it under the lock, where the oldest entry is   *)
(* evicted at capacity and its hash becomes the anchor verify starts from. *)
(*                                                                         *)
(* An entry's data is its id (a UUID), here the number it was built with.  *)
(* SHA-256 and HMAC are taken to be injective: a hash is what was hashed.  *)
(***************************************************************************)
EXTENDS Integers, Sequences, SequencesExt

CONSTANTS
    Recorders,      \* threads that record
    MaxEntries,     \* AGN_AC_MAX_ENTRIES
    MaxRecords      \* entries built in all, a bound

ASSUME CapacityAssumption == MaxEntries \in Nat \ {0}
ASSUME RecordsAssumption == MaxRecords \in Nat

VARIABLES
    entries,        \* AGN_AC_ENTRIES, oldest first
    lastHash,       \* AGN_AC_LAST_HASH
    firstValid,     \* AGN_AC_FIRST_VALID_HASH
    building,       \* the entry each thread has built and not yet linked, 0 if none
    built,          \* entries built so far
    linked          \* the ids in the order they were linked

auditVars == <<entries, lastHash, firstValid, building, built, linked>>

Genesis == 0

\* _agnosai_audit_entry_hash: the data fields, not the integrity block.
EntryHash(e) == e.id

Sign(hash, prev) == <<hash, prev>>

AuditInit ==
    /\ entries = <<>>
    /\ lastHash = Genesis /\ firstValid = Genesis
    /\ building = [w \in Recorders |-> 0]
    /\ built = 0 /\ linked = <<>>

\* Outside the lock: the entry, and its hash.
Build(w) ==
    /\ building[w] = 0 /\ built < MaxRecords
    /\ built' = built + 1
    /\ building' = [building EXCEPT ![w] = built']
    /\ UNCHANGED <<entries, lastHash, firstValid, linked>>

AtCapacity == Len(entries) >= MaxEntries

\* Wrong variant: the anchor is the evicted entry's own link.
Anchor_Link(e) == e.prev

\* What verify starts from once e is evicted: e's hash.
Anchor(e) == EntryHash(e)

\* The locked section: the link and the signature are made from last_hash.
Record(w) ==
    LET hash == EntryHash([id |-> building[w], prev |-> Genesis, sig |-> Sign(Genesis, Genesis)]) IN
    LET e == [id |-> building[w], prev |-> lastHash, sig |-> Sign(hash, lastHash)] IN
      /\ building[w] # 0
      /\ building' = [building EXCEPT ![w] = 0]
      /\ lastHash' = hash
      /\ firstValid' = IF AtCapacity THEN Anchor(entries[1]) ELSE firstValid
      /\ entries' = Append(IF AtCapacity THEN Tail(entries) ELSE entries, e)
      /\ linked' = Append(linked, e.id)
      /\ UNCHANGED built

AuditNext == \E w \in Recorders : Build(w) \/ Record(w)

AuditSpec == AuditInit /\ [][AuditNext]_auditVars
-----------------------------------------------------------------------------
(* agnosai_audit_verify over a sequence s of entries: the walk keeps the    *)
(* hash of the entry before and stops at the first that fails.              *)

HashBefore(s, i) == IF i = 1 THEN firstValid ELSE EntryHash(s[i - 1])

\* Wrong variant: each entry is checked by itself.
LinkHolds_Alone(s, i) == s[i].sig = Sign(EntryHash(s[i]), s[i].prev)

LinkHolds(s, i) ==
    /\ s[i].prev = HashBefore(s, i)
    /\ s[i].sig = Sign(EntryHash(s[i]), HashBefore(s, i))

Verify(s) == \A i \in 1..Len(s) : LinkHolds(s, i)
-----------------------------------------------------------------------------
AuditTypeOK ==
    /\ entries \in Seq([id : 1..MaxRecords, prev : Nat, sig : Nat \X Nat])
    /\ lastHash \in Nat /\ firstValid \in Nat
    /\ building \in [Recorders -> 0..MaxRecords]
    /\ built \in 0..MaxRecords
    /\ linked \in Seq(1..MaxRecords)

\* Between two locked sections the chain verifies, evicted or not, and holds
\* the newest entries, at most MaxEntries, in the order they were linked, none
\* left out.
ChainSound ==
    /\ Verify(entries)
    /\ Len(entries) = IF Len(linked) < MaxEntries THEN Len(linked) ELSE MaxEntries
    /\ \A i \in 1..Len(entries) :
         entries[i].id = linked[Len(linked) - Len(entries) + i]

\* verify notices an entry that is taken out before the last one, two entries
\* that change places, and an entry whose data was changed.
TamperShows ==
    /\ \A i \in 1..(Len(entries) - 1) : ~ Verify(RemoveAt(entries, i))
    /\ \A i, j \in 1..Len(entries) : i < j =>
         ~ Verify([entries EXCEPT ![i] = entries[j], ![j] = entries[i]])
    /\ \A i \in 1..Len(entries), id \in 1..MaxRecords :
         id # entries[i].id => ~ Verify([entries EXCEPT ![i].id = id])
=============================================================================
