---------------------------- MODULE ContentCache ----------------------------
(***************************************************************************)
(* The content-addressed cache: objects on disk named by their hash, the   *)
(* size table and recency list kept in memory, the staging area, and the   *)
(* crash of the process between any two calls.  A payload is named by the  *)
(* hash of its bytes; a corrupt object is one whose bytes no longer have   *)
(* the hash of its name.                                                   *)
(***************************************************************************)
EXTENDS Integers, SequencesExt

CONSTANTS
    Hashes,     \* hashes, and the payloads they are the hashes of
    Big,        \* payloads of size 2; the others have size 1
    Quota,      \* quota_bytes
    MaxDamage   \* bound: objects the disk damages

ASSUME CacheAssumption == Big \subseteq Hashes /\ {Quota, MaxDamage} \subseteq Nat

VARIABLES
    disk,       \* objects/: hash -> "absent", "good" or "corrupt"
    tracked,    \* keys of the size table
    lru,        \* recency list, most recently used last
    staged,     \* payloads in tmp/ whose handle a caller holds
    damage      \* number of damaged objects so far

cacheVars == <<disk, tracked, lru, staged, damage>>

CacheInit ==
    /\ disk = [h \in Hashes |-> "absent"]
    /\ lru = <<>>
    /\ tracked = {} /\ staged = {}
    /\ damage = 0

Size(S) == Cardinality(S) + Cardinality(S \cap Big)

Stored == {h \in Hashes : disk[h] # "absent"}

(* Positions K of a sequence in ascending order. *)
InOrder(K) == {f \in [1..Cardinality(K) -> K] : \A a, b \in 1..Cardinality(K) : a < b => f[a] < f[b]}

(* VecDeque::retain: the entries of the list that are in S, in their order *)
(* (a set of one sequence). *)
retain(list, S) ==
    LET kept == {i \in DOMAIN list : list[i] \in S}
    IN  {[k \in 1..Cardinality(kept) |-> list[f[k]]] : f \in InOrder(kept)}

touch(list, h) == {Append(rest, h) : rest \in retain(list, Hashes \ {h})}

-----------------------------------------------------------------------------
stage(b) ==
    /\ b \notin staged
    /\ staged' = staged \cup {b}
    /\ UNCHANGED <<disk, tracked, lru, damage>>

(* Mutant: the bytes are renamed into place unchecked. *)
commit_unchecked(b, expected) ==
    /\ b \in staged /\ b # expected
    /\ staged' = staged \ {b}
    /\ disk' = [disk EXCEPT ![expected] = "other bytes"]
    /\ UNCHANGED <<tracked, lru, damage>>

(* commit: staged bytes that do not match the expected hash are removed.   *)
commit_mismatch(b, expected) ==
    /\ b \in staged /\ b # expected
    /\ staged' = staged \ {b}
    /\ UNCHANGED <<disk, tracked, lru, damage>>

(* commit: the bytes are renamed into place unless an object is there; the *)
(* object is then read back, and one that fails its hash is deleted. *)
commit(b) ==
    /\ b \in staged
    /\ staged' = staged \ {b}
    /\ IF disk[b] = "corrupt"
       THEN /\ disk' = [disk EXCEPT ![b] = "absent"]
            /\ UNCHANGED <<tracked, lru>>
       ELSE /\ disk' = [disk EXCEPT ![b] = "good"]
            /\ tracked' = tracked \cup {b}
            /\ lru' \in touch(lru, b)
    /\ UNCHANGED damage

(* get: an object that exists is served, whatever its bytes. *)
get(h) ==
    /\ h \in Stored
    /\ lru' \in touch(lru, h)
    /\ UNCHANGED <<disk, tracked, staged, damage>>

(* repair: tracked objects that fail verify (corrupt or missing) go. *)
repair ==
    LET bad == {h \in tracked : disk[h] # "good"}
    IN  /\ bad # {}
        /\ disk' = [h \in Hashes |-> IF h \in bad THEN "absent" ELSE disk[h]]
        /\ tracked' = tracked \ bad
        /\ lru' \in retain(lru, Hashes \ bad)
        /\ UNCHANGED <<staged, damage>>

(* The victims of evict_to_fit, which takes the least recently used object *)
(* that is not protected until the rest fits: the unprotected objects up   *)
(* to the first place of the list at which it does, or all of them. *)
Oldest(protected, n) == {lru[i] : i \in 1..n} \ protected

Enough(protected, quota) == {n \in 0..Len(lru) : Size(tracked \ Oldest(protected, n)) <= quota}

(* Mutant: one victim too few. *)
VictimsShort(protected) ==
    LET enough == Enough(protected, Quota + 1)
    IN  Oldest(protected, IF enough = {} THEN Len(lru) ELSE Min(enough))

Victims(protected) ==
    LET enough == Enough(protected, Quota)
    IN  Oldest(protected, IF enough = {} THEN Len(lru) ELSE Min(enough))

evict_to_fit(protected) ==
    LET victims == Victims(protected)
    IN  /\ victims # {}
        /\ disk' = [h \in Hashes |-> IF h \in victims THEN "absent" ELSE disk[h]]
        /\ tracked' = tracked \ victims
        /\ lru' \in retain(lru, Hashes \ victims)
        /\ UNCHANGED <<staged, damage>>

(* The process crashes: handles are lost, the temp files stay and are      *)
(* never served.  open() lists the objects by the mtimes of their files,   *)
(* the order in which they were staged and not used: any order here. *)
reopen ==
    /\ staged' = {}
    /\ tracked' = Stored
    /\ lru' \in SetToSeqs(Stored)
    /\ UNCHANGED <<disk, damage>>

(* The disk damages an object. *)
disk_damage(h) ==
    /\ disk[h] = "good" /\ damage < MaxDamage
    /\ disk' = [disk EXCEPT ![h] = "corrupt"]
    /\ damage' = damage + 1
    /\ UNCHANGED <<tracked, lru, staged>>

CacheNext ==
    \/ \E b \in Hashes : stage(b) \/ commit(b) \/ get(b) \/ disk_damage(b)
    \/ \E b, h \in Hashes : commit_mismatch(b, h)
    \/ \E protected \in SUBSET Hashes : evict_to_fit(protected)
    \/ repair \/ reopen

CacheSpec == CacheInit /\ [][CacheNext]_cacheVars

-----------------------------------------------------------------------------
(* Properties. *)

(* "partial files are never considered valid": what lies under a name is   *)
(* the payload of that name, or was before the disk damaged it; the        *)
(* recency list and the size table speak of the same objects, each once,   *)
(* or eviction would stop early or never find an object; and every object  *)
(* on disk is in the table, or it would never be counted or evicted.  The  *)
(* converse does not hold: a commit onto a damaged object deletes the file *)
(* and leaves its entry in both tables until the next repair.              *)
CacheConsistent ==
    /\ disk \in [Hashes -> {"absent", "good", "corrupt"}]
    /\ staged \subseteq Hashes /\ damage \in 0..MaxDamage
    /\ Stored \subseteq tracked
    /\ ToSet(lru) = tracked
    /\ Len(lru) = Cardinality(tracked)

(* "evict_to_fit() deletes least-recently-used objects until the store     *)
(* fits, except protected hashes": after an eviction the store fits or     *)
(* only protected objects are left, and no protected object went. *)
EvictionFits ==
    \A protected \in SUBSET Hashes :
        evict_to_fit(protected) =>
            /\ Size(tracked') <= Quota \/ tracked' \subseteq protected
            /\ \A h \in protected : disk'[h] = disk[h]

(* The content cache over its life: after every crash, failed commit and   *)
(* damage an object is the payload of its name or was damaged on disk, the *)
(* two tables name the same objects and miss none that is on disk (they    *)
(* may name one that is not); and evict_to_fit ends within the quota, by   *)
(* the sizes of the table, or with protected objects only.                 *)
CacheSound == [][CacheConsistent' /\ EvictionFits]_cacheVars
=============================================================================
