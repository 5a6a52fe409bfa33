----------------------------- MODULE Persistence -----------------------------
(***************************************************************************)
(* The journal of crates/ald-persistence: an append-only log, checkpoints  *)
(* written beside it and renamed into place, and recovery after a crash.   *)
(*                                                                         *)
(* A record on disk is whole, torn (a prefix of its bytes), bad (full      *)
(* length, wrong checksum) or long (the length in front of it, which the   *)
(* checksum does not cover, has grown).  A write that was not yet synced   *)
(* when the process dies, or that fails, may have left nothing, a prefix   *)
(* or all of its bytes.  The owner of the journal keeps its map in mem: it applies   *)
(* an operation when append returned Ok, and checkpoints that map.         *)
(***************************************************************************)
EXTENDS Naturals, SequencesExt

CONSTANTS
    Keys,
    Values,
    Absent,         \* what a deleted key reads as
    MaxOps,         \* bound: appends asked for
    MaxFaults,      \* bound: crashes and failed writes
    MaxDamage       \* bound: records or checkpoints damaged on disk

ASSUME PersistenceAssumption ==
    /\ Absent \notin Values
    /\ MaxOps \in Nat /\ MaxFaults \in Nat /\ MaxDamage \in Nat

VARIABLES
    journal,        \* journal.log
    ckpt,           \* checkpoint.bin
    mode,           \* "up", "truncate" (inside checkpoint), "down", "halted"
    pending,        \* the append in flight: written, not synced
    next_seq,       \* Journal::next_seq
    mem,            \* the owner's map
    asked,          \* history: every append asked for, with its outcome
    buried,         \* history: a record was appended behind a torn one
    faults, damage

persistVars == <<journal, ckpt, mode, pending, next_seq, mem, asked, buried,
                 faults, damage>>

Nothing == [k \in Keys |-> Absent]

Record == [seq : Nat, key : Keys, val : Values \cup {Absent},
           st : {"whole", "torn", "bad", "long"}]

NoCheckpoint == [seq |-> 0, map |-> Nothing, st |-> "none"]

NoAppend == [seq |-> 0, key |-> CHOOSE k \in Keys : TRUE, val |-> Absent, st |-> "torn"]

-----------------------------------------------------------------------------
(* Writing. *)

\* A delete is a record that makes its key Absent.
append(k, v) ==
    /\ mode = "up" /\ pending = NoAppend
    /\ Len(asked) < MaxOps
    /\ LET r == [seq |-> next_seq, key |-> k, val |-> v, st |-> "whole"]
       IN  /\ pending' = r
           /\ asked' = Append(asked, [seq |-> next_seq, key |-> k, val |-> v, ok |-> FALSE])
    /\ next_seq' = next_seq + 1
    /\ UNCHANGED <<journal, ckpt, mode, mem, buried, faults, damage>>

Torn(j) == \E i \in DOMAIN j : j[i].st = "torn"

\* sync_all returned: the record is durable and append returns Ok.
append_ok ==
    /\ mode = "up" /\ pending # NoAppend
    /\ journal' = Append(journal, pending)
    /\ mem' = [mem EXCEPT ![pending.key] = pending.val]
    /\ asked' = [asked EXCEPT ![Len(asked)].ok = TRUE]
    /\ buried' = (buried \/ Torn(journal))
    /\ pending' = NoAppend
    /\ UNCHANGED <<ckpt, mode, next_seq, faults, damage>>

\* What an unfinished write may have left of its record.
Remains(r) ==
    {<<>>} \cup (IF r = NoAppend THEN {}
                 ELSE {<<[r EXCEPT !.st = "torn"]>>, <<r>>})

\* open, write_all or sync_all failed: append returns an error.  The sequence
\* number stays used.
append_err ==
    /\ mode = "up" /\ pending # NoAppend
    /\ faults < MaxFaults
    /\ \E left \in Remains(pending) :
          /\ journal' = journal \o left
          /\ buried' = (buried \/ (left # <<>> /\ Torn(journal)))
    /\ pending' = NoAppend
    /\ faults' = faults + 1
    /\ UNCHANGED <<ckpt, mode, next_seq, mem, asked, damage>>

\* Faulty variant: the journal is truncated before the checkpoint is in place.
checkpoint_late ==
    /\ mode = "up" /\ pending = NoAppend
    /\ journal' = <<>>
    /\ mode' = "truncate"
    /\ UNCHANGED <<ckpt, pending, next_seq, mem, asked, buried, faults, damage>>

\* The checkpoint is synced under another name and renamed into place ...
checkpoint ==
    /\ mode = "up" /\ pending = NoAppend
    /\ ckpt' = [seq |-> next_seq - 1, map |-> mem, st |-> "ok"]
    /\ mode' = "truncate"
    /\ UNCHANGED <<journal, pending, next_seq, mem, asked, buried, faults, damage>>

\* ... and the journal truncated.
truncate ==
    /\ mode = "truncate"
    /\ journal' = <<>>
    /\ mode' = "up"
    /\ UNCHANGED <<ckpt, pending, next_seq, mem, asked, buried, faults, damage>>

\* Opening the journal for truncation fails, or syncing it once it is empty:
\* checkpoint returns an error with the new checkpoint in place.
truncate_err ==
    /\ mode = "truncate"
    /\ faults < MaxFaults
    /\ journal' \in {journal, <<>>}
    /\ mode' = "up"
    /\ faults' = faults + 1
    /\ UNCHANGED <<ckpt, pending, next_seq, mem, asked, buried, damage>>

process_dies ==
    /\ mode \in {"up", "truncate"}
    /\ faults < MaxFaults
    /\ \E left \in Remains(pending) :
          /\ journal' = journal \o left
          /\ buried' = (buried \/ (left # <<>> /\ Torn(journal)))
    /\ mode' = "down"
    /\ pending' = NoAppend
    /\ mem' = Nothing
    /\ next_seq' = 1
    /\ faults' = faults + 1
    /\ UNCHANGED <<ckpt, asked, damage>>

\* The disk flips bits of a record or of its length, or of the checkpoint,
\* where a length that has grown reads as a torn file.
disk_damage ==
    /\ damage < MaxDamage
    /\ damage' = damage + 1
    /\ \/ \E i \in DOMAIN journal :
             /\ journal[i].st = "whole"
             /\ \E st \in {"bad", "long"} : journal' = [journal EXCEPT ![i].st = st]
             /\ UNCHANGED ckpt
       \/ /\ ckpt.st = "ok"
          /\ \E st \in {"torn", "bad"} : ckpt' = [ckpt EXCEPT !.st = st]
          /\ UNCHANGED journal
    /\ UNCHANGED <<mode, pending, next_seq, mem, asked, buried, faults>>

-----------------------------------------------------------------------------
(* Reading. *)

\* Faulty variant: a wrong checksum is taken for a torn tail.
read_journal_lenient(j) ==
    LET broken == {i \in DOMAIN j : j[i].st # "whole"}
        first  == CHOOSE i \in broken : \A k \in broken : i <= k
    IN  IF broken = {} THEN {[ok |-> TRUE, records |-> j]}
        ELSE {[ok |-> TRUE, records |-> SubSeq(j, 1, first - 1)]}

\* read_journal: the records up to the first one that is not whole, and what
\* is made of that one.  Bytes behind a torn record complete its framing, and
\* then its checksum is wrong, unless they are too few.  A length that has
\* grown passes for a torn tail in the same way when it reaches past the end
\* of the file, and is refused when it does not or is above the limit.
read_journal(j) ==
    LET broken == {i \in DOMAIN j : j[i].st # "whole"}
        first  == CHOOSE i \in broken : \A k \in broken : i <= k
        kept   == SubSeq(j, 1, first - 1)
    IN  IF broken = {} THEN {[ok |-> TRUE, records |-> j]}
        ELSE IF j[first].st = "bad" THEN {[ok |-> FALSE, records |-> <<>>]}
        ELSE IF j[first].st = "torn" /\ first = Len(j) THEN {[ok |-> TRUE, records |-> kept]}
        ELSE {[ok |-> TRUE, records |-> kept], [ok |-> FALSE, records |-> <<>>]}

\* read_checkpoint: a torn file reads as none.
Base == IF ckpt.st = "ok" THEN ckpt ELSE NoCheckpoint

\* Only what comes after the checkpoint is replayed, in order of sequence.
replayed(records) == {r \in ToSet(records) : r.seq > Base.seq}

apply_to_map(rs) ==
    [k \in Keys |->
        LET own  == {r \in rs : r.key = k}
            last == CHOOSE r \in own : \A o \in own : o.seq <= r.seq
        IN  IF own = {} THEN Base.map[k] ELSE last.val]

\* Journal::open: above the checkpoint and every record it can read.
NextSeq(rs) == 1 + Max({Base.seq} \cup {r.seq : r \in rs})

\* Journal::recover, and Journal::open with it.
recover ==
    /\ mode = "down"
    /\ \E read \in read_journal(journal) :
          LET rs == replayed(read.records)
          IN  IF ckpt.st = "bad" \/ ~read.ok
              THEN mode' = "halted" /\ UNCHANGED <<mem, next_seq>>
              ELSE /\ mode' = "up"
                   /\ mem' = apply_to_map(rs)
                   /\ next_seq' = NextSeq(rs)
    /\ UNCHANGED <<journal, ckpt, pending, asked, buried, faults, damage>>

-----------------------------------------------------------------------------
PersistInit ==
    /\ journal = <<>>
    /\ ckpt = NoCheckpoint
    /\ mode = "up"
    /\ pending = NoAppend
    /\ next_seq = 1
    /\ mem = Nothing
    /\ asked = <<>>
    /\ buried = FALSE
    /\ faults = 0
    /\ damage = 0

PersistNext ==
    \/ \E k \in Keys, v \in Values \cup {Absent} : append(k, v)
    \/ append_ok
    \/ append_err
    \/ checkpoint
    \/ truncate
    \/ truncate_err
    \/ process_dies
    \/ disk_damage
    \/ recover

PersistSpec == PersistInit /\ [][PersistNext]_persistVars

-----------------------------------------------------------------------------
(* Types of the files and of the process. *)
PersistTypeOK ==
    /\ journal \in Seq(Record)
    /\ ckpt \in [seq : Nat, map : [Keys -> Values \cup {Absent}],
                 st : {"none", "ok", "torn", "bad"}]
    /\ mode \in {"up", "truncate", "down", "halted"}
    /\ next_seq \in 1 .. (MaxOps + 1)
    /\ mem \in [Keys -> Values \cup {Absent}]

\* The values key k may have after every acknowledged append and any of the
\* others: those of the appends no acknowledged one follows.
Possible(k) ==
    LET own   == {i \in DOMAIN asked : asked[i].key = k}
        done  == {i \in own : asked[i].ok}
        after == {i \in own : \A j \in done : j <= i}
    IN  {asked[i].val : i \in after} \cup (IF done = {} THEN {Absent} ELSE {})

(* Crash safety: when the server is up, before or after any number of crashes,
   failed writes and interrupted checkpoints, every acknowledged Put or Delete
   is in its map, in order ("only the final record may be torn"), and the next
   sequence number is above that of each ("never reuse across restarts"). *)
AckedSurvive ==
    (mode = "up" /\ ~buried /\ damage = 0) =>
        /\ \A k \in Keys : mem[k] \in Possible(k)
        /\ \A i \in DOMAIN asked : asked[i].ok => asked[i].seq < next_seq

(* Recovery never reads past a wrong checksum: a server comes up over one only
   where a record in front of it hides it, one whose length has grown or a torn
   one that was appended to; from such a record on, the journal is dropped like
   a torn tail.  Crashes and failed writes alone never make recovery refuse. *)
FailsClosed ==
    mode = "down" =>
        /\ mode' = "up" =>
              /\ ckpt.st # "bad"
              /\ \A i \in DOMAIN journal :
                    journal[i].st = "bad" =>
                        buried \/ \E h \in DOMAIN journal : h < i /\ journal[h].st = "long"
        /\ mode' = "halted" => damage > 0 \/ buried

(* "Torn journal tail (crash mid-append): dropped and reported, recovery
   succeeds": crashes and failed writes alone, with no damage to the disk,
   never make recovery fail or lose an acknowledged append. *)
TornTailHarmless ==
    /\ mode # "halted"
    /\ mode = "up" => \A k \in Keys : mem[k] \in Possible(k)

(* Durability across crashes, failed writes and failed truncations: while  *)
(* the disk keeps what was synced, what append acknowledged is recovered,  *)
(* in order, and nothing is refused; on a damaged disk recover never reads *)
(* past a wrong checksum, but a damaged length ends the journal there.     *)
Durable == [][AckedSurvive' /\ FailsClosed]_persistVars
=============================================================================
