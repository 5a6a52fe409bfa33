------------------------------ MODULE Download ------------------------------
(***************************************************************************)
(* The receive side of a chunked download: the bytes that landed, the      *)
(* progress counter and clock, the ranges still missing, and the watchdog  *)
(* that reports a stall.  A byte is the version of the file it came from;  *)
(* a byte that has not landed is Absent.  A download is a record, so that  *)
(* the modules of the client that own downloads share these operators.     *)
(*                                                                         *)
(* And the deficit round robin of the download lanes: each visit of the    *)
(* rotation grants a lane up to its weight of consecutive jobs.  The jobs  *)
(* of a lane are interchangeable here: a lane's queue is their number.     *)
(***************************************************************************)
EXTENDS Integers, SequencesExt

CONSTANTS
    Absent,         \* the mark of a byte that has not landed
    FileLen,        \* length of the file
    Versions,       \* the contents a byte can have
    StallAfter,     \* stall_after_ticks
    MaxTick,        \* bound: ticks of the caller's clock
    NLanes,         \* number of lanes, highest priority first
    Weight(_),      \* jobs per turn of a lane
    MaxPending      \* bound: jobs waiting in one lane

ASSUME DownloadAssumption ==
    /\ FileLen \in Nat \ {0} /\ StallAfter \in Nat \ {0} /\ MaxTick \in Nat
    /\ Absent \notin Versions

Lanes == 0..(NLanes - 1)

ASSUME LaneAssumption ==
    /\ NLanes \in Nat \ {0} /\ MaxPending \in Nat
    /\ \A l \in Lanes : Weight(l) \in Nat \ {0}

Download_new(len, now) ==
    [bytes |-> [i \in 0..(len - 1) |-> Absent], received |-> 0, progress |-> now]

is_complete(d) == d.received = Cardinality(DOMAIN d.bytes)

(* receive: refused once complete and when it ends outside the file. *)
CanReceive(d, offset, len) ==
    ~is_complete(d) /\ offset + len <= Cardinality(DOMAIN d.bytes)

(* receive: every byte is written, only fresh ones are progress. *)
Received(d, offset, data, now) ==
    LET landed == offset..(offset + Len(data) - 1)
        fresh  == {i \in landed : d.bytes[i] = Absent}
    IN  [bytes    |-> [i \in DOMAIN d.bytes |->
                         IF i \in landed THEN data[i - offset + 1] ELSE d.bytes[i]],
         received |-> d.received + Cardinality(fresh),
         progress |-> IF fresh # {} THEN now ELSE d.progress]

(* One byte of the scan for what is missing: one that landed closes the    *)
(* run before it. *)
Closed(acc) == IF acc.len > 0 THEN Append(acc.out, <<acc.start, acc.len>>) ELSE acc.out

Scanned(d, acc, i) ==
    IF d.bytes[i] # Absent
    THEN [out |-> Closed(acc), start |-> 0, len |-> 0]
    ELSE [out |-> acc.out, start |-> IF acc.len > 0 THEN acc.start ELSE i, len |-> acc.len + 1]

(* The scan after each number of bytes. *)
Scan(d) ==
    LET upto[k \in 0..Cardinality(DOMAIN d.bytes)] ==
            IF k = 0 THEN [out |-> <<>>, start |-> 0, len |-> 0]
                     ELSE Scanned(d, upto[k - 1], k - 1)
    IN  upto

(* Mutant: the run that reaches the end of the file is lost. *)
missing_but_last(d) == Scan(d)[Cardinality(DOMAIN d.bytes)].out

(* missing_ranges: one scan that closes a run at each byte that landed and *)
(* at the end of the file. *)
missing_ranges(d) == Closed(Scan(d)[Cardinality(DOMAIN d.bytes)])

(* Watchdog::is_stalled, with its saturating subtraction. *)
is_stalled(d, now) == now - d.progress > StallAfter

-----------------------------------------------------------------------------
VARIABLES
    dl,         \* the download
    tick        \* the caller's clock

dlVars == <<dl, tick>>

DownloadInit == tick = 0 /\ dl = Download_new(FileLen, 0)

(* A chunk of any place, length and content arrives; one that is refused   *)
(* changes nothing. *)
receive(offset, data) ==
    /\ CanReceive(dl, offset, Len(data))
    /\ dl' = Received(dl, offset, data, tick)
    /\ UNCHANGED tick

Tick ==
    /\ tick < MaxTick
    /\ tick' = tick + 1
    /\ UNCHANGED dl

DownloadNext ==
    \/ Tick
    \/ \E offset \in 0..FileLen, data \in BoundedSeq(Versions, FileLen) : receive(offset, data)

DownloadSpec == DownloadInit /\ [][DownloadNext]_dlVars

-----------------------------------------------------------------------------
(* The lanes. *)

VARIABLES
    queues,         \* jobs waiting, per lane
    pos,            \* rotation pointer
    remaining,      \* what is left of a lane's turn; 0 is no entry
    bypassed        \* jobs served since the lane was last served or empty (history)

laneVars == <<queues, pos, remaining, bypassed>>

LaneInit ==
    /\ queues = [l \in Lanes |-> 0] /\ remaining = [l \in Lanes |-> 0]
    /\ bypassed = [l \in Lanes |-> 0]
    /\ pos = 0

enqueue(l) ==
    /\ queues[l] < MaxPending
    /\ queues' = [queues EXCEPT ![l] = @ + 1]
    /\ UNCHANGED <<pos, remaining, bypassed>>

(* pop_next with every lane empty resets the rotation. *)
pop_none ==
    /\ \A l \in Lanes : queues[l] = 0
    /\ pos' = 0
    /\ remaining' = [l \in Lanes |-> 0]
    /\ UNCHANGED <<queues, bypassed>>

(* How far lane l is from the rotation pointer. *)
Distance(l) == (l - pos) % NLanes

(* Mutant: a lane that still has jobs keeps its turn. *)
TurnEndsEmpty(left, rem) == left = 0

(* The turn is over: the queue is drained or the quantum is spent. *)
TurnOver(left, rem) == left = 0 \/ rem = 0

(* Lanes skipped on the way to the one served bank nothing. *)
AfterSkip(l, lane) == IF Distance(l) < Distance(lane) THEN 0 ELSE remaining[l]

(* pop_next serves the first lane of the rotation that has a job. *)
pop_next(lane) ==
    LET rem  == (IF remaining[lane] = 0 THEN Weight(lane) ELSE remaining[lane]) - 1
        over == TurnOver(queues[lane] - 1, rem)
    IN  /\ queues[lane] > 0
        /\ \A l \in Lanes : Distance(l) < Distance(lane) => queues[l] = 0
        /\ queues' = [queues EXCEPT ![lane] = @ - 1]
        /\ pos' = IF over THEN (lane + 1) % NLanes ELSE lane
        /\ remaining' = [l \in Lanes |->
                           IF l = lane THEN IF over THEN 0 ELSE rem ELSE AfterSkip(l, lane)]
        /\ bypassed' = [l \in Lanes |->
                          IF l = lane \/ queues[l] = 0 THEN 0 ELSE bypassed[l] + 1]

LaneNext ==
    \/ pop_none
    \/ \E l \in Lanes : enqueue(l) \/ pop_next(l)

LaneSpec == LaneInit /\ [][LaneNext]_laneVars

-----------------------------------------------------------------------------
(* Properties. *)

(* The maximal runs of absent bytes. *)
AbsentRuns(d) ==
    LET absent(i) == i \in DOMAIN d.bytes /\ d.bytes[i] = Absent
    IN  {r \in (0..(FileLen - 1)) \X (1..FileLen) :
           /\ \A i \in r[1]..(r[1] + r[2] - 1) : absent(i)
           /\ ~absent(r[1] - 1) /\ ~absent(r[1] + r[2])}

(* missing_ranges is the exact resume list: the maximal absent runs, each  *)
(* once and in ascending order, and empty exactly when complete, which the *)
(* progress counter decides: it is the number of bytes that landed.        *)
MissingIsExact ==
    LET ranges == missing_ranges(dl)
    IN  /\ ToSet(ranges) = AbsentRuns(dl)
        /\ \A i, j \in DOMAIN ranges : i < j => ranges[i][1] < ranges[j][1]
        /\ (ranges = <<>>) <=> is_complete(dl)
        /\ dl.received = Cardinality({i \in DOMAIN dl.bytes : dl.bytes[i] # Absent})

(* The jobs of one turn of every other lane. *)
OthersTurns(l) == UNION {{m} \X (1..Weight(m)) : m \in Lanes \ {l}}

(* "One giant package cannot monopolize workers": a lane with a job is     *)
(* passed over at most once for each job of the other lanes' turns. *)
BoundedBypass == \A l \in Lanes : bypassed[l] <= Cardinality(OthersTurns(l))

(* The download crate: missing_ranges is exactly what has not landed,      *)
(* whatever chunks came late, twice or overlapping, and pop_next makes a   *)
(* lane with a job wait at most for one turn of each other lane.           *)
DownloadSound == MissingIsExact /\ BoundedBypass
=============================================================================
