------------------------------ MODULE Timeline ------------------------------
(***************************************************************************)
(* Time on the server and the client: the clock estimate from request and  *)
(* reply, the position history that shots are judged against, the recorded *)
(* timeline a debugger steps through, and the snapshot container.  Four    *)
(* machines that share no state.  Times are small integers, in one unit.   *)
(***************************************************************************)
EXTENDS Integers, SequencesExt, Sums

CONSTANTS
    Theta,          \* server clock minus client clock
    MaxDelay,       \* bound: delay of a message on its way
    MaxLead,        \* MAX_LEAD_MS
    SampleCap,      \* capacity of the estimator
    HistoryCap,     \* capacity_ticks of the position history
    MaxStamp,       \* bound: ticks of the history
    MaxPos,         \* bound: positions, along one axis
    MaxEvents,      \* bound: events recorded
    MaxEventTick,   \* bound: ticks of the recording
    SnapKeys,       \* keys of a snapshot, the empty key NoKey among them
    NoKey,
    SnapValues

ASSUME TimelineAssumption ==
    /\ Theta \in Int /\ {MaxLead, MaxDelay, MaxStamp, MaxPos, MaxEvents, MaxEventTick} \subseteq Nat
    /\ SampleCap \in Nat \ {0} /\ HistoryCap \in Nat \ {0, 1} /\ NoKey \in SnapKeys

-----------------------------------------------------------------------------
(* The clock estimate.  A round is sent at client time 0, takes d1 to the  *)
(* server and d2 back. *)

VARIABLES
    samples,        \* the estimator's samples, oldest first
    bestRtt         \* smallest round trip seen (history); -1 before the first

clockVars == <<samples, bestRtt>>

ClockInit == samples = <<>> /\ bestRtt = -1

(* Division of Rust: toward zero. *)
Quot(n, d) == IF n >= 0 THEN n \div d ELSE -((-n) \div d)

(* Mutant: the reply's way is added instead of taken off. *)
from_sample_wrong_sign(t0, t1, t2, t3) ==
    [rtt |-> Max({(t3 - t0) - (t2 - t1), 0}), offset |-> Quot((t1 - t0) + (t3 - t2), 2)]

(* SyncResult::from_sample. *)
from_sample(t0, t1, t2, t3) ==
    [rtt |-> Max({(t3 - t0) - (t2 - t1), 0}), offset |-> Quot((t1 - t0) + (t2 - t3), 2)]

(* server_reply stamps its receive and send time alike. *)
Round(d1, d2) == from_sample(0, Theta + d1, Theta + d1, d1 + d2)

(* The last of the samples with the longest round trip goes. *)
Worst(s) == Max({i \in DOMAIN s : \A j \in DOMAIN s : s[j].rtt <= s[i].rtt})

Evicted(s, i) == [j \in 1..(Len(s) - 1) |-> s[IF j < i THEN j ELSE j + 1]]

push(r) ==
    /\ samples' = Append(IF Len(samples) >= SampleCap THEN Evicted(samples, Worst(samples)) ELSE samples, r)
    /\ bestRtt' = IF bestRtt = -1 THEN r.rtt ELSE Min({bestRtt, r.rtt})

(* offset_ms: of the first sample with the shortest round trip. *)
offset_ms ==
    samples[Min({i \in DOMAIN samples : \A j \in DOMAIN samples : samples[i].rtt <= samples[j].rtt})].offset

jitter_ms ==
    IF Len(samples) <= 1 THEN 0
    ELSE LET o == {samples[i].offset : i \in DOMAIN samples} IN Max(o) - Min(o)

rtt_ms ==
    IF samples = <<>> THEN 0
    ELSE SumTo(Len(samples), [i \in 1..Len(samples) |-> samples[i].rtt]) \div Len(samples)

(* interpolation_delay_ms, with its floor and its ceiling. *)
interpolation_delay_ms(floor, ceiling) ==
    Min({floor + (rtt_ms \div 2) + jitter_ms, ceiling})

(* A claim too far behind the server's clock, or ahead of it, is refused. *)
validate_client_time_claim(serverNow, claim, allowedLag) ==
    LET lag == serverNow - claim IN lag <= allowedLag /\ lag >= -MaxLead

ClockNext == \E d1, d2 \in 0..MaxDelay : push(Round(d1, d2))

(* The estimate used is as good as the best round ever allows: its error   *)
(* is at most half the shortest round trip seen (and what the division     *)
(* cuts off), although the sample it comes from competes for its place     *)
(* with every later one.  So a claim the client makes in server time at    *)
(* client time 0 passes, however long it travels, if the lag allowed       *)
(* covers the way and that error; and the delay of what is shown stays in  *)
(* its bounds.  It is claimed of estimators that keep two samples or more: *)
(* ClockEstimator::new also allows one, which evicts its only sample, the  *)
(* best, for every new one.                                                *)
EstimateIsBest ==
    samples # <<>> /\ SampleCap > 1 =>
        LET error == offset_ms - Theta IN
        /\ Max({error, -error}) * 2 <= bestRtt + 1
        /\ bestRtt <= MaxLead =>
             \A d \in 0..MaxDelay :
                 validate_client_time_claim(Theta + d, offset_ms, d + (bestRtt + 1) \div 2)
        /\ interpolation_delay_ms(1, 4) \in 1..4

-----------------------------------------------------------------------------
(* The position history of one entity, and the gate of a rewind. *)

VARIABLES
    track,          \* tick -> position; a partial function of at most HistoryCap ticks
    recorded,       \* tick -> the last position recorded for it (history)
    serverTick

historyVars == <<track, recorded, serverTick>>

HistoryInit == track = <<>> /\ recorded = <<>> /\ serverTick = 0

Noted(f, t, p) == [x \in DOMAIN f \cup {t} |-> IF x = t THEN p ELSE f[x]]

(* Mutant: the tick recorded last goes when there are too many. *)
record_drops_newest(t, p) ==
    LET all == Noted(track, t, p)
    IN  /\ track' = IF Cardinality(DOMAIN all) > HistoryCap
                    THEN [x \in DOMAIN all \ {Max(DOMAIN all)} |-> all[x]] ELSE all
        /\ recorded' = Noted(recorded, t, p)
        /\ UNCHANGED serverTick

(* record: any tick, in any order; the oldest goes when there are too many. *)
record(t, p) ==
    LET all == Noted(track, t, p)
    IN  /\ track' = IF Cardinality(DOMAIN all) > HistoryCap
                    THEN [x \in DOMAIN all \ {Min(DOMAIN all)} |-> all[x]] ELSE all
        /\ recorded' = Noted(recorded, t, p)
        /\ UNCHANGED serverTick

forget == track' = <<>> /\ recorded' = <<>> /\ UNCHANGED serverTick

server_tick == serverTick < MaxStamp /\ serverTick' = serverTick + 1 /\ UNCHANGED <<track, recorded>>

(* at: the sample of the tick, or a point between its two neighbours, here *)
(* times the distance of the two in ticks; nothing outside the span.       *)
at(t) ==
    IF t \in DOMAIN track THEN [found |-> TRUE, pos |-> track[t], scale |-> 1]
    ELSE IF \E a, b \in DOMAIN track : a < t /\ t < b
    THEN LET t0 == Max({a \in DOMAIN track : a < t})
             t1 == Min({b \in DOMAIN track : b > t})
         IN  [found |-> TRUE, scale |-> t1 - t0,
              pos |-> track[t0] * (t1 - t0) + (track[t1] - track[t0]) * (t - t0)]
    ELSE [found |-> FALSE, pos |-> 0, scale |-> 1]

rewind_allowed(claim, maxRewind) == claim <= serverTick /\ serverTick - claim <= maxRewind

hit_landed(aimed, target, radius) == Max({aimed - target, target - aimed}) <= Max({radius, 0})

HistoryNext ==
    \/ \E t \in 0..MaxStamp, p \in 0..MaxPos : record(t, p)
    \/ forget \/ server_tick

(* What is kept are the newest ticks ever recorded, each with the position *)
(* recorded last, in whatever order they came; so that every claim the     *)
(* gate lets through between the oldest and the newest of them is judged   *)
(* at a position on the way that was recorded. *)
HistoryNewest ==
    /\ Cardinality(DOMAIN track) = Min({HistoryCap, Cardinality(DOMAIN recorded)})
    /\ \A t \in DOMAIN track : track[t] = recorded[t]
    /\ \A t \in DOMAIN recorded \ DOMAIN track : \A k \in DOMAIN track : t < k
    /\ \A t \in 0..MaxStamp :
         /\ (DOMAIN track # {} /\ t \in Min(DOMAIN track)..Max(DOMAIN track)) <=> at(t).found
         /\ at(t).found /\ rewind_allowed(t, HistoryCap) =>
              \E a, b \in DOMAIN track :
                  at(t).pos \in (track[a] * at(t).scale)..(track[b] * at(t).scale)

-----------------------------------------------------------------------------
(* The replay debugger over a recording.  An event spawns or despawns the  *)
(* one entity that matters, or is a named trigger. *)

VARIABLES
    recording,      \* the events, each a tick and a kind
    index,          \* events applied
    now,            \* current_tick
    live,           \* is the entity alive
    breaks          \* tick breakpoints, and EventBreak for the one on the trigger

replayVars == <<recording, index, now, live, breaks>>

ReplayKinds == {"spawn", "despawn", "trigger"}

EventBreak == -1

ReplayInit == recording = <<>> /\ index = 0 /\ now = 0 /\ live = FALSE /\ breaks = {}

max_tick == IF recording = <<>> THEN 0 ELSE Max({recording[i].tick : i \in DOMAIN recording})

(* The recording is made first; its ticks need not ascend. *)
record_event(t, k) ==
    /\ index = 0 /\ breaks = {} /\ now = 0 /\ Len(recording) < MaxEvents
    /\ recording' = Append(recording, [tick |-> t, kind |-> k])
    /\ UNCHANGED <<index, now, live, breaks>>

add_breakpoint(b) ==
    /\ breaks' = breaks \cup {b}
    /\ UNCHANGED <<recording, index, now, live>>

(* apply_event_state. *)
Applied(l, e) == IF e.kind = "spawn" THEN TRUE ELSE IF e.kind = "despawn" THEN FALSE ELSE l

(* The events after from up to n, applied one by one. *)
LiveAfter(from, l, n) ==
    LET state[k \in 0..(n - from)] == IF k = 0 THEN l ELSE Applied(state[k - 1], recording[from + k])
    IN  state[n - from]

step ==
    /\ index < Len(recording)
    /\ now' = recording[index + 1].tick
    /\ live' = Applied(live, recording[index + 1])
    /\ index' = index + 1
    /\ UNCHANGED <<recording, breaks>>

(* The event a breakpoint stops before. *)
BreaksAt(i) ==
    recording[i].tick \in breaks \/ (recording[i].kind = "trigger" /\ EventBreak \in breaks)

(* continue_exec: to the first event with a breakpoint, which is not       *)
(* applied, or to the end.  Called again at a breakpoint it stays there. *)
continue_exec ==
    LET stops == {i \in (index + 1)..Len(recording) : BreaksAt(i)}
        last  == IF stops = {} THEN Len(recording) ELSE Min(stops) - 1
    IN  /\ index < Len(recording)
        /\ index' = last
        /\ live' = LiveAfter(index, live, last)
        /\ now' = recording[IF stops = {} THEN last ELSE last + 1].tick
        /\ UNCHANGED <<recording, breaks>>

(* Mutant: the state is not cleared before the events are applied again. *)
seek_keeps_state(target) ==
    LET beyond == {i \in DOMAIN recording : recording[i].tick > target}
        last   == IF beyond = {} THEN Len(recording) ELSE Min(beyond) - 1
    IN  /\ target <= max_tick \/ recording = <<>>
        /\ index' = last
        /\ live' = LiveAfter(0, live, last)
        /\ now' = IF last = 0 THEN 0 ELSE recording[last].tick
        /\ UNCHANGED <<recording, breaks>>

(* seek starts over and stops before the first event beyond the target. *)
seek(target) ==
    LET beyond == {i \in DOMAIN recording : recording[i].tick > target}
        last   == IF beyond = {} THEN Len(recording) ELSE Min(beyond) - 1
    IN  /\ target <= max_tick \/ recording = <<>>
        /\ index' = last
        /\ live' = LiveAfter(0, FALSE, last)
        /\ now' = IF last = 0 THEN 0 ELSE recording[last].tick
        /\ UNCHANGED <<recording, breaks>>

ReplayNext ==
    \/ \E t \in 0..MaxEventTick, k \in ReplayKinds : record_event(t, k)
    \/ \E b \in 0..MaxEventTick \cup {EventBreak} : add_breakpoint(b)
    \/ step \/ continue_exec
    \/ \E t \in 0..MaxEventTick : seek(t)

(* Wherever steps, breakpoints and seeks back and forth lead, the debugger *)
(* shows the entity alive exactly if one of the events before its position *)
(* spawned it and none after that took it away. *)
ReplayIsPrefix ==
    live = \E i \in 1..index :
               /\ recording[i].kind = "spawn"
               /\ \A j \in (i + 1)..index : recording[j].kind # "despawn"

-----------------------------------------------------------------------------
(* The snapshot container: what is written, what happens to the file, and  *)
(* what comes back.  The checksum is the body it was computed over. *)

VARIABLES
    image,          \* the file, or NoImage
    written,        \* the entries it was made from (history)
    restored        \* what decode returned: none, or one set of entries

snapshotVars == <<image, written, restored>>

NoImage == [schema |-> 0, entries |-> <<>>, sum |-> <<>>, trailing |-> "none"]

SnapshotInit == image = NoImage /\ written = <<>> /\ restored = {}

(* encode takes the schema it knows, and keys of any length, the empty one *)
(* too. *)
encode_snapshot(entries, schema) ==
    /\ schema = 1
    /\ image' = [schema |-> schema, entries |-> entries, sum |-> entries, trailing |-> "exact"]
    /\ written' = entries /\ restored' = {}

(* The file is truncated, extended, or some of it changes. *)
damage_image(i) ==
    /\ image # NoImage
    /\ image' = i
    /\ UNCHANGED <<written, restored>>

(* Mutant: the trailer is present, which is all that is asked. *)
SumMatches_any(i) == TRUE

SumMatches(i) == i.sum = i.entries

(* decode: every check in turn; a key of length zero is refused. *)
decode_snapshot ==
    /\ image # NoImage
    /\ restored' = IF /\ image.schema = 1
                      /\ NoKey \notin DOMAIN image.entries
                      /\ image.trailing = "exact"
                      /\ SumMatches(image)
                   THEN {image.entries} ELSE {}
    /\ UNCHANGED <<image, written>>

Contents == UNION {[K -> SnapValues] : K \in SUBSET SnapKeys}

SnapshotNext ==
    \/ \E e \in Contents, s \in 1..2 : encode_snapshot(e, s)
    \/ \E e \in Contents :
         damage_image([image EXCEPT !.entries = e])
    \/ damage_image([image EXCEPT !.trailing = "short"])
    \/ damage_image([image EXCEPT !.schema = 2])
    \/ decode_snapshot

(* Whatever happened to the file, what decode returns is what was encoded. *)
RestoresOnlyWritten == restored \subseteq {written}

(* Late, lost and reordered samples, records, steps and damage never       *)
(* mislead: the clock estimate is as good as the best round (where the     *)
(* estimator keeps more than one sample), the lag history holds the newest *)
(* ticks, the debugger shows a prefix of the timeline, and a snapshot that *)
(* decodes is the one that was written.                                    *)
TimelineSound == EstimateIsBest /\ HistoryNewest /\ ReplayIsPrefix /\ RestoresOnlyWritten
=============================================================================
