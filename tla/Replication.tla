---------------------------- MODULE Replication ----------------------------
(***************************************************************************)
(* The replication tracker of one entity and one client: queued deltas,    *)
(* the baseline, and the packets flush emits, carried in order by a        *)
(* channel that may lose them.  Every write of a component stores a larger *)
(* value than the one before, so a value says how recent it is; a client   *)
(* applies deltas and snapshots as they arrive.  The interest tier gates   *)
(* when flush is called (due) and is a free choice here.                   *)
(***************************************************************************)
EXTENDS Integers, SequencesExt

CONSTANTS
    Components,  \* replicated components of the entity
    Cap,         \* the queue cap the host applies under pressure
    MaxWrites,   \* bound: writes of one component
    MaxWire      \* bound: packets in flight

ASSUME ReplicationAssumption ==
    {Cap, MaxWrites, MaxWire} \subseteq Nat

VARIABLES
    latest,      \* the world: component -> its current value, 0 if unset
    deltas,     \* sequence of [component, data]
    baseline,    \* component -> value in baseline.fields, 0 if absent
    wire,        \* packets in flight: sets of [component, data]
    client,      \* component -> value the client holds, 0 if none
    gone         \* history: components whose newest value was dropped, lost or overtaken

replicationVars == <<latest, deltas, baseline, wire, client, gone>>

Delta == [component : Components, data : 1..MaxWrites]

Unset == [c \in Components |-> 0]

ReplicationInit ==
    /\ latest = Unset /\ baseline = Unset /\ client = Unset
    /\ deltas = <<>> /\ wire = <<>>
    /\ gone = {}

-----------------------------------------------------------------------------
Queued(c) == SelectInSeq(deltas, LAMBDA d : d.component = c)

(* record: the latest write of a component replaces a queued one, in its   *)
(* place. *)
Recorded(d) ==
    IF Queued(d.component) = 0 THEN Append(deltas, d)
    ELSE ReplaceAt(deltas, Queued(d.component), d)

record(c) ==
    /\ latest[c] < MaxWrites
    /\ latest' = [latest EXCEPT ![c] = @ + 1]
    /\ deltas' = Recorded([component |-> c, data |-> latest[c] + 1])
    /\ gone' = gone \ {c}
    /\ UNCHANGED <<baseline, wire, client>>

(* What the baseline becomes when the queued deltas collapse into it. *)
Collapsed ==
    [c \in Components |-> IF Queued(c) = 0 THEN baseline[c] ELSE deltas[Queued(c)].data]

Fields(b) == {[component |-> c, data |-> b[c]] : c \in {e \in Components : b[e] # 0}}

(* Components of which the snapshot carries an older value: one that left  *)
(* as a delta never reached the baseline. *)
Overtaken == {c \in Components : Collapsed[c] \notin {0, latest[c]}}

(* flush with force_snapshot: the queue collapses into the baseline, which *)
(* is emitted whole. *)
flush_snapshot ==
    /\ Len(wire) < MaxWire
    /\ baseline' = Collapsed
    /\ wire' = Append(wire, Fields(Collapsed))
    /\ deltas' = <<>>
    /\ gone' = gone \cup Overtaken
    /\ UNCHANGED <<latest, client>>

(* Mutant: only the first queued delta is drained and the rest forgotten. *)
flush_first ==
    /\ deltas # <<>> /\ Len(wire) < MaxWire
    /\ wire' = Append(wire, {Head(deltas)})
    /\ deltas' = <<>>
    /\ UNCHANGED <<latest, baseline, client, gone>>

(* flush without force: the queue is drained into one packet; the baseline *)
(* is left as it is. *)
flush_delta ==
    /\ deltas # <<>> /\ Len(wire) < MaxWire
    /\ wire' = Append(wire, ToSet(deltas))
    /\ deltas' = <<>>
    /\ UNCHANGED <<latest, baseline, client, gone>>

(* cap: the oldest entries beyond the cap are dropped. *)
cap ==
    /\ Len(deltas) > Cap
    /\ deltas' = SubSeq(deltas, Len(deltas) - Cap + 1, Len(deltas))
    /\ gone' = gone \cup {deltas[k].component : k \in 1..(Len(deltas) - Cap)}
    /\ UNCHANGED <<latest, baseline, wire, client>>

(* The client applies the oldest packet in flight. *)
deliver ==
    /\ wire # <<>>
    /\ client' = [c \in Components |->
                    IF \E d \in Head(wire) : d.component = c
                    THEN (CHOOSE d \in Head(wire) : d.component = c).data
                    ELSE client[c]]
    /\ wire' = Tail(wire)
    /\ UNCHANGED <<latest, deltas, baseline, gone>>

lose ==
    /\ wire # <<>>
    /\ wire' = Tail(wire)
    /\ gone' = gone \cup {d.component : d \in {e \in Head(wire) : e.data = latest[e.component]}}
    /\ UNCHANGED <<latest, deltas, baseline, client>>

ReplicationNext ==
    \/ \E c \in Components : record(c)
    \/ flush_snapshot \/ flush_delta \/ cap
    \/ deliver \/ lose

ReplicationSpec == ReplicationInit /\ [][ReplicationNext]_replicationVars

-----------------------------------------------------------------------------
(* Properties. *)

ReplicationTypeOK ==
    /\ latest \in [Components -> 0..MaxWrites]
    /\ baseline \in [Components -> 0..MaxWrites]
    /\ client \in [Components -> 0..MaxWrites]
    /\ deltas \in Seq(Delta)
    /\ wire \in Seq(SUBSET Delta)

(* "the latest write for a component wins": its newest value is queued,    *)
(* once and with no older one beside it, in flight or with the client,     *)
(* unless the cap dropped it, the channel lost it or a snapshot overtook   *)
(* it with an older one.                                                   *)
NothingForgotten ==
    \A c \in Components :
        \/ latest[c] = client[c]
        \/ c \in gone
        \/ {k \in DOMAIN deltas : deltas[k].component = c} = {Queued(c)}
           /\ deltas[Queued(c)].data = latest[c]
        \/ \E k \in DOMAIN wire : [component |-> c, data |-> latest[c]] \in wire[k]

=============================================================================
