--------------------------- MODULE LeaderElection ---------------------------
(***************************************************************************)
(* The leader coordinator of the central services: nodes claim leadership  *)
(* and send heartbeats that carry the epoch they were granted; heartbeats  *)
(* are delayed, reordered and lost; nodes crash, and so does the process   *)
(* that holds the coordinator, which keeps nothing on disk.                *)
(***************************************************************************)
EXTENDS Integers, FiniteSets

CONSTANTS
    Nodes,
    None,           \* no leader
    HeartbeatTimeout, \* heartbeat_timeout_ms, in ticks
    MaxEpoch,       \* bound: epochs claimed
    MaxRestarts     \* bound: restarts of the coordinator's process

ASSUME ElectionAssumption ==
    /\ None \notin Nodes
    /\ HeartbeatTimeout \in Nat /\ MaxEpoch \in Nat /\ MaxRestarts \in Nat

VARIABLES
    current_epoch, current_leader,
    silence,        \* ticks since last_heartbeat_ms, up to HeartbeatTimeout + 1
    granted,        \* <<node, epoch, restarts before>> of every successful claim
    beats,          \* <<node, epoch>> heartbeats under way
    alive,          \* nodes that have not crashed
    restarts        \* restarts so far

electionVars == <<current_epoch, current_leader, silence, granted, beats, alive, restarts>>

ElectionInit ==
    /\ current_epoch = 0 /\ current_leader = None /\ silence = 0
    /\ granted = {} /\ beats = {} /\ alive = Nodes /\ restarts = 0

is_timed_out == silence > HeartbeatTimeout

(* Mutant: whoever asks is granted the epoch that is. *)
ClaimedEpoch_same == IF current_epoch = 0 THEN 1 ELSE current_epoch

ClaimedEpoch == current_epoch + 1

(* Mutant: the timeout is not consulted. *)
MayClaim_vacant == current_leader = None

MayClaim == current_leader = None \/ is_timed_out

attempt_claim_leadership(n) ==
    /\ n \in alive /\ current_epoch < MaxEpoch
    /\ MayClaim
    /\ current_epoch' = ClaimedEpoch
    /\ current_leader' = n
    /\ silence' = 0
    /\ granted' = granted \cup {<<n, ClaimedEpoch, restarts>>}
    /\ UNCHANGED <<beats, alive, restarts>>

Granted(n, e) == \E k \in 0..restarts : <<n, e, k>> \in granted

(* A node sends a heartbeat for an epoch it was granted; it does not know  *)
(* whether it still leads. *)
send_heartbeat(n, e) ==
    /\ n \in alive /\ Granted(n, e)
    /\ beats' = beats \cup {<<n, e>>}
    /\ UNCHANGED <<current_epoch, current_leader, silence, granted, alive, restarts>>

(* Mutant: stale epochs are accepted. *)
Accepted_any(e) == TRUE

Accepted(e) == e >= current_epoch

BeatEpoch(e) == e

(* record_heartbeat: a stale epoch is refused and changes nothing. *)
record_heartbeat(n, e) ==
    /\ <<n, e>> \in beats
    /\ beats' = beats \ {<<n, e>>}
    /\ IF Accepted(e)
       THEN current_epoch' = BeatEpoch(e) /\ current_leader' = n /\ silence' = 0
       ELSE UNCHANGED <<current_epoch, current_leader, silence>>
    /\ UNCHANGED <<granted, alive, restarts>>

lose_heartbeat(b) ==
    /\ b \in beats
    /\ beats' = beats \ {b}
    /\ UNCHANGED <<current_epoch, current_leader, silence, granted, alive, restarts>>

ElectionTick ==
    /\ silence <= HeartbeatTimeout
    /\ silence' = silence + 1
    /\ UNCHANGED <<current_epoch, current_leader, granted, beats, alive, restarts>>

(* A node stops for good; one is left. *)
crash(n) ==
    /\ n \in alive /\ alive # {n}
    /\ alive' = alive \ {n}
    /\ UNCHANGED <<current_epoch, current_leader, silence, granted, beats, restarts>>

(* LeaderCoordinator::new in a process that starts over. *)
restart ==
    /\ restarts < MaxRestarts
    /\ restarts' = restarts + 1
    /\ current_epoch' = 0 /\ current_leader' = None /\ silence' = 0
    /\ UNCHANGED <<granted, beats, alive>>

ElectionNext ==
    \/ \E n \in Nodes :
         \/ attempt_claim_leadership(n) \/ crash(n)
         \/ \E e \in 1..MaxEpoch : send_heartbeat(n, e) \/ record_heartbeat(n, e)
    \/ \E b \in beats : lose_heartbeat(b)
    \/ ElectionTick \/ restart

ElectionSpec == ElectionInit /\ [][ElectionNext]_electionVars

-----------------------------------------------------------------------------
(* Properties. *)

ElectionTypeOK ==
    /\ current_epoch \in Nat /\ current_leader \in Nodes \cup {None}
    /\ silence \in Nat /\ restarts \in Nat
    /\ granted \subseteq Nodes \X Nat \X Nat
    /\ beats \subseteq Nodes \X Nat
    /\ alive \subseteq Nodes

(* The leader was granted the current epoch: a heartbeat that was delayed  *)
(* never gives leadership to a node under an epoch that is not its own. *)
LeaderHoldsEpoch ==
    current_leader # None => Granted(current_leader, current_epoch)

(* "Split-brain safe": one coordinator never grants an epoch to two nodes, *)
(* though heartbeats of nodes its predecessors appointed raise the epoch.  *)
OneHolderPerEpoch ==
    \A g, h \in granted : g[2] = h[2] /\ g[3] = h[3] => g[1] = h[1]

(* Only the timeout deposes a leader: while a coordinator runs, its epoch  *)
(* never falls, and before its first restart, after which nodes hold       *)
(* epochs it does not know of, the leader changes only after the silence.  *)
DeposedOnlyByTimeout ==
    [][/\ restarts' = restarts => current_epoch' >= current_epoch
       /\ (restarts' = 0 /\ current_leader # None /\ current_leader' # current_leader)
             => is_timed_out]_electionVars

(* A crashed leader is replaced, although its last heartbeats still come. *)
CrashedLeaderReplaced ==
    \A n \in Nodes :
        current_leader = n /\ n \notin alive ~> current_leader # n \/ current_epoch = MaxEpoch

=============================================================================
