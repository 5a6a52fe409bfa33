-------------------------- MODULE OperationsProofs --------------------------
(***************************************************************************)
(* Proofs about the operations side of the server, for every number of     *)
(* nodes, resources, requests, epochs and restarts: leadership, the        *)
(* request registry, the resource lifecycle and the circuit breaker; the   *)
(* releases; and the administration.                                       *)
(***************************************************************************)
EXTENDS Lifecycle, LeaderElection, CircuitBreaker, Rpc, Releases, Aegis, FiniteSetTheorems, TLAPS

-----------------------------------------------------------------------------
(* The leader coordinator. *)

(* No grant of this coordinator is ahead of its epoch: what makes a fresh  *)
(* epoch fresh.  Nothing is said of the grants of its predecessors, whose  *)
(* epochs a restart forgets. *)
GrantsNotAhead ==
    \A g \in granted : g[3] <= restarts /\ (g[3] = restarts => g[2] <= current_epoch)

(* A heartbeat under way speaks of an epoch its sender was granted. *)
BeatsGranted == \A b \in beats : Granted(b[1], b[2])

ElectionInv ==
    /\ ElectionTypeOK
    /\ BeatsGranted
    /\ LeaderHoldsEpoch

UniqueInv ==
    /\ ElectionInv
    /\ GrantsNotAhead
    /\ OneHolderPerEpoch

(* What was granted stays granted, across claims and restarts. *)
LEMMA GrantedKept ==
    ASSUME restarts \in Nat, restarts' \in {restarts, restarts + 1}, granted \subseteq granted'
    PROVE  \A n, e : Granted(n, e) => Granted(n, e)'
BY DEF Granted

(* Steps that leave epoch, leader and grants alone and put no beat under   *)
(* way that was not granted. *)
LEMMA QuietStep ==
    ASSUME ElectionInv, UNCHANGED <<current_epoch, current_leader, granted, restarts>>,
           silence' \in Nat, beats' \subseteq Nodes \X Nat, alive' \subseteq Nodes,
           \A b \in beats' : Granted(b[1], b[2])
    PROVE  ElectionInv'
BY DEF ElectionInv, ElectionTypeOK, BeatsGranted, LeaderHoldsEpoch, Granted

(* Every step of the coordinator and its nodes keeps the types, and the    *)
(* epoch in the hands of its holder. *)
LEMMA ElectionInvStep == ElectionInv /\ [ElectionNext]_electionVars => ElectionInv'
<1> SUFFICES ASSUME ElectionInv, [ElectionNext]_electionVars
             PROVE  ElectionInv'
    OBVIOUS
<1>t. /\ ElectionTypeOK /\ BeatsGranted /\ LeaderHoldsEpoch
      /\ restarts \in Nat /\ silence \in Nat /\ current_epoch \in Nat
    BY DEF ElectionInv, ElectionTypeOK
<1>1. ASSUME NEW n \in Nodes, attempt_claim_leadership(n)
      PROVE  ElectionInv'
  <2>1. ElectionTypeOK'
    BY <1>1, <1>t, ElectionAssumption DEF attempt_claim_leadership, ClaimedEpoch, ElectionTypeOK
  <2>2. BeatsGranted'
    BY <1>1, <1>t, GrantedKept DEF attempt_claim_leadership, BeatsGranted
  <2>3. LeaderHoldsEpoch'
    BY <1>1, <1>t DEF attempt_claim_leadership, LeaderHoldsEpoch, Granted
  <2> QED
    BY <2>1, <2>2, <2>3 DEF ElectionInv
<1>2. ASSUME NEW n \in Nodes, crash(n)
      PROVE  ElectionInv'
    BY <1>2, <1>t, QuietStep DEF crash, ElectionTypeOK, BeatsGranted
<1>3. ASSUME NEW n \in Nodes, NEW e \in 1..MaxEpoch, send_heartbeat(n, e)
      PROVE  ElectionInv'
  <2>1. beats' = beats \cup {<<n, e>>} /\ Granted(n, e) /\ e \in Nat
    BY <1>3, ElectionAssumption DEF send_heartbeat
  <2>2. beats' \subseteq Nodes \X Nat /\ \A b \in beats' : Granted(b[1], b[2])
    BY <1>t, <2>1 DEF ElectionTypeOK, BeatsGranted
  <2> QED
    BY <1>3, <1>t, <2>2, QuietStep DEF send_heartbeat, ElectionTypeOK
<1>4. ASSUME NEW n \in Nodes, NEW e \in 1..MaxEpoch, record_heartbeat(n, e)
      PROVE  ElectionInv'
  <2>1. /\ Granted(n, e) /\ e \in Nat
        /\ beats' = beats \ {<<n, e>>} /\ granted' = granted /\ restarts' = restarts
    BY <1>4, <1>t, ElectionAssumption DEF record_heartbeat, BeatsGranted
  <2>2. BeatsGranted' /\ Granted(n, e)'
    BY <1>t, <2>1, GrantedKept DEF BeatsGranted
  <2>3. CASE Accepted(e)
    <3>1. current_epoch' = e /\ current_leader' = n /\ silence' = 0 /\ alive' = alive
      BY <1>4, <2>3 DEF record_heartbeat, BeatEpoch
    <3>2. LeaderHoldsEpoch'
      BY <2>2, <3>1 DEF LeaderHoldsEpoch
    <3> QED
      BY <1>t, <2>1, <2>2, <3>1, <3>2 DEF ElectionInv, ElectionTypeOK
  <2>4. CASE ~Accepted(e)
    BY <1>4, <1>t, <2>1, <2>4, QuietStep DEF record_heartbeat, ElectionTypeOK, BeatsGranted
  <2> QED
    BY <2>3, <2>4
<1>5. ASSUME NEW b \in beats, lose_heartbeat(b)
      PROVE  ElectionInv'
    BY <1>5, <1>t, QuietStep DEF lose_heartbeat, ElectionTypeOK, BeatsGranted
<1>6. CASE ElectionTick
    BY <1>6, <1>t, QuietStep DEF ElectionTick, ElectionTypeOK, BeatsGranted
<1>7. CASE restart
  <2>1. ElectionTypeOK' /\ LeaderHoldsEpoch'
    BY <1>7, <1>t, ElectionAssumption DEF restart, ElectionTypeOK, LeaderHoldsEpoch
  <2>2. BeatsGranted'
    BY <1>7, <1>t, GrantedKept DEF restart, BeatsGranted
  <2> QED
    BY <2>1, <2>2 DEF ElectionInv
<1>8. CASE UNCHANGED electionVars
    BY <1>8, <1>t, QuietStep DEF electionVars, ElectionTypeOK, BeatsGranted
<1> QED
    BY <1>1, <1>2, <1>3, <1>4, <1>5, <1>6, <1>7, <1>8 DEF ElectionNext

(* A claimed epoch is higher than every epoch this coordinator granted. *)
LEMMA UniqueInvStep == UniqueInv /\ [ElectionNext]_electionVars => UniqueInv'
<1> SUFFICES ASSUME UniqueInv, [ElectionNext]_electionVars
             PROVE  UniqueInv'
    OBVIOUS
<1>0. ElectionInv'
    BY ElectionInvStep DEF UniqueInv
<1>t. /\ current_epoch \in Nat /\ restarts \in Nat
      /\ \A g \in granted : g[2] \in Nat /\ g[3] \in Nat
    BY DEF UniqueInv, ElectionInv, ElectionTypeOK
<1>1. ASSUME NEW n \in Nodes, attempt_claim_leadership(n)
      PROVE  (GrantsNotAhead /\ OneHolderPerEpoch)'
  <2> DEFINE g0 == <<n, current_epoch + 1, restarts>>
  <2>1. /\ current_epoch' = current_epoch + 1
        /\ granted' = granted \cup {g0} /\ restarts' = restarts
    BY <1>1 DEF attempt_claim_leadership, ClaimedEpoch
  <2>2. \A g \in granted : g[3] <= restarts /\ (g[3] = restarts => g[2] <= current_epoch)
    BY DEF UniqueInv, GrantsNotAhead
  <2>3. GrantsNotAhead'
    BY <1>t, <2>1, <2>2 DEF GrantsNotAhead
  <2>4. ASSUME NEW g \in granted', NEW h \in granted', g[2] = h[2], g[3] = h[3]
        PROVE  g[1] = h[1]
    <3>1. CASE g \in granted /\ h \in granted
      BY <2>4, <3>1 DEF UniqueInv, OneHolderPerEpoch
    <3>2. CASE g = g0 /\ h = g0
      BY <3>2
    <3>3. CASE g \in granted /\ h = g0
      BY <1>t, <2>2, <2>4, <3>3
    <3>4. CASE g = g0 /\ h \in granted
      BY <1>t, <2>2, <2>4, <3>4
    <3> QED
      BY <2>1, <3>1, <3>2, <3>3, <3>4
  <2> QED
    BY <2>3, <2>4 DEF OneHolderPerEpoch
<1>2. ASSUME NEW n \in Nodes, NEW e \in 1..MaxEpoch, record_heartbeat(n, e)
      PROVE  (GrantsNotAhead /\ OneHolderPerEpoch)'
  <2>1. granted' = granted /\ restarts' = restarts
    BY <1>2 DEF record_heartbeat
  <2>2. current_epoch' \in Nat /\ current_epoch' >= current_epoch
    BY <1>0, <1>2, <1>t DEF record_heartbeat, Accepted, BeatEpoch, ElectionInv, ElectionTypeOK
  <2> QED
    BY <1>t, <2>1, <2>2 DEF UniqueInv, GrantsNotAhead, OneHolderPerEpoch
<1>3. ASSUME UNCHANGED <<granted, current_epoch, restarts>>
      PROVE  (GrantsNotAhead /\ OneHolderPerEpoch)'
    BY <1>3 DEF UniqueInv, GrantsNotAhead, OneHolderPerEpoch
<1>4. ASSUME restart
      PROVE  (GrantsNotAhead /\ OneHolderPerEpoch)'
  <2>1. granted' = granted /\ restarts' = restarts + 1
    BY <1>4 DEF restart
  <2> QED
    BY <1>t, <2>1 DEF UniqueInv, GrantsNotAhead, OneHolderPerEpoch
<1> QED
    BY <1>0, <1>1, <1>2, <1>3, <1>4
    DEF UniqueInv, ElectionNext, crash, send_heartbeat, lose_heartbeat, ElectionTick, electionVars

(* record_heartbeat and attempt_claim_leadership keep the leader and the   *)
(* epoch together: whatever heartbeats are delayed, lost or reordered, and *)
(* however often the coordinator starts over, the current leader is a node *)
(* that was granted the current epoch. *)
THEOREM LeaderIsHolder == ElectionSpec => [](ElectionTypeOK /\ LeaderHoldsEpoch)
<1>1. ElectionInit => ElectionInv
    BY ElectionAssumption DEF ElectionInit, ElectionInv, ElectionTypeOK, BeatsGranted, LeaderHoldsEpoch
<1> QED
    BY <1>1, ElectionInvStep, PTL DEF ElectionSpec, ElectionInv

(* Split-brain safety of LeaderCoordinator as far as it goes: no two nodes *)
(* are ever granted one epoch by a coordinator that has not restarted in   *)
(* between. *)
THEOREM EpochsUnique == ElectionSpec => []OneHolderPerEpoch
<1>1. ElectionInit => UniqueInv
    BY ElectionAssumption
    DEF ElectionInit, UniqueInv, ElectionInv, ElectionTypeOK, BeatsGranted, LeaderHoldsEpoch, GrantsNotAhead,
        OneHolderPerEpoch
<1>2. UniqueInv => OneHolderPerEpoch
    BY DEF UniqueInv
<1> QED
    BY <1>1, <1>2, UniqueInvStep, PTL DEF ElectionSpec

(* What DeposedOnlyByTimeout says of one step. *)
DeposesRightly ==
    /\ restarts' = restarts => current_epoch' >= current_epoch
    /\ (restarts' = 0 /\ current_leader # None /\ current_leader' # current_leader) => is_timed_out

(* While a coordinator has never restarted, a heartbeat that is accepted   *)
(* carries the current epoch, and that epoch has one holder: the leader. *)
LEMMA HeartbeatOfLeader ==
    ASSUME UniqueInv, NEW n \in Nodes, NEW e \in 1..MaxEpoch, record_heartbeat(n, e), Accepted(e),
           restarts = 0, current_leader # None
    PROVE  n = current_leader
<1>t. current_epoch \in Nat /\ e \in Nat /\ granted \subseteq Nodes \X Nat \X Nat
    BY ElectionAssumption DEF UniqueInv, ElectionInv, ElectionTypeOK
<1>1. Granted(n, e) /\ Granted(current_leader, current_epoch)
    BY DEF UniqueInv, ElectionInv, BeatsGranted, LeaderHoldsEpoch, record_heartbeat
<1>2. <<n, e, 0>> \in granted /\ <<current_leader, current_epoch, 0>> \in granted
    BY <1>1 DEF Granted
<1>3. e = current_epoch
    BY <1>t, <1>2 DEF UniqueInv, GrantsNotAhead, Accepted
<1> QED
    BY <1>2, <1>3 DEF UniqueInv, OneHolderPerEpoch

(* LeaderCoordinator deposes a leader for its silence only: for any nodes, *)
(* epochs and delays, the epoch never falls while the coordinator runs,    *)
(* and before its first restart nobody takes over from a leader whose      *)
(* heartbeats arrive in time. *)
THEOREM OnlyTimeoutDeposes == ElectionSpec => DeposedOnlyByTimeout
<1>1. UniqueInv /\ [ElectionNext]_electionVars => [DeposesRightly]_electionVars
  <2> SUFFICES ASSUME UniqueInv, ElectionNext
               PROVE  DeposesRightly
    OBVIOUS
  <2>t. current_epoch \in Nat /\ restarts \in Nat
    BY DEF UniqueInv, ElectionInv, ElectionTypeOK
  <2>1. ASSUME NEW n \in Nodes, attempt_claim_leadership(n)
        PROVE  DeposesRightly
    BY <2>1, <2>t DEF attempt_claim_leadership, MayClaim, ClaimedEpoch, DeposesRightly
  <2>2. ASSUME NEW n \in Nodes, NEW e \in 1..MaxEpoch, record_heartbeat(n, e)
        PROVE  DeposesRightly
    BY <2>2, <2>t, HeartbeatOfLeader DEF record_heartbeat, Accepted, BeatEpoch, DeposesRightly
  <2>3. CASE UNCHANGED <<current_epoch, current_leader, restarts>>
    BY <2>3, <2>t DEF DeposesRightly
  <2>4. CASE restart
    BY <2>4, <2>t DEF restart, DeposesRightly
  <2> QED
    BY <2>1, <2>2, <2>3, <2>4 DEF ElectionNext, crash, send_heartbeat, lose_heartbeat, ElectionTick
<1>2. ElectionInit => UniqueInv
    BY ElectionAssumption
    DEF ElectionInit, UniqueInv, ElectionInv, ElectionTypeOK, BeatsGranted, LeaderHoldsEpoch, GrantsNotAhead,
        OneHolderPerEpoch
<1> QED
    BY <1>1, <1>2, UniqueInvStep, PTL DEF ElectionSpec, DeposedOnlyByTimeout, DeposesRightly

-----------------------------------------------------------------------------
(* The request registry.  PendingIsWatched needs that a sweep starts with  *)
(* nothing expired; TimedOutIsOver needs that ids are fresh, hence that    *)
(* every id in the tables is at most next_id. *)

(* The inductive invariant of the registry. *)
THEOREM RpcInvariant == RpcSpec => []RpcInv
<1> USE RpcAssumption DEF Ids
<1>1. RpcInit => RpcInv
  BY DEF RpcInit, RpcInv, RpcTypeOK, PendingIsWatched, TimedOutIsOver, NoSweep
<1>2. RpcInv /\ [RpcNext]_rpcVars => RpcInv'
  <2> SUFFICES ASSUME RpcInv, [RpcNext]_rpcVars
               PROVE  RpcInv'
    OBVIOUS
  <2> USE DEF RpcInv, RpcTypeOK, PendingIsWatched, TimedOutIsOver
  <2>1. CASE track_pending
    <3>1. next_id + 1 \in Ids /\ next_id + 1 \notin timed_out
      BY <2>1 DEF track_pending
    <3>2. RpcTypeOK'
      BY <2>1, <3>1 DEF track_pending
    <3>3. PendingIsWatched' /\ TimedOutIsOver'
      BY <2>1, <3>1 DEF track_pending
    <3>4. (timed_out \cup pending \cup sweep.expired \subseteq 1..next_id)'
      BY <2>1 DEF track_pending
    <3>5. (~sweep.on => sweep = NoSweep)'
      BY <2>1 DEF track_pending, NoSweep
    <3> QED BY <3>2, <3>3, <3>4, <3>5
  <2>2. ASSUME NEW i \in Ids, track_timeout(i)
        PROVE  RpcInv'
    BY <2>2 DEF track_timeout, NoSweep
  <2>3. ASSUME NEW i \in Ids, resolve(i)
        PROVE  RpcInv'
    BY <2>3 DEF resolve, NoSweep
  <2>4. ASSUME NEW i \in Ids, time_out(i)
        PROVE  RpcInv'
    BY <2>4 DEF time_out, NoSweep
  <2>5. CASE expire_begin
    BY <2>5 DEF expire_begin, NoSweep
  <2>6. ASSUME NEW i \in Ids, expire_entry(i)
        PROVE  RpcInv'
    <3>1. RpcTypeOK' /\ sweep'.on
      BY <2>6 DEF expire_entry
    <3>2. PendingIsWatched'
      BY <2>6 DEF expire_entry, Gone
    <3>3. TimedOutIsOver' /\ (timed_out \cup pending \cup sweep.expired \subseteq 1..next_id)'
      BY <2>6 DEF expire_entry
    <3> QED BY <3>1, <3>2, <3>3
  <2>7. CASE expire_end
    BY <2>7 DEF expire_end, NoSweep
  <2>8. CASE UNCHANGED rpcVars
    BY <2>8 DEF rpcVars, NoSweep
  <2> QED BY <2>1, <2>2, <2>3, <2>4, <2>5, <2>6, <2>7, <2>8 DEF RpcNext
<1> QED BY <1>1, <1>2, PTL DEF RpcSpec

(* A pending request is always watched: it sits in the timeout list, is    *)
(* being put there, or is about to be removed by the sweep in progress. *)
THEOREM PendingAlwaysWatched == RpcSpec => []PendingIsWatched
<1>1. RpcInv => PendingIsWatched
  BY DEF RpcInv
<1> QED BY <1>1, RpcInvariant, PTL

(* A request reported as timed out never becomes answerable again. *)
THEOREM TimedOutStaysOver == RpcSpec => []TimedOutIsOver
<1>1. RpcInv => TimedOutIsOver
  BY DEF RpcInv
<1> QED BY <1>1, RpcInvariant, PTL

-----------------------------------------------------------------------------
(* The resource lifecycle. *)

ResourceState == {"unknown", "Validating", "DependencyResolution", "Starting", "ScriptHostStarting",
                  "Healthy", "Failed", "Stopped", "Quarantined"}
Command == [kind : {"Start", "Stop", "Restart"}, name : Resources]

LifecycleTypeOK ==
    /\ states \in [Resources -> ResourceState]
    /\ handles \in [Resources -> Nat]
    /\ commands \in Seq(Command)
    /\ step \in {"idle", "check", "validate", "manifest", "deps", "starting", "scripts", "stop"}
    /\ step # "idle" => cmd \in Command

(* Where the handler of a start is tells the state it left the resource    *)
(* in: nobody but the handler moves a resource that does not serve, except *)
(* for a quarantine of a failed one, and none is failed between two of its *)
(* steps. *)
StepMatchesState ==
    /\ step = "validate" => ~is_serving(states[cmd.name])
    /\ step = "manifest" => states[cmd.name] = "Validating"
    /\ step = "deps" => states[cmd.name] = "DependencyResolution"
    /\ step = "starting" => states[cmd.name] = "Starting"
    /\ step = "scripts" => states[cmd.name] = "ScriptHostStarting"

LifecycleInv == LifecycleTypeOK /\ StepMatchesState /\ HandlesAccounted

(* What NoShortcut says of one step. *)
ServesProperly ==
    \A r \in Resources :
        /\ is_serving(states'[r]) /\ ~is_serving(states[r]) => states[r] = "ScriptHostStarting"
        /\ is_serving(states[r]) /\ ~is_serving(states'[r]) =>
               states'[r] = "Quarantined" \/ (step = "stop" /\ cmd.name = r)

(* The Stop commands of shutdown() are commands. *)
LEMMA StopsAreCommands ==
    ASSUME LifecycleTypeOK, NEW names \in SetToSeqs(Known)
    PROVE  commands \o [i \in DOMAIN names |-> [kind |-> "Stop", name |-> names[i]]] \in Seq(Command)
<1>1. IsFiniteSet(Known) /\ Cardinality(Known) \in Nat
  BY LifecycleAssumption, FS_Subset, FS_CardinalityType DEF Known
<1>2. names \in [1..Cardinality(Known) -> Known]
  BY DEF SetToSeqs
<1> DEFINE stops == [i \in DOMAIN names |-> [kind |-> "Stop", name |-> names[i]]]
<1>3. stops \in [1..Cardinality(Known) -> Command]
  BY <1>2 DEF Command, Known
<1>4. stops \in Seq(Command)
  <2> HIDE DEF stops
  <2> QED BY <1>1, <1>3
<1> QED
  BY <1>4 DEF LifecycleTypeOK

(* A step of the supervisor that moves one resource, the one its command   *)
(* names, into a state that needs no handles. *)
LEMMA MovesOne ==
    ASSUME LifecycleInv, cmd.name \in Resources, NEW s \in ResourceState,
           s \notin {"unknown", "Stopped", "Healthy", "Degraded"},
           states' = [states EXCEPT ![cmd.name] = s], UNCHANGED handles
    PROVE  /\ states' \in [Resources -> ResourceState] /\ states'[cmd.name] = s
           /\ HandlesAccounted'
BY DEF LifecycleInv, LifecycleTypeOK, HandlesAccounted, is_serving

(* Every step of the supervisor, the operators and shutdown() keeps the    *)
(* invariant. *)
LEMMA LifecycleStep == LifecycleInv /\ [LifecycleNext]_lifeVars => LifecycleInv' /\ [ServesProperly]_lifeVars
<1> SUFFICES ASSUME LifecycleInv, [LifecycleNext]_lifeVars
             PROVE  LifecycleInv' /\ (ServesProperly \/ UNCHANGED lifeVars)
    OBVIOUS
<1>t. LifecycleTypeOK /\ StepMatchesState /\ HandlesAccounted
    BY DEF LifecycleInv
<1>q. ASSUME UNCHANGED <<states, handles>>
      PROVE  HandlesAccounted' /\ ServesProperly
    BY <1>t, <1>q DEF HandlesAccounted, ServesProperly, is_serving
<1>1. CASE take
  <2>1. Head(commands) \in Command /\ Tail(commands) \in Seq(Command)
    BY <1>1, <1>t DEF take, LifecycleTypeOK
  <2>2. LifecycleTypeOK'
    BY <1>1, <1>t, <2>1 DEF take, LifecycleTypeOK
  <2>3. StepMatchesState'
    BY <1>1, <1>t DEF take, StepMatchesState, is_serving
  <2> QED BY <1>1, <1>q, <2>2, <2>3 DEF take, LifecycleInv
<1>2. CASE start_check
  <2>1. LifecycleTypeOK' /\ StepMatchesState'
    BY <1>2, <1>t DEF start_check, can_start, Finished, LifecycleTypeOK, StepMatchesState, is_serving
  <2> QED BY <1>2, <1>q, <2>1 DEF start_check, LifecycleInv
<1>3. ASSUME NEW at, NEW s, NEW next, Point(at, s, next),
             <<at, s, next>> \in {<<"validate", "Validating", "manifest">>,
                                  <<"manifest", "DependencyResolution", "deps">>,
                                  <<"deps", "Starting", "starting">>,
                                  <<"starting", "ScriptHostStarting", "scripts">>}
      PROVE  LifecycleInv' /\ ServesProperly
  <2>1. cmd \in Command /\ cmd.name \in Resources /\ ~is_serving(states[cmd.name])
    BY <1>3, <1>t DEF Point, LifecycleTypeOK, StepMatchesState, Command, is_serving
  <2>2. /\ states' \in [Resources -> ResourceState] /\ states'[cmd.name] = s
        /\ HandlesAccounted'
    BY <1>3, <2>1, MovesOne DEF Point, Sets, ResourceState
  <2>3. LifecycleTypeOK' /\ StepMatchesState'
    BY <1>3, <1>t, <2>1, <2>2 DEF Point, LifecycleTypeOK, StepMatchesState
  <2>4. ServesProperly
    BY <1>3, <1>t, <2>1, <2>2 DEF Point, Sets, ServesProperly, LifecycleTypeOK, is_serving
  <2> QED BY <2>2, <2>3, <2>4 DEF LifecycleInv
<1>4. CASE start_fails
  <2>1. cmd \in Command /\ cmd.name \in Resources /\ ~is_serving(states[cmd.name])
    BY <1>4, <1>t DEF start_fails, LifecycleTypeOK, StepMatchesState, Command, is_serving
  <2>2. /\ states' \in [Resources -> ResourceState] /\ states'[cmd.name] = "Failed"
        /\ HandlesAccounted'
    BY <1>4, <2>1, MovesOne DEF start_fails, Sets, ResourceState
  <2>3. LifecycleTypeOK' /\ StepMatchesState'
    BY <1>4, <1>t, <2>1, <2>2 DEF start_fails, Finished, LifecycleTypeOK, StepMatchesState
  <2>4. ServesProperly
    BY <1>4, <1>t, <2>1, <2>2 DEF start_fails, Sets, ServesProperly, LifecycleTypeOK, is_serving
  <2> QED BY <2>2, <2>3, <2>4 DEF LifecycleInv
<1>5. CASE mark_healthy
  <2>1. cmd \in Command /\ cmd.name \in Resources /\ states[cmd.name] = "ScriptHostStarting"
    BY <1>5, <1>t DEF mark_healthy, LifecycleTypeOK, StepMatchesState, Command
  <2>2. LifecycleTypeOK' /\ StepMatchesState'
    BY <1>5, <1>t, <2>1, LifecycleAssumption
    DEF mark_healthy, Sets, Finished, LifecycleTypeOK, StepMatchesState, ResourceState
  <2>3. HandlesAccounted' /\ ServesProperly
    BY <1>5, <1>t, <2>1
    DEF mark_healthy, Sets, HandlesAccounted, ServesProperly, LifecycleTypeOK, is_serving
  <2> QED BY <2>2, <2>3 DEF LifecycleInv
<1>6. CASE transition_stop
  <2> DEFINE left == Released(handles[cmd.name])
             to == IF left = 0 THEN "Stopped" ELSE "Failed"
  <2>1. cmd \in Command /\ cmd.name \in Resources /\ left \in Nat
    BY <1>6, <1>t, LifecycleAssumption DEF transition_stop, LifecycleTypeOK, Command, Released
  <2>2. /\ handles' = [handles EXCEPT ![cmd.name] = left] /\ states' = [states EXCEPT ![cmd.name] = to]
        /\ step = "stop" /\ commands' = commands
        /\ (step' = "idle" \/ (step' = "check" /\ cmd' = cmd))
    BY <1>6 DEF transition_stop, Sets, Finished
  <2> HIDE DEF left
  <2>3. LifecycleTypeOK' /\ StepMatchesState'
    BY <1>t, <2>1, <2>2 DEF LifecycleTypeOK, StepMatchesState, ResourceState
  <2>4. HandlesAccounted' /\ ServesProperly
    BY <1>t, <2>1, <2>2 DEF HandlesAccounted, ServesProperly, LifecycleTypeOK, is_serving
  <2> QED BY <2>3, <2>4 DEF LifecycleInv
<1>7. ASSUME NEW r \in Resources, NEW kind \in {"Start", "Stop", "Restart"}, send_command(kind, r)
      PROVE  LifecycleInv' /\ ServesProperly
  <2>1. LifecycleTypeOK' /\ StepMatchesState'
    BY <1>7, <1>t DEF send_command, LifecycleTypeOK, StepMatchesState, Command, is_serving
  <2> QED BY <1>7, <1>q, <2>1 DEF send_command, LifecycleInv
<1>8. ASSUME NEW r \in Resources, quarantine(r)
      PROVE  LifecycleInv' /\ ServesProperly
  <2>1. LifecycleTypeOK'
    BY <1>8, <1>t DEF quarantine, LifecycleTypeOK, ResourceState
  <2>2. StepMatchesState'
    BY <1>8, <1>t DEF quarantine, LifecycleTypeOK, StepMatchesState, is_serving, Command
  <2>3. HandlesAccounted' /\ ServesProperly
    BY <1>8, <1>t DEF quarantine, HandlesAccounted, ServesProperly, LifecycleTypeOK, is_serving
  <2> QED BY <2>1, <2>2, <2>3 DEF LifecycleInv
<1>9. CASE request_shutdown \/ shutdown_complete
  <2>1. LifecycleTypeOK' /\ StepMatchesState'
    BY <1>9, <1>t
    DEF request_shutdown, shutdown_complete, LifecycleTypeOK, StepMatchesState, is_serving
  <2> QED BY <1>9, <1>q, <2>1 DEF request_shutdown, shutdown_complete, LifecycleInv
<1>10. CASE shutdown_stops
  <2>1. LifecycleTypeOK'
    BY <1>10, <1>t, StopsAreCommands DEF shutdown_stops, LifecycleTypeOK
  <2>2. StepMatchesState'
    BY <1>10, <1>t DEF shutdown_stops, StepMatchesState, is_serving
  <2> QED BY <1>10, <1>q, <2>1, <2>2 DEF shutdown_stops, LifecycleInv
<1>11. CASE UNCHANGED lifeVars
  <2>1. LifecycleTypeOK' /\ StepMatchesState'
    BY <1>11, <1>t DEF lifeVars, LifecycleTypeOK, StepMatchesState, is_serving
  <2> QED BY <1>11, <1>q, <2>1 DEF lifeVars, LifecycleInv
<1> QED
    BY <1>1, <1>2, <1>3, <1>4, <1>5, <1>6, <1>7, <1>8, <1>9, <1>10, <1>11
    DEF LifecycleNext, Supervisor, start_validate, load_manifest, check_dependencies, start_host

(* The invariant of LifecycleManager and its supervisor task. *)
THEOREM LifecycleInvariant == LifecycleSpec => []LifecycleInv
<1>1. LifecycleInit => LifecycleInv
    BY DEF LifecycleInit, LifecycleInv, LifecycleTypeOK, StepMatchesState, HandlesAccounted, ResourceState,
           is_serving
<1> QED
    BY <1>1, LifecycleStep, PTL DEF LifecycleSpec

(* The handles LifecycleManager records are those its states promise:      *)
(* whatever commands, quarantines and shutdowns come between the steps of  *)
(* a start, for any number of scripts, also more than a stop releases. *)
THEOREM HandlesAlwaysAccounted == LifecycleSpec => []HandlesAccounted
<1>1. LifecycleInv => HandlesAccounted
    BY DEF LifecycleInv
<1> QED
    BY <1>1, LifecycleInvariant, PTL

(* Nobody serves who did not go through the steps of handle_start, and who *)
(* serves is not disturbed by a second start. *)
THEOREM NobodyShortcuts == LifecycleSpec => NoShortcut
<1> QED
    BY LifecycleInvariant, LifecycleStep, PTL DEF LifecycleSpec, NoShortcut, ServesProperly

-----------------------------------------------------------------------------
(* The state of CircuitBreaker agrees with its count of failures whatever  *)
(* order the outcomes of concurrent calls come in, also those begun before *)
(* it opened: it is closed exactly while it is below its threshold. *)
THEOREM BreakerCounts == BreakerSpec => []StateMatchesFailures
<1> DEFINE Inv == consecutive_failures \in Nat /\ StateMatchesFailures
<1>1. BreakerInit => Inv
    BY BreakerAssumption DEF BreakerInit, StateMatchesFailures
<1>2. Inv /\ [BreakerNext]_breakerVars => Inv'
    BY BreakerAssumption
    DEF BreakerNext, breakerVars, can_execute, record_success, FailuresAfterSuccess, record_failure, Trips,
        BreakerTick, outage, StateMatchesFailures
<1>3. Inv => StateMatchesFailures
    OBVIOUS
<1> QED
    BY <1>1, <1>2, <1>3, PTL DEF BreakerSpec

-----------------------------------------------------------------------------
(* Releases and the launcher. *)

(* The launcher's version is the one installed last; the channel lists     *)
(* what the catalogue holds, each once, signed. *)
UpdatesInv ==
    /\ installed \in Nat /\ installs \in Seq(Nat) /\ installs # <<>>
    /\ installs[Len(installs)] = installed
    /\ \A i \in 1..(Len(installs) - 1) :
         installs[i] = 0 \/ installs[i + 1] = 0 \/ installs[i] <= installs[i + 1]
    /\ published \in Seq(ArtifactIds)
    /\ catalogue = firstRecord /\ ToSet(published) = DOMAIN catalogue /\ IsInjective(published)
    /\ \A id \in DOMAIN catalogue : catalogue[id].signature_ok

LEMMA UpdatesInvGives == UpdatesInv => UpdatesSafe
BY DEF UpdatesInv, UpdatesSafe, resolve_rollback

(* A new id at the end of a list without repetitions. *)
LEMMA AppendNew ==
    ASSUME NEW T, NEW s \in Seq(T), NEW x \in T, x \notin ToSet(s), IsInjective(s)
    PROVE  Append(s, x) \in Seq(T) /\ ToSet(Append(s, x)) = ToSet(s) \cup {x} /\ IsInjective(Append(s, x))
<1> DEFINE n == Len(s)
           r == Append(s, x)
<1>1. n \in Nat /\ r \in Seq(T) /\ Len(r) = n + 1 /\ r[n + 1] = x /\ \A i \in 1..n : r[i] = s[i]
  OBVIOUS
<1>2. DOMAIN s = 1..n /\ DOMAIN r = 1..(n + 1)
  BY <1>1
<1> HIDE DEF n, r
<1>3. \A i : i \in 1..(n + 1) <=> i \in 1..n \/ i = n + 1
  BY <1>1
<1>4. \A i \in 1..n : s[i] # x
  BY <1>2 DEF ToSet
<1>5. ToSet(r) = ToSet(s) \cup {x}
  BY <1>1, <1>2, <1>3 DEF ToSet
<1>6. IsInjective(r)
  <2> SUFFICES ASSUME NEW i \in 1..(n + 1), NEW j \in 1..(n + 1), r[i] = r[j] PROVE i = j
    BY <1>2 DEF IsInjective
  <2>1. CASE i \in 1..n /\ j \in 1..n
    BY <1>1, <1>2, <2>1 DEF IsInjective
  <2>2. CASE ~(i \in 1..n /\ j \in 1..n)
    BY <1>1, <1>3, <1>4, <2>2
  <2> QED BY <2>1, <2>2
<1> QED BY <1>1, <1>5, <1>6 DEF r

LEMMA UpdatesStep == UpdatesInv /\ [UpdatesNext]_releaseVars => UpdatesInv'
<1> SUFFICES ASSUME UpdatesInv, [UpdatesNext]_releaseVars PROVE UpdatesInv'
  OBVIOUS
<1>1. ASSUME NEW id \in ArtifactIds, NEW record, register_artifact(id, record) PROVE UpdatesInv'
  <2>1. /\ id \notin ToSet(published) /\ record.signature_ok
        /\ catalogue' = Put(catalogue, id, record) /\ firstRecord' = Put(firstRecord, id, record)
        /\ published' = Append(published, id) /\ installed' = installed /\ installs' = installs
    BY <1>1 DEF register_artifact, UpdatesInv
  <2>2. published' \in Seq(ArtifactIds) /\ ToSet(published') = ToSet(published) \cup {id} /\ IsInjective(published')
    BY <2>1, AppendNew DEF UpdatesInv
  <2>3. DOMAIN Put(catalogue, id, record) = DOMAIN catalogue \cup {id}
    BY DEF Put
  <2>4. \A j \in DOMAIN Put(catalogue, id, record) : Put(catalogue, id, record)[j].signature_ok
    BY <2>1 DEF Put, UpdatesInv
  <2> QED BY <2>1, <2>2, <2>3, <2>4 DEF UpdatesInv
<1>2. CASE check_update
  BY <1>2 DEF check_update, UpdatesInv
<1>3. ASSUME NEW m, m.version \in Nat, NEW ok, install(m, ok) PROVE UpdatesInv'
  <2> DEFINE n == Len(installs)
             v == m.version
  <2>1. installed' = v /\ installs' = Append(installs, v) /\ ~is_downgrade(installed, v)
        /\ UNCHANGED <<catalogue, published, firstRecord>>
    BY <1>3 DEF install, validate_update
  <2>2. n \in Nat /\ n > 0 /\ installs \in Seq(Nat) /\ installs[n] = installed /\ installed \in Nat
        /\ \A i \in 1..(n - 1) : installs[i] = 0 \/ installs[i + 1] = 0 \/ installs[i] <= installs[i + 1]
    BY DEF UpdatesInv
  <2>3. /\ installs' \in Seq(Nat) /\ Len(installs') = n + 1 /\ installs'[n + 1] = v
        /\ \A i \in 1..n : installs'[i] = installs[i]
    BY <1>3, <2>1, <2>2
  <2> HIDE DEF n, v
  <2>4. installed = 0 \/ v = 0 \/ installed <= v
    BY <1>3, <2>1, <2>2 DEF is_downgrade, v
  <2>5. \A i \in 1..n : installs'[i] = 0 \/ installs'[i + 1] = 0 \/ installs'[i] <= installs'[i + 1]
    <3> SUFFICES ASSUME NEW i \in 1..n
                 PROVE  installs'[i] = 0 \/ installs'[i + 1] = 0 \/ installs'[i] <= installs'[i + 1]
      OBVIOUS
    <3>1. CASE i = n
      BY <2>2, <2>3, <2>4, <3>1
    <3>2. CASE i # n
      <4>1. i \in 1..(n - 1) /\ i + 1 \in 1..n
        BY <2>2, <3>2
      <4> QED BY <2>2, <2>3, <4>1
    <3> QED BY <3>1, <3>2
  <2>6. (n + 1) - 1 = n /\ installs' # <<>>
    BY <2>2, <2>3
  <2>7. installed' \in Nat /\ installs'[Len(installs')] = installed'
    BY <1>3, <2>1, <2>3 DEF v
  <2> QED BY <2>1, <2>3, <2>5, <2>6, <2>7 DEF UpdatesInv
<1>4. CASE UNCHANGED releaseVars
  BY <1>4 DEF releaseVars, UpdatesInv
<1>5. CASE UpdatesNext
  <2>1. CASE \E id \in ArtifactIds, v \in 0..MaxVersion, ok \in BOOLEAN, r \in ArtifactIds \cup {NoArtifact} :
               register_artifact(id, [version |-> v, signature_ok |-> ok, rollback_target |-> r])
    BY <1>1, <2>1
  <2>2. CASE \E v, min \in 0..MaxVersion, files \in SUBSET {"intact", "damaged"}, ch \in {"stable", "beta"}, ok \in BOOLEAN :
               install([version |-> v, minimum |-> min, files |-> files, channel |-> ch], ok)
    <3>1. PICK v \in 0..MaxVersion, min \in 0..MaxVersion, files \in SUBSET {"intact", "damaged"},
               ch \in {"stable", "beta"}, ok \in BOOLEAN :
               install([version |-> v, minimum |-> min, files |-> files, channel |-> ch], ok)
      BY <2>2
    <3> DEFINE m == [version |-> v, minimum |-> min, files |-> files, channel |-> ch]
    <3>2. m.version \in Nat
      BY ReleaseAssumption
    <3> QED BY <1>3, <3>1, <3>2
  <2> QED BY <1>2, <1>5, <2>1, <2>2 DEF UpdatesNext
<1> QED BY <1>4, <1>5

-----------------------------------------------------------------------------
(* Backups. *)

(* The partial functions from paths to contents. *)
Trees == UNION {[S -> Contents] : S \in SUBSET Paths}

(* The manifest of the archive is what was saved, whatever became of its   *)
(* files. *)
BackupsInv ==
    /\ liveFiles \in Trees /\ taken \in Trees
    /\ restorePlan # <<>> => archive # <<>>
    /\ archive # <<>> => archive \in [entries : {taken}, files : Trees, db : {1, 2}]
    /\ dbVersion \in {1, 2}
    /\ RestoresExact

LEMMA PutTree == ASSUME NEW f \in Trees, NEW p \in Paths, NEW c \in Contents PROVE Put(f, p, c) \in Trees
<1>1. PICK S \in SUBSET Paths : f \in [S -> Contents]
  BY DEF Trees
<1>2. Put(f, p, c) \in [S \cup {p} -> Contents]
  BY <1>1 DEF Put
<1>3. S \cup {p} \in SUBSET Paths
  OBVIOUS
<1> QED BY <1>2, <1>3 DEF Trees

LEMMA BackupsStep == BackupsInv /\ [BackupsNext]_backupVars => BackupsInv'
<1> SUFFICES ASSUME BackupsInv, [BackupsNext]_backupVars PROVE BackupsInv'
  OBVIOUS
<1> DEFINE Archives == [entries : {taken}, files : Trees, db : {1, 2}]
<1>0. /\ liveFiles \in Trees /\ taken \in Trees /\ dbVersion \in {1, 2} /\ RestoresExact
      /\ restorePlan # <<>> => archive # <<>>
      /\ archive # <<>> => archive \in Archives
  BY DEF BackupsInv
<1>1. ASSUME NEW p \in Paths, NEW c \in Contents, write_file(p, c) PROVE BackupsInv'
  <2>1. liveFiles' \in Trees /\ UNCHANGED <<dbVersion, archive, restorePlan, taken, planned>>
    BY <1>0, <1>1, PutTree DEF write_file
  <2> QED BY <1>0, <2>1 DEF BackupsInv, RestoresExact
<1>2. ASSUME NEW g \in Trees, archive # <<>>, archive' = [archive EXCEPT !.files = g],
             UNCHANGED <<liveFiles, dbVersion, restorePlan, taken, planned>>
      PROVE  BackupsInv'
  <2>1. archive' \in Archives /\ archive' # <<>> /\ archive'.db = archive.db
    BY <1>0, <1>2
  <2> QED BY <1>0, <1>2, <2>1 DEF BackupsInv, RestoresExact
<1>3. ASSUME NEW p \in Paths, NEW c \in Contents, damage_archive(p, c) PROVE BackupsInv'
  <2>1. archive # <<>> /\ archive' = [archive EXCEPT !.files = Put(archive.files, p, c)]
        /\ UNCHANGED <<liveFiles, dbVersion, restorePlan, taken, planned>>
    BY <1>3 DEF damage_archive
  <2>2. archive.files \in Trees
    BY <1>0, <2>1
  <2>3. Put(archive.files, p, c) \in Trees
    BY <2>2, PutTree
  <2> QED BY <1>2, <2>1, <2>3
<1>4. ASSUME NEW p \in Paths, lose(p) PROVE BackupsInv'
  <2> DEFINE g == [q \in DOMAIN archive.files \ {p} |-> archive.files[q]]
  <2>1. archive # <<>> /\ archive' = [archive EXCEPT !.files = g]
        /\ UNCHANGED <<liveFiles, dbVersion, restorePlan, taken, planned>>
    BY <1>4 DEF lose
  <2>2. archive.files \in Trees
    BY <1>0, <2>1
  <2>3. PICK S \in SUBSET Paths : archive.files \in [S -> Contents]
    BY <2>2 DEF Trees
  <2>4. g \in [S \ {p} -> Contents] /\ S \ {p} \in SUBSET Paths
    BY <2>3
  <2>5. g \in Trees
    BY <2>4 DEF Trees
  <2> HIDE DEF g
  <2> QED BY <1>2, <2>1, <2>5
<1>5. CASE create_backup
  <2>1. archive' = [entries |-> liveFiles, files |-> liveFiles, db |-> dbVersion]
        /\ taken' = liveFiles /\ restorePlan' = <<>> /\ UNCHANGED <<liveFiles, dbVersion>>
    BY <1>5 DEF create_backup
  <2>2. archive' \in [entries : {taken'}, files : Trees, db : {1, 2}]
    BY <1>0, <2>1
  <2> QED BY <1>0, <2>1, <2>2 DEF BackupsInv, RestoresExact
<1>6. CASE migrate_db
  BY <1>0, <1>6 DEF migrate_db, BackupsInv, RestoresExact
<1>7. ASSUME NEW gap \in BOOLEAN, plan_restore(gap) PROVE BackupsInv'
  <2>1. /\ archive # <<>> /\ verify_integrity(archive) /\ (archive.db = dbVersion \/ gap)
        /\ restorePlan' = [file_count |-> Cardinality(DOMAIN archive.entries), sync |-> archive.db # dbVersion]
        /\ planned' = [files |-> archive.files, db |-> dbVersion, gap |-> gap]
        /\ UNCHANGED <<liveFiles, dbVersion, archive, taken>>
    BY <1>7 DEF plan_restore
  <2>2. archive.entries = taken
    BY <1>0, <2>1
  <2>3. \A p \in DOMAIN taken : p \in DOMAIN planned'.files /\ planned'.files[p] = taken[p]
    BY <2>1, <2>2 DEF verify_integrity
  <2>4. restorePlan'.file_count = Cardinality(DOMAIN taken)
    BY <2>1, <2>2
  <2>5. (restorePlan'.sync <=> archive.db # planned'.db) /\ (restorePlan'.sync => planned'.gap)
    BY <2>1
  <2>6. RestoresExact'
    BY <2>1, <2>3, <2>4, <2>5 DEF RestoresExact
  <2> QED BY <1>0, <2>1, <2>6 DEF BackupsInv
<1>8. CASE UNCHANGED backupVars
  BY <1>0, <1>8 DEF backupVars, BackupsInv, RestoresExact
<1> QED BY <1>1, <1>3, <1>4, <1>5, <1>6, <1>7, <1>8 DEF BackupsNext

-----------------------------------------------------------------------------
(* Plans of upgrades. *)

UpgradesInv == fromGraph \in UpgradeGraph /\ toGraph \in UpgradeGraph

LEMMA OneChangeTyped == ASSUME NEW g \in UpgradeGraph PROVE One_change(g) \subseteq UpgradeGraph
<1> SUFFICES ASSUME NEW u \in One_change(g) PROVE u \in UpgradeGraph
  OBVIOUS
<1>1. CASE \E n \in Numbers : u = [g EXCEPT !.protocol = n] \/ u = [g EXCEPT !.db = n]
  BY <1>1 DEF UpgradeGraph
<1>2. CASE \E v \in SemVers : u = [g EXCEPT !.server = v] \/ u = [g EXCEPT !.astryn = v] \/ u = [g EXCEPT !.framework = v]
  BY <1>2 DEF UpgradeGraph
<1>3. CASE \E p \in PackageNames, v \in SemVers \cup {NoVersion} : u = [g EXCEPT !.packages = [g.packages EXCEPT ![p] = v]]
  <2>1. PICK p \in PackageNames, v \in SemVers \cup {NoVersion} : u = [g EXCEPT !.packages = [g.packages EXCEPT ![p] = v]]
    BY <1>3
  <2>2. [g.packages EXCEPT ![p] = v] \in [PackageNames -> SemVers \cup {NoVersion}]
    BY DEF UpgradeGraph
  <2> QED BY <2>1, <2>2 DEF UpgradeGraph
<1> QED BY <1>1, <1>2, <1>3 DEF One_change

LEMMA UpgradesStep == UpgradesInv /\ [UpgradesNext]_upgradeVars => UpgradesInv'
<1> SUFFICES ASSUME UpgradesInv, [UpgradesNext]_upgradeVars PROVE UpgradesInv'
  OBVIOUS
<1>1. ASSUME NEW u \in One_change(toGraph), NEW t \in One_change(u), plan_upgrade(t) PROVE UpgradesInv'
  <2>1. u \in UpgradeGraph
    BY OneChangeTyped DEF UpgradesInv
  <2>2. t \in UpgradeGraph
    BY <2>1, OneChangeTyped
  <2> QED BY <1>1, <2>2 DEF plan_upgrade, UpgradesInv
<1>2. CASE carry_out
  BY <1>2 DEF carry_out, UpgradesInv
<1>3. CASE UNCHANGED upgradeVars
  BY <1>3 DEF upgradeVars, UpgradesInv
<1> QED BY <1>1, <1>2, <1>3 DEF UpgradesNext

(* What a plan must leave alone to be safe. *)
Harmless(c, t) ==
    /\ t.db = c.db /\ t.protocol <= c.protocol
    /\ t.server.major <= c.server.major /\ t.framework.major <= c.framework.major
    /\ \A p \in PackageNames : ~Breaks_package(c.packages[p], t.packages[p])

LEMMA GraphTypes ==
    ASSUME NEW g \in UpgradeGraph
    PROVE  /\ g.protocol \in Nat /\ g.db \in Nat /\ g.server \in SemVers /\ g.framework \in SemVers
           /\ g.server.major \in Nat /\ g.framework.major \in Nat
           /\ \A p \in PackageNames : g.packages[p] \in SemVers \cup {NoVersion}
<1>1. \A v \in SemVers : v.major \in Nat
  BY UpgradeAssumption
<1> QED BY <1>1 DEF UpgradeGraph, Numbers

LEMMA SafeIs ==
    ASSUME NEW c \in UpgradeGraph, NEW t \in UpgradeGraph
    PROVE  rollback_limit(c, t) = "Safe" <=> Harmless(c, t)
<1>0. /\ c.protocol \in Nat /\ c.db \in Nat /\ c.server.major \in Nat /\ c.framework.major \in Nat
      /\ t.protocol \in Nat /\ t.db \in Nat /\ t.server.major \in Nat /\ t.framework.major \in Nat
  BY GraphTypes
<1>1. rollback_limit(c, t) = "Safe" <=> t.db = c.db /\ ~\E i \in incompatibilities(c, t) : i.breaking
  BY <1>0 DEF rollback_limit
<1>2. (\E i \in incompatibilities(c, t) : i.breaking)
        <=> \/ t.protocol > c.protocol \/ t.server.major > c.server.major \/ t.framework.major > c.framework.major
            \/ \E p \in PackageNames : Breaks_package(c.packages[p], t.packages[p])
  <2> DEFINE A == Only_if(t.protocol # c.protocol, [of |-> "protocol", breaking |-> t.protocol > c.protocol])
             B == Only_if(Raises_major(c.server, t.server), [of |-> "server", breaking |-> TRUE])
             C == Only_if(Raises_major(c.framework, t.framework), [of |-> "framework", breaking |-> TRUE])
             broken == \E p \in PackageNames : Breaks_package(c.packages[p], t.packages[p])
             D == Only_if(broken, [of |-> "package", breaking |-> TRUE])
  <2>1. incompatibilities(c, t) = A \cup B \cup C \cup D
    BY DEF incompatibilities
  <2>2. (\E i \in A : i.breaking) <=> t.protocol > c.protocol
    <3> DEFINE up == t.protocol > c.protocol
    <3>1. up => t.protocol # c.protocol
      BY <1>0
    <3>2. up \in BOOLEAN
      BY <1>0
    <3>3. [of |-> "protocol", breaking |-> up].breaking = up
      OBVIOUS
    <3> HIDE DEF up
    <3>4. A = IF t.protocol # c.protocol THEN {[of |-> "protocol", breaking |-> up]} ELSE {}
      BY DEF Only_if, up
    <3>5. (\E i \in A : i.breaking) <=> up
      BY <3>1, <3>2, <3>3, <3>4
    <3> QED BY <3>5 DEF up
  <2>3. (\E i \in B : i.breaking) <=> t.server.major > c.server.major
    BY DEF Only_if, Raises_major
  <2>4. (\E i \in C : i.breaking) <=> t.framework.major > c.framework.major
    BY DEF Only_if, Raises_major
  <2> HIDE DEF broken
  <2>5. (\E i \in D : i.breaking) <=> broken
    BY DEF Only_if
  <2> HIDE DEF A, B, C, D
  <2> QED BY <2>1, <2>2, <2>3, <2>4, <2>5 DEF broken
<1> QED BY <1>0, <1>1, <1>2 DEF Harmless

(* Every two graphs of versions have consistent plans there, back and on. *)
LEMMA UpgradesInvGives == UpgradesInv => PlansConsistent
<1> SUFFICES ASSUME UpgradesInv PROVE PlansConsistent
  OBVIOUS
<1> DEFINE c == fromGraph
           t == toGraph
<1>0. c \in UpgradeGraph /\ t \in UpgradeGraph
  BY DEF UpgradesInv
<1> HIDE DEF c, t
<1>v. \A v \in SemVers : v.major \in Nat /\ v.minor \in Nat
  BY UpgradeAssumption
<1>1. /\ c.protocol \in Nat /\ c.db \in Nat /\ c.server.major \in Nat /\ c.framework.major \in Nat
      /\ t.protocol \in Nat /\ t.db \in Nat /\ t.server.major \in Nat /\ t.framework.major \in Nat
      /\ \A p \in PackageNames : c.packages[p] \in SemVers \cup {NoVersion} /\ t.packages[p] \in SemVers \cup {NoVersion}
  BY <1>0, GraphTypes
<1>2. c.db # t.db => {rollback_limit(c, t), rollback_limit(t, c)} = {"Impossible", "Conditional"}
  <2>1. CASE t.db < c.db
    <3>1. rollback_limit(c, t) = "Impossible"
      BY <1>1, <2>1 DEF rollback_limit
    <3>2. rollback_limit(t, c) = "Conditional"
      BY <1>1, <2>1 DEF rollback_limit
    <3> QED BY <3>1, <3>2
  <2>2. CASE c.db < t.db
    <3>1. rollback_limit(c, t) = "Conditional"
      BY <1>1, <2>2 DEF rollback_limit
    <3>2. rollback_limit(t, c) = "Impossible"
      BY <1>1, <2>2 DEF rollback_limit
    <3> QED BY <3>1, <3>2
  <2> QED BY <1>1, <2>1, <2>2
<1>3. ASSUME rollback_limit(c, t) = "Safe", rollback_limit(t, c) = "Safe"
      PROVE  /\ c.db = t.db /\ c.protocol = t.protocol
             /\ c.server.major = t.server.major /\ c.framework.major = t.framework.major
             /\ \A p \in PackageNames : {c.packages[p], t.packages[p]} \subseteq SemVers =>
                  /\ c.packages[p].major = t.packages[p].major
                  /\ c.packages[p].major = 0 => c.packages[p].minor = t.packages[p].minor
  <2>1. Harmless(c, t) /\ Harmless(t, c)
    BY <1>0, <1>3, SafeIs
  <2>2. ASSUME NEW p \in PackageNames, {c.packages[p], t.packages[p]} \subseteq SemVers
        PROVE  /\ c.packages[p].major = t.packages[p].major
               /\ c.packages[p].major = 0 => c.packages[p].minor = t.packages[p].minor
    <3> DEFINE v == c.packages[p]
               w == t.packages[p]
    <3>1. v \in SemVers /\ w \in SemVers /\ v # NoVersion /\ w # NoVersion
      BY <2>2, UpgradeAssumption
    <3>2. ~Breaks_package(v, w) /\ ~Breaks_package(w, v)
      BY <2>1 DEF Harmless
    <3> HIDE DEF v, w
    <3>3. v.major = w.major /\ (v.major = 0 => v.minor = w.minor)
      BY <1>v, <3>1, <3>2 DEF Breaks_package, Raises_major
    <3> QED BY <3>3 DEF v, w
  <2>3. c.db = t.db /\ c.protocol = t.protocol
        /\ c.server.major = t.server.major /\ c.framework.major = t.framework.major
    BY <1>1, <2>1 DEF Harmless
  <2> QED BY <2>2, <2>3
<1>4. ASSUME rollback_limit(c, t) = "Safe", ~Drops_package(c, t), NEW u \in One_change(t), rollback_limit(t, u) = "Safe"
      PROVE  rollback_limit(c, u) = "Safe"
  <2>1. u \in UpgradeGraph
    BY <1>0, OneChangeTyped
  <2>2. Harmless(c, t) /\ Harmless(t, u)
    BY <1>0, <1>4, <2>1, SafeIs
  <2>3. /\ u.protocol \in Nat /\ u.db \in Nat /\ u.server.major \in Nat /\ u.framework.major \in Nat
        /\ \A p \in PackageNames : u.packages[p] \in SemVers \cup {NoVersion}
    BY <2>1, GraphTypes
  <2>4. ASSUME NEW p \in PackageNames PROVE ~Breaks_package(c.packages[p], u.packages[p])
    <3> DEFINE v == c.packages[p]
               w == t.packages[p]
               x == u.packages[p]
    <3>1. v \in SemVers \cup {NoVersion} /\ w \in SemVers \cup {NoVersion} /\ x \in SemVers \cup {NoVersion}
      BY <1>1, <2>3
    <3>2. ~Breaks_package(v, w) /\ ~Breaks_package(w, x) /\ (v = NoVersion \/ w # NoVersion)
      BY <1>4, <2>2 DEF Harmless, Drops_package
    <3> HIDE DEF v, w, x
    <3>3. ~Breaks_package(v, x)
      BY <1>v, <3>1, <3>2 DEF Breaks_package, Raises_major
    <3> QED BY <3>3 DEF v, x
  <2>5. /\ u.db = c.db /\ u.protocol <= c.protocol
        /\ u.server.major <= c.server.major /\ u.framework.major <= c.framework.major
    BY <1>1, <2>2, <2>3 DEF Harmless
  <2>6. Harmless(c, u)
    BY <2>4, <2>5 DEF Harmless
  <2> QED BY <1>0, <2>1, <2>6, SafeIs
<1>5. t.protocol > c.protocol => client_update(c, t) = "mandatory"
  BY <1>1 DEF client_update
<1>6. c = t => incompatibilities(c, t) = {} /\ restart_requirement(c, t) = 0 /\ client_update(c, t) = "none"
  <2> SUFFICES ASSUME c = t
               PROVE  incompatibilities(c, c) = {} /\ restart_requirement(c, c) = 0 /\ client_update(c, c) = "none"
    OBVIOUS
  <2>1. ~Raises_major(c.server, c.server) /\ ~Raises_major(c.framework, c.framework)
    BY <1>1 DEF Raises_major
  <2>2. \A p \in PackageNames : ~Breaks_package(c.packages[p], c.packages[p])
    <3> SUFFICES ASSUME NEW p \in PackageNames PROVE ~Breaks_package(c.packages[p], c.packages[p])
      OBVIOUS
    <3> DEFINE v == c.packages[p]
    <3>1. v \in SemVers \cup {NoVersion}
      BY <1>1
    <3> HIDE DEF v
    <3>2. ~Breaks_package(v, v)
      BY <1>v, <3>1 DEF Breaks_package, Raises_major
    <3> QED BY <3>2 DEF v
  <2>3. incompatibilities(c, c) = {}
    BY <2>1, <2>2 DEF incompatibilities, Only_if
  <2>4. restart_requirement(c, c) = Max({0})
    <3>1. {0} \cup Only_if(packages_changed(c, c), 1)
              \cup Only_if(c.protocol # c.protocol \/ c.server # c.server \/ Raises_major(c.framework, c.framework), 2)
              \cup Only_if(c.db # c.db, 3) = {0}
      BY <2>1 DEF Only_if, packages_changed
    <3> QED BY <3>1 DEF restart_requirement
  <2>5. Max({0}) = 0
    BY DEF Max
  <2>6. client_update(c, c) = "none"
    BY <1>1 DEF client_update
  <2> QED BY <2>3, <2>4, <2>5, <2>6
<1>7. c.framework = t.framework /\ c.packages = t.packages => restart_requirement(c, t) = restart_requirement(t, c)
  <2> SUFFICES ASSUME c.framework = t.framework, c.packages = t.packages
               PROVE  restart_requirement(c, t) = restart_requirement(t, c)
    OBVIOUS
  <2>1. Only_if(packages_changed(c, t), 1) = Only_if(packages_changed(t, c), 1)
    BY DEF packages_changed
  <2>2. Only_if(t.protocol # c.protocol \/ t.server # c.server \/ Raises_major(c.framework, t.framework), 2)
        = Only_if(c.protocol # t.protocol \/ c.server # t.server \/ Raises_major(t.framework, c.framework), 2)
    BY <1>1 DEF Only_if, Raises_major
  <2>3. Only_if(t.db # c.db, 3) = Only_if(c.db # t.db, 3)
    BY DEF Only_if
  <2> QED BY <2>1, <2>2, <2>3 DEF restart_requirement
<1> QED BY <1>2, <1>3, <1>4, <1>5, <1>6, <1>7 DEF PlansConsistent, c, t

-----------------------------------------------------------------------------
(* The migration report. *)

(* What was found is what the files scanned so far hold. *)
Scanned == IF phase \in {"idle", "failed"} THEN {} ELSE ScriptFiles \ (unread \cup skipped)

FlavorNames == {"esx", "qbcore", "qbox"}

(* What a scan finds in a file. *)
Found(uses) == [c \in Calls |-> match_indices(uses, c)]

MigrateInv ==
    /\ scripts \in [ScriptFiles -> [Calls -> Nat]] /\ findings \in [ScriptFiles -> [Calls -> Nat]]
    /\ unread \subseteq ScriptFiles /\ skipped \subseteq ScriptFiles /\ unread \cap skipped = {}
    /\ phase \in {"idle", "scanning", "done", "failed"}
    /\ phase \in {"idle", "failed"} => skipped = {}
    /\ phase = "done" => unread = {}
    /\ \A f \in ScriptFiles : findings[f] = IF f \in Scanned THEN Found(scripts[f]) ELSE NoCalls[f]
    /\ flavors \in Seq(FlavorNames) /\ IsInjective(flavors)
    /\ ToSet(flavors) = UNION {detect_flavor(scripts[f]) : f \in Scanned}

LEMMA MatchesCount ==
    \A uses \in [Calls -> Nat], c \in Calls :
        /\ match_indices(uses, c) \in Nat /\ match_indices(uses, c) >= uses[c]
        /\ c # "ESX.GetPlayerFromId" => match_indices(uses, c) = uses[c]
<1> SUFFICES ASSUME NEW uses \in [Calls -> Nat], NEW c \in Calls
             PROVE  /\ match_indices(uses, c) \in Nat /\ match_indices(uses, c) >= uses[c]
                    /\ c # "ESX.GetPlayerFromId" => match_indices(uses, c) = uses[c]
  OBVIOUS
<1> DEFINE a == uses[c]
           b == uses["ESX.GetPlayerFromIdentifier"]
<1>1. a \in Nat /\ b \in Nat
  BY DEF Calls
<1>2. match_indices(uses, c) = a + IF c = "ESX.GetPlayerFromId" THEN b ELSE 0
  BY DEF match_indices
<1> HIDE DEF a, b
<1>3. /\ match_indices(uses, c) \in Nat /\ match_indices(uses, c) >= a
      /\ c # "ESX.GetPlayerFromId" => match_indices(uses, c) = a
  BY <1>1, <1>2
<1> QED BY <1>3 DEF a

LEMMA NoCallsType == NoCalls \in [ScriptFiles -> [Calls -> Nat]]
BY DEF NoCalls

LEMMA MigrateStep == MigrateInv /\ [MigrateNext]_migrateVars => MigrateInv'
<1> SUFFICES ASSUME MigrateInv, [MigrateNext]_migrateVars PROVE MigrateInv'
  OBVIOUS
<1>0. /\ scripts \in [ScriptFiles -> [Calls -> Nat]] /\ findings \in [ScriptFiles -> [Calls -> Nat]]
      /\ unread \subseteq ScriptFiles /\ skipped \subseteq ScriptFiles /\ unread \cap skipped = {}
      /\ flavors \in Seq(FlavorNames) /\ IsInjective(flavors)
      /\ \A f \in ScriptFiles : findings[f] = IF f \in Scanned THEN Found(scripts[f]) ELSE NoCalls[f]
      /\ ToSet(flavors) = UNION {detect_flavor(scripts[f]) : f \in Scanned}
  BY DEF MigrateInv
<1>1. ASSUME phase = "idle", NEW content \in [ScriptFiles -> [Calls -> 0..MaxUses]], NEW kind \in Manifests,
             begin_scan(content, kind)
      PROVE  MigrateInv'
  <2>1. /\ scripts' = content /\ unread' = ScriptFiles /\ phase' = "scanning" /\ skipped = {}
        /\ UNCHANGED <<skipped, findings, flavors>>
    BY <1>1 DEF begin_scan, MigrateInv
  <2>2. Scanned = {} /\ Scanned' = {}
    BY <1>1, <2>1 DEF Scanned
  <2>3. content \in [ScriptFiles -> [Calls -> Nat]]
    <3>1. 0..MaxUses \subseteq Nat
      BY MigrateAssumption
    <3> QED BY <3>1
  <2>4. \A f \in ScriptFiles : findings'[f] = NoCalls[f]
    BY <1>0, <2>1, <2>2
  <2>5. ToSet(flavors') = {}
    BY <1>0, <2>1, <2>2
  <2> QED BY <1>0, <2>1, <2>2, <2>3, <2>4, <2>5 DEF MigrateInv
<1>1f. ASSUME phase = "idle", cannot_scan PROVE MigrateInv'
  <2>1. phase' = "failed" /\ skipped = {} /\ UNCHANGED <<scripts, unread, skipped, findings, flavors>>
    BY <1>1f DEF cannot_scan, MigrateInv
  <2>2. Scanned' = Scanned
    BY <1>1f, <2>1 DEF Scanned
  <2> QED BY <1>0, <2>1, <2>2 DEF MigrateInv
<1>2. ASSUME NEW f \in ScriptFiles, scan_file(f) PROVE MigrateInv'
  <2> DEFINE now == [c \in Calls |-> findings[f][c] + match_indices(scripts[f], c)]
  <2>1. /\ phase = "scanning" /\ f \in unread /\ unread' = unread \ {f}
        /\ findings' = [findings EXCEPT ![f] = now]
        /\ UNCHANGED <<scripts, skipped, phase>>
    BY <1>2 DEF scan_file
  <2>2. f \notin Scanned /\ Scanned' = Scanned \cup {f}
    BY <1>0, <2>1 DEF Scanned
  <2>3. now = Found(scripts[f]) /\ now \in [Calls -> Nat]
    <3>1. findings[f] = NoCalls[f] /\ scripts[f] \in [Calls -> Nat]
      BY <1>0, <2>2
    <3>2. \A c \in Calls : match_indices(scripts[f], c) \in Nat
      BY <3>1, MatchesCount
    <3>3. \A c \in Calls : findings[f][c] = 0
      BY <3>1 DEF NoCalls
    <3>4. \A c \in Calls : findings[f][c] + match_indices(scripts[f], c) = match_indices(scripts[f], c)
      BY <3>2, <3>3
    <3> QED BY <3>2, <3>4 DEF Found
  <2> HIDE DEF now
  <2>4. findings' \in [ScriptFiles -> [Calls -> Nat]]
        /\ \A g \in ScriptFiles : findings'[g] = IF g \in Scanned' THEN Found(scripts[g]) ELSE NoCalls[g]
    BY <1>0, <2>1, <2>2, <2>3
  <2>5. UNION {detect_flavor(scripts[g]) : g \in Scanned'} = ToSet(flavors) \cup detect_flavor(scripts[f])
    BY <1>0, <2>2
  <2>6. /\ flavors' \in Seq(FlavorNames) /\ IsInjective(flavors')
        /\ ToSet(flavors') = ToSet(flavors) \cup detect_flavor(scripts[f])
    <3>1. CASE detect_flavor(scripts[f]) \subseteq ToSet(flavors) /\ UNCHANGED flavors
      BY <1>0, <3>1
    <3>2. ASSUME NEW x \in detect_flavor(scripts[f]), x \notin ToSet(flavors), flavors' = Append(flavors, x)
          PROVE  /\ flavors' \in Seq(FlavorNames) /\ IsInjective(flavors')
                 /\ ToSet(flavors') = ToSet(flavors) \cup detect_flavor(scripts[f])
      <4>1. x \in FlavorNames /\ detect_flavor(scripts[f]) = {x}
        BY <3>2 DEF detect_flavor, FlavorNames
      <4>2. Append(flavors, x) \in Seq(FlavorNames) /\ IsInjective(Append(flavors, x))
            /\ ToSet(Append(flavors, x)) = ToSet(flavors) \cup {x}
        BY <1>0, <3>2, <4>1, AppendNew
      <4> QED BY <3>2, <4>1, <4>2
    <3>3. \/ \E x \in detect_flavor(scripts[f]) : x \notin ToSet(flavors) /\ flavors' = Append(flavors, x)
          \/ detect_flavor(scripts[f]) \subseteq ToSet(flavors) /\ UNCHANGED flavors
      BY <1>2 DEF scan_file
    <3> QED BY <3>1, <3>2, <3>3
  <2> QED BY <1>0, <2>1, <2>2, <2>4, <2>5, <2>6 DEF MigrateInv
<1>3. ASSUME NEW f \in ScriptFiles, skip_file(f) PROVE MigrateInv'
  <2>1. /\ phase = "scanning" /\ f \in unread /\ unread' = unread \ {f} /\ skipped' = skipped \cup {f}
        /\ UNCHANGED <<scripts, findings, flavors, phase>>
    BY <1>3 DEF skip_file
  <2>2. Scanned' = Scanned
    BY <2>1 DEF Scanned
  <2> QED BY <1>0, <2>1, <2>2 DEF MigrateInv
<1>4. CASE finish_scan
  <2>1. phase = "scanning" /\ unread = {} /\ phase' = "done" /\ UNCHANGED <<scripts, unread, skipped, findings, flavors>>
    BY <1>4 DEF finish_scan
  <2>2. Scanned' = Scanned
    BY <2>1 DEF Scanned
  <2> QED BY <1>0, <2>1, <2>2 DEF MigrateInv
<1>5. CASE UNCHANGED migrateVars
  <2>1. Scanned' = Scanned
    BY <1>5 DEF migrateVars, Scanned
  <2> QED BY <1>5, <2>1 DEF migrateVars, MigrateInv
<1> QED BY <1>1, <1>1f, <1>2, <1>3, <1>4, <1>5 DEF MigrateNext

(* A count of findings is zero exactly when there are none. *)
LEMMA CountZero ==
    ASSUME MigrateInv, NEW C \in SUBSET Calls
    PROVE  /\ severity_count(C) \in Nat
           /\ severity_count(C) = 0 <=> \A f \in ScriptFiles, c \in C : findings[f][c] = 0
<1> DEFINE row == [f \in ScriptFiles |-> SumOver(C, findings[f])]
<1>1. IsFiniteSet(ScriptFiles) /\ IsFiniteSet(C)
  <2> DEFINE esx == {"ESX.GetPlayerFromId"} \cup {"ESX.GetPlayerFromIdentifier"}
             qb == {"QBCore.Functions.CreateBill"} \cup {"Qbox."}
             other == {"RegisterNetEvent"} \cup {"Citizen.Wait"}
  <2>1. \A x, y : IsFiniteSet({x} \cup {y})
    BY FS_Singleton, FS_Union
  <2>2. IsFiniteSet(esx) /\ IsFiniteSet(qb) /\ IsFiniteSet(other)
    BY <2>1
  <2>4. Calls = (esx \cup qb) \cup other
    BY DEF Calls
  <2> HIDE DEF esx, qb, other
  <2>3. IsFiniteSet(esx \cup qb)
    BY <2>2, FS_Union
  <2>5. IsFiniteSet(Calls)
    BY <2>2, <2>3, <2>4, FS_Union
  <2> QED BY <2>5, FS_Subset, MigrateAssumption
<1> HIDE DEF Calls
<1>2. \A f \in ScriptFiles : \A c \in C : findings[f][c] \in Nat
  BY DEF MigrateInv
<1>3. ASSUME NEW f \in ScriptFiles
      PROVE  row[f] \in Nat /\ (row[f] = 0 <=> \A c \in C : findings[f][c] = 0)
  <2>1. row[f] = SumOver(C, findings[f])
    OBVIOUS
  <2>2. \A c \in C : findings[f][c] \in Nat
    BY <1>2
  <2>3. SumOver(C, findings[f]) \in Nat
    BY <1>1, <2>2, SumOverNat
  <2>4. \A c \in C : findings[f][c] <= SumOver(C, findings[f])
    BY <1>1, <2>2, SumOverAbove
  <2>5. ASSUME \A c \in C : findings[f][c] = 0 PROVE SumOver(C, findings[f]) = 0
    <3>1. SumOver(C, findings[f]) = 0 * Cardinality(C)
      BY <1>1, <2>5, SumOverConstant
    <3>2. Cardinality(C) \in Nat
      BY <1>1, FS_CardinalityType
    <3> QED BY <3>1, <3>2
  <2>6. ASSUME SumOver(C, findings[f]) = 0, NEW c \in C PROVE findings[f][c] = 0
    BY <2>2, <2>4, <2>6
  <2> QED BY <2>1, <2>3, <2>5, <2>6
<1>4. severity_count(C) = SumOver(ScriptFiles, row)
  BY DEF severity_count
<1> HIDE DEF row
<1>5. \A f \in ScriptFiles : row[f] \in Nat
  BY <1>3
<1>6. SumOver(ScriptFiles, row) \in Nat
  BY <1>1, <1>5, SumOverNat
<1>7. \A f \in ScriptFiles : row[f] <= SumOver(ScriptFiles, row)
  BY <1>1, <1>5, SumOverAbove
<1>8. ASSUME \A f \in ScriptFiles : row[f] = 0 PROVE SumOver(ScriptFiles, row) = 0
  <2>1. SumOver(ScriptFiles, row) = 0 * Cardinality(ScriptFiles)
    BY <1>1, <1>8, SumOverConstant
  <2>2. Cardinality(ScriptFiles) \in Nat
    BY <1>1, FS_CardinalityType
  <2> QED BY <2>1, <2>2
<1>9. ASSUME SumOver(ScriptFiles, row) = 0, NEW f \in ScriptFiles PROVE row[f] = 0
  BY <1>5, <1>7, <1>9
<1> QED BY <1>3, <1>4, <1>6, <1>8, <1>9

LEMMA MigrateInvGives == MigrateInv => ReportComplete
<1> SUFFICES ASSUME MigrateInv, phase = "done" PROVE ReportComplete
  BY DEF ReportComplete
<1> DEFINE C == {c \in Calls : Blocks(Severity_of(c))}
           P == {c \in Calls : Severity_of(c) = "Partial"}
<1>1. Scanned = ScriptFiles \ skipped
  BY DEF Scanned, MigrateInv
<1>2. C \in SUBSET Calls /\ P \in SUBSET Calls
  OBVIOUS
<1>3. severity_count(C) \in Nat /\ (severity_count(C) = 0 <=> \A f \in ScriptFiles, c \in C : findings[f][c] = 0)
  BY <1>2, CountZero
<1>4. manifest_findings \in {0, 1} /\ Blocking = severity_count(C) + manifest_findings
  BY DEF Blocking, manifest_findings
<1>5. \A f \in ScriptFiles, c \in Calls : findings[f][c] \in Nat
  BY DEF MigrateInv
<1>6. \A c : c \in C <=> c \in Calls /\ Severity_of(c) \in {"Unsupported", "FivemOnly"}
  BY DEF Blocks
<1> HIDE DEF C
<1>7. exit_code = 2 <=> Blocking # 0
  <2>1. exit_code = 2 <=> manifest_findings > 0 \/ \E f \in ScriptFiles, c \in Calls :
                            findings[f][c] > 0 /\ Severity_of(c) \in {"Unsupported", "FivemOnly"}
    BY DEF exit_code
  <2>2. (\E f \in ScriptFiles, c \in Calls : findings[f][c] > 0 /\ Severity_of(c) \in {"Unsupported", "FivemOnly"})
        <=> ~\A f \in ScriptFiles, c \in C : findings[f][c] = 0
    BY <1>5, <1>6
  <2>3. Blocking # 0 <=> manifest_findings > 0 \/ severity_count(C) # 0
    BY <1>3, <1>4
  <2> QED BY <1>3, <2>1, <2>2, <2>3
<1>8. difficulty \notin {"Trivial", "Easy"} <=> Blocking # 0
  BY DEF difficulty
<1>9. /\ \A f \in ScriptFiles : findings[f] = IF f \in ScriptFiles \ skipped THEN Found(scripts[f]) ELSE NoCalls[f]
      /\ scripts \in [ScriptFiles -> [Calls -> Nat]]
      /\ ToSet(flavors) = UNION {detect_flavor(scripts[f]) : f \in ScriptFiles \ skipped} /\ IsInjective(flavors)
  BY <1>1 DEF MigrateInv
<1>10. ASSUME NEW f \in ScriptFiles \ skipped, NEW c \in Calls
       PROVE  findings[f][c] >= scripts[f][c] /\ (Severity_of(c) # "Supported" => findings[f][c] = scripts[f][c])
  <2>1. findings[f][c] = match_indices(scripts[f], c) /\ scripts[f] \in [Calls -> Nat]
    BY <1>9 DEF Found
  <2>2. Severity_of("ESX.GetPlayerFromId") = "Supported"
    BY DEF Severity_of
  <2> QED BY <2>1, <2>2, MatchesCount
<1>11. \A f \in ScriptFiles \ (ScriptFiles \ skipped) : findings[f] = NoCalls[f]
  BY <1>9
<1> QED BY <1>7, <1>8, <1>9, <1>10, <1>11 DEF ReportComplete

-----------------------------------------------------------------------------
(* The four machines, side by side. *)
ReleasesParts ==
    /\ UpdatesInit /\ BackupsInit /\ UpgradesInit /\ MigrateInit
    /\ [][UpdatesNext]_releaseVars /\ [][BackupsNext]_backupVars
    /\ [][UpgradesNext]_upgradeVars /\ [][MigrateNext]_migrateVars

LEMMA ReleasesStart ==
    UpdatesInit /\ BackupsInit /\ UpgradesInit /\ MigrateInit
      => UpdatesInv /\ BackupsInv /\ UpgradesInv /\ MigrateInv
<1> SUFFICES ASSUME UpdatesInit, BackupsInit, UpgradesInit, MigrateInit
             PROVE  UpdatesInv /\ BackupsInv /\ UpgradesInv /\ MigrateInv
  OBVIOUS
<1>0. <<>> \in Seq(ArtifactIds) /\ DOMAIN <<>> = {} /\ <<>> \in [{} -> Contents] /\ <<>> \in Seq(FlavorNames)
  OBVIOUS
<1>e. ToSet(<<>>) = {} /\ IsInjective(<<>>)
  BY <1>0 DEF ToSet, IsInjective
<1>1. UpdatesInv
  <2>1. installs = <<1>> /\ installed = 1
    BY DEF UpdatesInit
  <2>2. installs \in Seq(Nat) /\ Len(installs) = 1 /\ installs[1] = 1 /\ installs # <<>>
    BY <2>1
  <2>3. 1..(Len(installs) - 1) = {}
    BY <2>2
  <2>4. catalogue = <<>> /\ published = <<>> /\ firstRecord = <<>>
    BY DEF UpdatesInit
  <2> QED BY <1>0, <1>e, <2>1, <2>2, <2>3, <2>4 DEF UpdatesInv
<1>2. BackupsInv
  <2>1. <<>> \in Trees
    BY <1>0 DEF Trees
  <2> QED BY <2>1 DEF BackupsInit, BackupsInv, RestoresExact
<1>3. UpgradesInv
  BY UpgradeAssumption DEF UpgradesInit, UpgradesInv, Start_graph, UpgradeGraph, Numbers
<1>4. MigrateInv
  <2>1. Scanned = {}
    BY DEF Scanned, MigrateInit
  <2> QED BY <1>0, <1>e, <2>1, NoCallsType DEF MigrateInit, MigrateInv
<1> QED BY <1>1, <1>2, <1>3, <1>4

(* For any artifacts, versions, files and scripts: the launcher never goes *)
(* back between versions it can read, and the catalogue is immutable       *)
(* (UpdateChecker::check, validate_update); a restore is planned only of   *)
(* an archive that still holds what was saved (plan_restore); the plans of *)
(* an upgrade, of the way back and of the next step agree, for any         *)
(* semantic versions and packages (plan); and the migration report         *)
(* counts every call of every file it could read, whatever the order, with *)
(* an exit code that fits the difficulty (scan, difficulty, run).          *)
THEOREM ReleasesAlwaysSound == ReleasesParts => []ReleasesSound
<1>1. UpdatesInv /\ BackupsInv /\ UpgradesInv /\ MigrateInv => ReleasesSound
  BY UpdatesInvGives, UpgradesInvGives, MigrateInvGives DEF ReleasesSound, BackupsInv
<1> QED BY <1>1, ReleasesStart, UpdatesStep, BackupsStep, UpgradesStep, MigrateStep, PTL DEF ReleasesParts

-----------------------------------------------------------------------------
(* Sorting. *)

UpToValue(s, v) == {i \in DOMAIN s : s[i] <= v}

LEMMA PrefixCount == \A n \in Nat : IsFiniteSet(1..n) /\ Cardinality(1..n) = n
<1> SUFFICES ASSUME NEW n \in Nat PROVE IsFiniteSet(1..n) /\ Cardinality(1..n) = n
  OBVIOUS
<1> QED BY FS_Interval

(* How many elements of a list are up to v. *)
LEMMA ValueCount ==
    ASSUME NEW n \in Nat, NEW s \in [1..n -> Nat], NEW v \in Nat
    PROVE  /\ IsFiniteSet(UpToValue(s, v)) /\ Cardinality(UpToValue(s, v)) \in 0..n
           /\ \A w \in Nat : v <= w => Cardinality(UpToValue(s, v)) <= Cardinality(UpToValue(s, w))
           /\ (\A i \in 1..n : s[i] <= v) => Cardinality(UpToValue(s, v)) = n
<1>1. IsFiniteSet(1..n) /\ Cardinality(1..n) = n
  BY PrefixCount
<1>2. \A w \in Nat : UpToValue(s, w) \subseteq 1..n
  BY DEF UpToValue
<1>3. \A w \in Nat : IsFiniteSet(UpToValue(s, w)) /\ Cardinality(UpToValue(s, w)) <= n
                     /\ Cardinality(UpToValue(s, w)) \in Nat
  BY <1>1, <1>2, FS_Subset, FS_CardinalityType
<1>4. ASSUME NEW w \in Nat, v <= w PROVE Cardinality(UpToValue(s, v)) <= Cardinality(UpToValue(s, w))
  <2>1. UpToValue(s, v) \subseteq UpToValue(s, w)
    BY <1>4 DEF UpToValue
  <2> QED BY <1>3, <2>1, FS_Subset
<1>5. ASSUME \A i \in 1..n : s[i] <= v PROVE UpToValue(s, v) = 1..n
  BY <1>5 DEF UpToValue
<1> HIDE DEF UpToValue
<1>6. IsFiniteSet(UpToValue(s, v)) /\ Cardinality(UpToValue(s, v)) \in 0..n
  BY <1>3
<1>7. (\A i \in 1..n : s[i] <= v) => Cardinality(UpToValue(s, v)) = n
  BY <1>1, <1>5
<1> QED BY <1>4, <1>6, <1>7

(* A list that is not empty has a largest element. *)
LEMMA LargestEntry ==
    ASSUME NEW n \in Nat, NEW s \in [1..n -> Int], n # 0
    PROVE  \E m \in 1..n : \A i \in 1..n : s[i] <= s[m]
<1> DEFINE T == {k \in 0..n : k = 0 \/ \E m \in 1..k : \A i \in 1..k : s[i] <= s[m]}
<1>1. 0 \in T
  OBVIOUS
<1>2. ASSUME NEW k \in 1..n, k - 1 \in T PROVE k \in T
  <2>1. CASE k = 1
    <3>1. \A i \in 1..k : s[i] <= s[1]
      BY <2>1
    <3>2. 1 \in 1..k
      BY <2>1
    <3> QED BY <3>1, <3>2
  <2>2. CASE k # 1
    <3>1. PICK m \in 1..(k - 1) : \A i \in 1..(k - 1) : s[i] <= s[m]
      BY <1>2, <2>2
    <3>2. s[k] \in Int /\ s[m] \in Int /\ m \in 1..k /\ k \in 1..k
      BY <3>1
    <3>3. CASE s[k] <= s[m]
      <4>1. \A i \in 1..k : s[i] <= s[m]
        <5>1. \A i \in 1..k : i = k \/ i \in 1..(k - 1)
          OBVIOUS
        <5> QED BY <3>1, <3>3, <5>1
      <4> QED BY <3>2, <4>1
    <3>4. CASE s[m] < s[k]
      <4>1. \A i \in 1..k : s[i] <= s[k]
        <5> SUFFICES ASSUME NEW i \in 1..k PROVE s[i] <= s[k]
          OBVIOUS
        <5>1. s[i] \in Int /\ (i = k \/ i \in 1..(k - 1))
          OBVIOUS
        <5> QED BY <3>1, <3>2, <3>4, <5>1
      <4> QED BY <3>2, <4>1
    <3> QED BY <3>2, <3>3, <3>4
  <2> QED BY <2>1, <2>2
<1> HIDE DEF T
<1>3. 0..n \subseteq T
  BY <1>1, <1>2, UpTo
<1>4. n \in T
  BY <1>3
<1> QED BY <1>4 DEF T

(* What Sorted returns. *)
IsSortOf(r, s) ==
    /\ r \in [DOMAIN s -> {s[i] : i \in DOMAIN s}]
    /\ \A i, j \in DOMAIN s : i <= j => r[i] <= r[j]
    /\ \A v \in {s[i] : i \in DOMAIN s} :
         Cardinality({i \in DOMAIN s : r[i] <= v}) = Cardinality({i \in DOMAIN s : s[i] <= v})

(* Every list of numbers can be sorted: at place k is the least value that *)
(* k elements are up to. *)
LEMMA SortedExists ==
    ASSUME NEW n \in Nat, NEW s \in [1..n -> Nat]
    PROVE  \E r \in [DOMAIN s -> {s[i] : i \in DOMAIN s}] : IsSortOf(r, s)
<1> DEFINE V == {s[i] : i \in DOMAIN s}
           K(v) == Cardinality(UpToValue(s, v))
           E(k) == {v \in V : K(v) >= k}
           r == [k \in 1..n |-> Min(E(k))]
<1>1. DOMAIN s = 1..n /\ V \subseteq Nat
  OBVIOUS
<1>2. \A v \in Nat : K(v) \in 0..n
  BY ValueCount
<1>21. \A v \in Nat : K(v) \in Nat
  BY <1>2
<1>3. \A v, w \in Nat : v <= w => K(v) <= K(w)
  BY ValueCount
<1>4. ASSUME NEW k \in 1..n PROVE E(k) # {}
  <2>1. PICK m \in 1..n : \A i \in 1..n : s[i] <= s[m]
    <3>1. s \in [1..n -> Int] /\ n # 0
      OBVIOUS
    <3> QED BY <3>1, LargestEntry
  <2>2. s[m] \in V /\ s[m] \in Nat
    BY <1>1, <2>1
  <2>3. K(s[m]) = n
    BY <2>1, <2>2, ValueCount
  <2> QED BY <2>2, <2>3
<1> HIDE DEF V, K
<1>5. ASSUME NEW k \in 1..n PROVE r[k] \in V /\ K(r[k]) >= k /\ \A v \in V : K(v) >= k => r[k] <= v
  <2> DEFINE D == E(k)
  <2>1. D # {} /\ \A v \in D : v \in Int /\ 0 <= v
    BY <1>1, <1>4
  <2> HIDE DEF D
  <2>2. Min(D) \in D /\ \A v \in D : Min(D) <= v
    <3>1. 0 \in Int
      OBVIOUS
    <3> QED BY <2>1, <3>1, LeastOf
  <2>3. r[k] = Min(D)
    BY DEF D
  <2> QED BY <2>2, <2>3 DEF D
<1> HIDE DEF r, E
<1>6. \A k \in 1..n, v \in V : r[k] <= v <=> k <= K(v)
  <2> SUFFICES ASSUME NEW k \in 1..n, NEW v \in V PROVE r[k] <= v <=> k <= K(v)
    OBVIOUS
  <2>1. r[k] \in Nat /\ v \in Nat /\ K(r[k]) >= k
    BY <1>1, <1>5
  <2>2. K(v) \in Nat /\ K(r[k]) \in Nat
    BY <1>21, <2>1
  <2>3. r[k] <= v => K(r[k]) <= K(v)
    BY <1>3, <2>1
  <2>4. K(v) >= k => r[k] <= v
    BY <1>5
  <2> QED BY <2>1, <2>2, <2>3, <2>4
<1>7. r \in [DOMAIN s -> V]
  BY <1>1, <1>5 DEF r
<1>8. \A i, j \in 1..n : i <= j => r[i] <= r[j]
  <2> SUFFICES ASSUME NEW i \in 1..n, NEW j \in 1..n, i <= j PROVE r[i] <= r[j]
    OBVIOUS
  <2>1. r[j] \in V /\ K(r[j]) >= j /\ r[j] \in Nat
    BY <1>1, <1>5
  <2>2. K(r[j]) \in Nat
    BY <1>21, <2>1
  <2> QED BY <1>6, <2>1, <2>2
<1>9. ASSUME NEW v \in V PROVE Cardinality({i \in DOMAIN s : r[i] <= v}) = K(v)
  <2>1. K(v) \in Nat /\ K(v) <= n
    <3>1. v \in Nat
      BY <1>1
    <3>2. K(v) \in 0..n
      BY <1>2, <3>1
    <3> QED BY <3>2
  <2>2. {i \in DOMAIN s : r[i] <= v} = 1..K(v)
    BY <1>1, <1>6, <2>1
  <2> QED BY <2>1, <2>2, PrefixCount
<1>10. \A v : K(v) = Cardinality({i \in DOMAIN s : s[i] <= v})
  BY DEF K, UpToValue
<1> QED BY <1>1, <1>7, <1>8, <1>9, <1>10 DEF IsSortOf, V

(* The sorted list: at place k is the least value that k elements of the   *)
(* list are up to. *)
LEMMA SortedIs ==
    ASSUME NEW n \in Nat, NEW s \in [1..n -> Nat]
    PROVE  /\ Sorted(s) \in [1..n -> Nat]
           /\ \A i, j \in 1..n : i <= j => Sorted(s)[i] <= Sorted(s)[j]
           /\ \A k \in 1..n : /\ \E i \in 1..n : Sorted(s)[k] = s[i]
                              /\ Cardinality(UpToValue(s, Sorted(s)[k])) >= k
                              /\ \A i \in 1..n : Cardinality(UpToValue(s, s[i])) >= k => Sorted(s)[k] <= s[i]
<1> DEFINE V == {s[i] : i \in DOMAIN s}
           r == Sorted(s)
<1>1. IsSortOf(r, s)
  <2>1. \E x \in [DOMAIN s -> V] : IsSortOf(x, s)
    BY SortedExists
  <2>2. r = CHOOSE x \in [DOMAIN s -> V] :
              /\ \A i, j \in DOMAIN s : i <= j => x[i] <= x[j]
              /\ \A v \in V : Cardinality({i \in DOMAIN s : x[i] <= v}) = Cardinality({i \in DOMAIN s : s[i] <= v})
    BY DEF Sorted
  <2> HIDE DEF r
  <2> QED BY <2>1, <2>2 DEF IsSortOf
<1>2. DOMAIN s = 1..n /\ \A v \in V : v \in Nat
  OBVIOUS
<1> HIDE DEF r
<1>3. r \in [1..n -> Nat] /\ \A i, j \in 1..n : i <= j => r[i] <= r[j]
  BY <1>1, <1>2 DEF IsSortOf
<1>4. \A k \in 1..n : \E i \in 1..n : r[k] = s[i]
  BY <1>1, <1>2 DEF IsSortOf
<1>5. \A i \in 1..n : Cardinality(UpToValue(r, s[i])) = Cardinality(UpToValue(s, s[i]))
  <2>1. DOMAIN r = DOMAIN s
    BY <1>2, <1>3
  <2> QED BY <1>1, <1>2, <2>1 DEF IsSortOf, UpToValue
<1>6. ASSUME NEW k \in 1..n PROVE Cardinality(UpToValue(r, r[k])) >= k
  <2>1. 1..k \subseteq UpToValue(r, r[k])
    BY <1>2, <1>3 DEF UpToValue
  <2>2. IsFiniteSet(UpToValue(r, r[k])) /\ Cardinality(UpToValue(r, r[k])) \in Nat
    <3>1. r[k] \in Nat
      BY <1>3
    <3> QED BY <1>3, <3>1, ValueCount
  <2>3. Cardinality(1..k) = k
    BY PrefixCount
  <2> QED BY <2>1, <2>2, <2>3, FS_Subset
<1>7. ASSUME NEW k \in 1..n, NEW i \in 1..n, Cardinality(UpToValue(s, s[i])) >= k PROVE r[k] <= s[i]
  <2> SUFFICES ASSUME ~(r[k] <= s[i]) PROVE FALSE
    OBVIOUS
  <2>1. r[k] \in Nat /\ s[i] \in Nat /\ s[i] < r[k]
    BY <1>3
  <2>2. UpToValue(r, s[i]) \subseteq 1..(k - 1)
    <3> SUFFICES ASSUME NEW j \in 1..n, r[j] <= s[i] PROVE j \in 1..(k - 1)
      BY <1>3 DEF UpToValue
    <3>1. ~(k <= j)
      BY <1>3, <2>1
    <3> QED BY <3>1
  <2>3. IsFiniteSet(1..(k - 1)) /\ Cardinality(1..(k - 1)) = k - 1
    <3>1. k - 1 \in Nat
      OBVIOUS
    <3> QED BY <3>1, PrefixCount
  <2>4. Cardinality(UpToValue(r, s[i])) <= k - 1
    BY <2>2, <2>3, FS_Subset
  <2>5. Cardinality(UpToValue(r, s[i])) \in Nat
    <3>1. Cardinality(UpToValue(r, s[i])) \in 0..n
      BY <1>3, <2>1, ValueCount
    <3> QED BY <3>1
  <2> QED BY <1>5, <1>7, <2>4, <2>5
<1> QED BY <1>3, <1>4, <1>5, <1>6, <1>7 DEF r

(* A window on a list stays one when both grow by an entry. *)
LEMMA NewestKept ==
    ASSUME NEW T, NEW short \in Seq(T), NEW long \in Seq(T), NEW cap \in Nat \ {0}, NewestOf(short, long, cap), NEW x \in T
    PROVE  /\ Append(IF Len(short) >= cap THEN Tail(short) ELSE short, x) \in Seq(T)
           /\ NewestOf(Append(IF Len(short) >= cap THEN Tail(short) ELSE short, x), Append(long, x), cap)
<1> DEFINE m == Len(short)
           n == Len(long)
           kept == IF m >= cap THEN Tail(short) ELSE short
           new == Append(kept, x)
           all == Append(long, x)
<1>1. /\ m \in Nat /\ n \in Nat /\ all \in Seq(T) /\ Len(all) = n + 1 /\ all[n + 1] = x
      /\ \A i \in 1..n : all[i] = long[i]
  OBVIOUS
<1>2. m = (IF n <= cap THEN n ELSE cap) /\ \A i \in 1..m : short[i] = long[(n - m) + i]
  <2>1. m = Min({n, cap}) /\ DOMAIN short = 1..m
    BY DEF NewestOf
  <2>2. Min({n, cap}) = IF n <= cap THEN n ELSE cap
    BY <1>1, MinOfPair
  <2> QED BY <2>1, <2>2 DEF NewestOf
<1>3. CASE m >= cap
  <2>1. m = cap /\ n >= cap /\ m # 0
    BY <1>1, <1>2, <1>3
  <2>2. short # <<>>
    BY <2>1
  <2>3. kept \in Seq(T) /\ Len(kept) = m - 1 /\ \A i \in 1..(m - 1) : kept[i] = short[i + 1]
    BY <1>3, <2>2
  <2>4. new \in Seq(T) /\ Len(new) = m /\ new[m] = x /\ \A i \in 1..(m - 1) : new[i] = short[i + 1]
    BY <1>1, <2>1, <2>3
  <2> HIDE DEF new, all, kept, m, n
  <2>5. \A i \in 1..m : new[i] = all[((n + 1) - m) + i]
    <3> SUFFICES ASSUME NEW i \in 1..m PROVE new[i] = all[((n + 1) - m) + i]
      OBVIOUS
    <3>1. CASE i = m
      <4>1. ((n + 1) - m) + i = n + 1
        BY <1>1, <3>1
      <4> QED BY <1>1, <2>4, <3>1, <4>1
    <3>2. CASE i # m
      <4>0. i \in Nat /\ i >= 1 /\ i < m /\ m <= n
        BY <1>1, <2>1, <3>2
      <4>1. i \in 1..(m - 1) /\ i + 1 \in 1..m /\ (n - m) + (i + 1) = ((n + 1) - m) + i /\ (n - m) + (i + 1) \in 1..n
        BY <1>1, <4>0
      <4> QED BY <1>1, <1>2, <2>4, <4>1
    <3> QED BY <3>1, <3>2
  <2>6. Min({n + 1, cap}) = m
    <3>1. n + 1 \in Int /\ cap \in Int
      BY <1>1
    <3>2. Min({n + 1, cap}) = IF n + 1 <= cap THEN n + 1 ELSE cap
      BY <3>1, MinOfPair
    <3> QED BY <1>1, <2>1, <3>2
  <2>7. NewestOf(new, all, cap)
    <3>1. DOMAIN new = 1..m
      BY <2>4
    <3> QED BY <1>1, <2>4, <2>5, <2>6, <3>1 DEF NewestOf
  <2> QED BY <2>4, <2>7 DEF new, all, kept, m
<1>4. CASE ~(m >= cap)
  <2>1. m = n /\ n < cap
    BY <1>1, <1>2, <1>4
  <2>2. kept = short
    BY <1>4
  <2>3. new \in Seq(T) /\ Len(new) = n + 1 /\ new[n + 1] = x /\ \A i \in 1..n : new[i] = short[i]
    BY <1>1, <2>1, <2>2
  <2> HIDE DEF new, all, kept, m, n
  <2>4. \A i \in 1..(n + 1) : new[i] = all[i]
    <3> SUFFICES ASSUME NEW i \in 1..(n + 1) PROVE new[i] = all[i]
      OBVIOUS
    <3>1. CASE i = n + 1
      BY <1>1, <2>3, <3>1
    <3>2. CASE i # n + 1
      <4>1. i \in 1..n /\ i \in 1..m /\ (n - m) + i = i
        BY <1>1, <2>1, <3>2
      <4>2. new[i] = short[i] /\ all[i] = long[i]
        BY <1>1, <2>3, <4>1
      <4>3. short[i] = long[(n - m) + i]
        BY <1>2, <4>1
      <4> QED BY <4>1, <4>2, <4>3
    <3> QED BY <3>1, <3>2
  <2>5. Min({n + 1, cap}) = n + 1
    <3>1. n + 1 \in Int /\ cap \in Int
      BY <1>1
    <3>2. Min({n + 1, cap}) = IF n + 1 <= cap THEN n + 1 ELSE cap
      BY <3>1, MinOfPair
    <3> QED BY <1>1, <2>1, <3>2
  <2>6. NewestOf(new, all, cap)
    <3>1. DOMAIN new = 1..(n + 1) /\ \A i \in 1..(n + 1) : (Len(all) - Len(new)) + i = i
      BY <1>1, <2>3
    <3> QED BY <1>1, <2>3, <2>4, <2>5, <3>1 DEF NewestOf
  <2> QED BY <2>3, <2>6 DEF new, all, kept, m
<1> QED BY <1>3, <1>4

(* One more number counted. *)
LEMMA CountNext ==
    ASSUME NEW n \in Nat, NEW A, A \subseteq 1..n
    PROVE  IsFiniteSet(A) /\ Cardinality(A) \in Nat /\ Cardinality(A \cup {n + 1}) = Cardinality(A) + 1
<1>1. IsFiniteSet(1..n)
  BY PrefixCount
<1>2. IsFiniteSet(A) /\ Cardinality(A) \in Nat
  BY <1>1, FS_Subset, FS_CardinalityType
<1>3. n + 1 \notin A
  OBVIOUS
<1> QED BY <1>2, <1>3, FS_AddElement

-----------------------------------------------------------------------------
(* The profiler. *)

ProfilerInv ==
    /\ samples \in Seq(Nat) /\ executions \in Seq(Nat)
    /\ NewestOf(samples, executions, SAMPLE_WINDOW)
    /\ slow = Cardinality({i \in DOMAIN executions : executions[i] > SlowThreshold})

LEMMA ProfilerStep == ProfilerInv /\ [ProfilerNext]_profilerVars => ProfilerInv'
<1> SUFFICES ASSUME ProfilerInv, [ProfilerNext]_profilerVars PROVE ProfilerInv'
  OBVIOUS
<1>1. CASE UNCHANGED profilerVars
  BY <1>1 DEF profilerVars, ProfilerInv, NewestOf
<1>2. ASSUME NEW d \in Durations, observe(d) PROVE ProfilerInv'
  <2>1. d \in Nat /\ SAMPLE_WINDOW \in Nat \ {0} /\ samples \in Seq(Nat) /\ executions \in Seq(Nat)
    BY ProfilerAssumption DEF ProfilerInv
  <2>2. executions' = Append(executions, d)
        /\ samples' = Append(IF Len(samples) >= SAMPLE_WINDOW THEN Tail(samples) ELSE samples, d)
        /\ slow' = IF d > SlowThreshold THEN slow + 1 ELSE slow
    BY <1>2 DEF observe
  <2>3. samples' \in Seq(Nat) /\ NewestOf(samples', executions', SAMPLE_WINDOW)
    BY <2>1, <2>2, NewestKept DEF ProfilerInv
  <2>4. executions' \in Seq(Nat)
    BY <2>1, <2>2
  <2>5. slow' = Cardinality({i \in DOMAIN executions' : executions'[i] > SlowThreshold})
    <3> DEFINE n == Len(executions)
               A == {i \in DOMAIN executions : executions[i] > SlowThreshold}
               B == {i \in DOMAIN executions' : executions'[i] > SlowThreshold}
    <3>1. n \in Nat /\ DOMAIN executions = 1..n /\ DOMAIN executions' = 1..(n + 1)
          /\ executions'[n + 1] = d /\ \A i \in 1..n : executions'[i] = executions[i]
      BY <2>1, <2>2
    <3>2. A \subseteq 1..n /\ slow = Cardinality(A)
      BY <3>1 DEF ProfilerInv
    <3>3. \A i \in 1..(n + 1) : i \in 1..n \/ i = n + 1
      BY <3>1
    <3>4. B = IF d > SlowThreshold THEN A \cup {n + 1} ELSE A
      BY <3>1, <3>3
    <3> HIDE DEF A, B, n
    <3>5. Cardinality(A \cup {n + 1}) = Cardinality(A) + 1
      BY <3>1, <3>2, CountNext
    <3>6. slow' = Cardinality(B)
      BY <2>2, <3>2, <3>4, <3>5
    <3> QED BY <3>6 DEF B
  <2> QED BY <2>3, <2>4, <2>5 DEF ProfilerInv, NewestOf
<1> QED BY <1>1, <1>2 DEF ProfilerNext

(* The rank of a percentile is the smallest count that covers it. *)
LEMMA RankCovers ==
    ASSUME NEW n \in Nat \ {0}, NEW pct \in {50, 95, 99}
    PROVE  Rank(pct, n) + 1 \in 1..n /\ \A c \in Nat : c >= Rank(pct, n) + 1 <=> 100 * c >= pct * n
<1> DEFINE q == ((pct * n) + 99) \div 100
<1>1. q \in Int /\ 100 * q <= (pct * n) + 99 /\ (pct * n) + 99 < (100 * q) + 100
  <2>1. CASE pct = 50
    BY <2>1
  <2>2. CASE pct = 95
    BY <2>2
  <2>3. CASE pct = 99
    BY <2>3
  <2> QED BY <2>1, <2>2, <2>3
<1>2. Rank(pct, n) = Min({n - 1, Max({0, q - 1})})
  BY DEF Rank
<1> HIDE DEF q
<1>3. q \in 1..n /\ \A c \in Nat : c >= q <=> 100 * c >= pct * n
  <2>1. CASE pct = 50
    BY <1>1, <2>1
  <2>2. CASE pct = 95
    BY <1>1, <2>2
  <2>3. CASE pct = 99
    BY <1>1, <2>3
  <2> QED BY <2>1, <2>2, <2>3
<1>4. Max({0, q - 1}) = q - 1
  <2>1. q - 1 \in Int /\ 0 \in Int
    BY <1>3
  <2>2. Max({0, q - 1}) = IF 0 >= q - 1 THEN 0 ELSE q - 1
    BY <2>1, MaxOfPair
  <2> QED BY <1>3, <2>2
<1>5. Min({n - 1, q - 1}) = q - 1
  <2>1. n - 1 \in Int /\ q - 1 \in Int
    BY <1>3
  <2>2. Min({n - 1, q - 1}) = IF n - 1 <= q - 1 THEN n - 1 ELSE q - 1
    BY <2>1, MinOfPair
  <2> QED BY <1>3, <2>2
<1>6. Rank(pct, n) + 1 = q
  BY <1>2, <1>3, <1>4, <1>5
<1> QED BY <1>3, <1>6

LEMMA ProfilerInvGives == ProfilerInv => PercentilesExact
<1> SUFFICES ASSUME ProfilerInv PROVE PercentilesExact
  OBVIOUS
<1>1. ASSUME samples # <<>>, NEW pct \in {50, 95, 99}
      PROVE  percentile(pct) = Min({v \in {samples[i] : i \in DOMAIN samples} :
                 100 * Cardinality({i \in DOMAIN samples : samples[i] <= v}) >= pct * Len(samples)})
  <2> DEFINE n == Len(samples)
             k == Rank(pct, n) + 1
             V == {samples[i] : i \in DOMAIN samples}
             C(v) == Cardinality(UpToValue(samples, v))
             D == {v \in V : 100 * C(v) >= pct * n}
             w == percentile(pct)
  <2>1. n \in Nat \ {0} /\ samples \in [1..n -> Nat] /\ DOMAIN samples = 1..n /\ V \subseteq Nat
    BY <1>1 DEF ProfilerInv
  <2>2. D = {v \in V : 100 * Cardinality({i \in DOMAIN samples : samples[i] <= v}) >= pct * Len(samples)}
    BY DEF UpToValue
  <2>3. w = Sorted(samples)[k]
    BY DEF percentile
  <2> HIDE DEF n, k, w
  <2>4. k \in 1..n /\ \A c \in Nat : c >= k <=> 100 * c >= pct * n
    <3>1. n \in Nat \ {0}
      BY <2>1
    <3>2. Rank(pct, n) + 1 \in 1..n /\ \A c \in Nat : c >= Rank(pct, n) + 1 <=> 100 * c >= pct * n
      <4> DEFINE P == {50, 95, 99}
      <4>1. pct \in P
        BY <1>1
      <4>2. \A m \in Nat \ {0}, p \in P : Rank(p, m) + 1 \in 1..m /\ \A c \in Nat : c >= Rank(p, m) + 1 <=> 100 * c >= p * m
        BY RankCovers
      <4> HIDE DEF P
      <4> QED BY <3>1, <4>1, <4>2
    <3> QED BY <3>2 DEF k
  <2>5. w \in V /\ C(w) >= k /\ \A v \in V : C(v) >= k => w <= v
    <3>1. /\ \E i \in 1..n : w = samples[i]
          /\ Cardinality(UpToValue(samples, w)) >= k
          /\ \A i \in 1..n : Cardinality(UpToValue(samples, samples[i])) >= k => w <= samples[i]
      <4>1. n \in Nat
        BY <2>1
      <4>2. samples \in [1..n -> Nat]
        BY <2>1
      <4>3. \A j \in 1..n : /\ \E i \in 1..n : Sorted(samples)[j] = samples[i]
                            /\ Cardinality(UpToValue(samples, Sorted(samples)[j])) >= j
                            /\ \A i \in 1..n : Cardinality(UpToValue(samples, samples[i])) >= j => Sorted(samples)[j] <= samples[i]
        BY <4>1, <4>2, SortedIs
      <4> QED BY <2>3, <2>4, <4>3
    <3> QED BY <2>1, <3>1
  <2>6. \A v \in V : C(v) \in Nat
    <3> SUFFICES ASSUME NEW v \in V PROVE C(v) \in Nat
      OBVIOUS
    <3>1. v \in Nat /\ n \in Nat
      BY <2>1
    <3>2. C(v) \in 0..n
      BY <2>1, <3>1, ValueCount
    <3> QED BY <3>1, <3>2
  <2> HIDE DEF C, V
  <2>7. w \in D /\ \A v \in D : w <= v
    BY <2>4, <2>5, <2>6
  <2>8. \A v \in D : v \in Int /\ 0 <= v
    BY <2>1
  <2> HIDE DEF D
  <2>9. Min(D) \in D /\ \A v \in D : Min(D) <= v
    <3>1. D # {} /\ 0 \in Int
      BY <2>7
    <3> QED BY <2>8, <3>1, LeastOf
  <2>10. w = Min(D)
    <3>1. w <= Min(D) /\ Min(D) <= w /\ w \in Int /\ Min(D) \in Int
      BY <2>7, <2>8, <2>9
    <3> QED BY <3>1
  <2> QED BY <2>2, <2>10 DEF w, V
<1> QED BY <1>1 DEF ProfilerInv, PercentilesExact

-----------------------------------------------------------------------------
(* Administrative actions. *)

AuditEntries ==
    [actor : Admins, action : {"Kick", "Ban", "PermissionChange", "ConsoleCommand"}, target : Players, success : BOOLEAN]

(* The entries that put a ban on record. *)
BanEntries(h) == {i \in DOMAIN h : h[i].action = "Ban" /\ h[i].success}

(* The ban that lasts longest is on the list, and none lasts longer. *)
LongestKept ==
    /\ \A i \in 1..Len(bans) : bans[i].expires_at <= bannedUntil[bans[i].player]
    /\ \A p \in Players : bannedUntil[p] = 0 \/ \E i \in 1..Len(bans) : bans[i].player = p /\ bans[i].expires_at = bannedUntil[p]

ActionsInv ==
    /\ auditLog \in Seq(AuditEntries) /\ happened \in Seq(AuditEntries) /\ actionClock \in Nat
    /\ bans \in Seq([player : Players, expires_at : Nat, banned_by : Admins]) /\ bannedUntil \in [Players -> Nat]
    /\ NewestOf(auditLog, happened, AuditCapacity)
    /\ LongestKept
    /\ Len(bans) = Cardinality(BanEntries(happened))

LEMMA BansTyped ==
    ASSUME ActionsInv
    PROVE  Len(bans) \in Nat /\ DOMAIN bans = 1..Len(bans)
           /\ \A i \in 1..Len(bans) : bans[i].player \in Players /\ bans[i].expires_at \in Nat
<1> DEFINE R == [player : Players, expires_at : Nat, banned_by : Admins]
<1>1. bans \in Seq(R)
  BY DEF ActionsInv
<1> HIDE DEF R
<1>2. Len(bans) \in Nat /\ DOMAIN bans = 1..Len(bans) /\ \A i \in 1..Len(bans) : bans[i] \in R
  BY <1>1
<1> QED BY <1>2 DEF R

(* A step that touches neither bans nor records. *)
LEMMA ActionsElsewhere ==
    ASSUME ActionsInv, UNCHANGED <<bans, auditLog, happened, bannedUntil>>, actionClock' = actionClock + 1
    PROVE  ActionsInv'
<1>1. actionClock' \in Nat
  BY DEF ActionsInv
<1>2. LongestKept' /\ NewestOf(auditLog, happened, AuditCapacity)' /\ BanEntries(happened)' = BanEntries(happened)
  BY DEF ActionsInv, LongestKept, NewestOf, BanEntries
<1> QED BY <1>1, <1>2 DEF ActionsInv

(* An entry put on record. *)
LEMMA RecordKept ==
    ASSUME ActionsInv, NEW e \in AuditEntries, record_audit(e)
    PROVE  /\ auditLog' \in Seq(AuditEntries) /\ happened' \in Seq(AuditEntries)
           /\ NewestOf(auditLog', happened', AuditCapacity)
           /\ Cardinality(BanEntries(happened')) =
                IF e.action = "Ban" /\ e.success THEN Len(bans) + 1 ELSE Len(bans)
<1>1. /\ auditLog \in Seq(AuditEntries) /\ happened \in Seq(AuditEntries) /\ AuditCapacity \in Nat \ {0}
      /\ NewestOf(auditLog, happened, AuditCapacity) /\ Len(bans) = Cardinality(BanEntries(happened))
  BY ActionAssumption DEF ActionsInv
<1>2. /\ auditLog' = Append(IF Len(auditLog) >= AuditCapacity THEN Tail(auditLog) ELSE auditLog, e)
      /\ happened' = Append(happened, e)
  BY DEF record_audit
<1>3. auditLog' \in Seq(AuditEntries) /\ NewestOf(auditLog', happened', AuditCapacity)
  <2> DEFINE T == AuditEntries
  <2> HIDE DEF T
  <2>1. e \in T /\ auditLog \in Seq(T) /\ happened \in Seq(T)
    BY <1>1 DEF T
  <2> QED BY <1>1, <1>2, <2>1, NewestKept DEF T
<1>4. happened' \in Seq(AuditEntries)
  BY <1>1, <1>2
<1>5. Cardinality(BanEntries(happened')) = IF e.action = "Ban" /\ e.success THEN Len(bans) + 1 ELSE Len(bans)
  <2> DEFINE n == Len(happened)
             A == BanEntries(happened)
             B == BanEntries(happened')
  <2>1. n \in Nat /\ DOMAIN happened = 1..n /\ DOMAIN happened' = 1..(n + 1)
        /\ happened'[n + 1] = e /\ \A i \in 1..n : happened'[i] = happened[i]
    BY <1>1, <1>2
  <2>2. A \subseteq 1..n /\ Len(bans) = Cardinality(A)
    BY <1>1, <2>1 DEF BanEntries
  <2>3. \A i \in 1..(n + 1) : i \in 1..n \/ i = n + 1
    BY <2>1
  <2>4. B = IF e.action = "Ban" /\ e.success THEN A \cup {n + 1} ELSE A
    <3>1. \A i \in 1..n : i \in B <=> i \in A
      BY <2>1, <2>3 DEF BanEntries
    <3>2. n + 1 \in B <=> e.action = "Ban" /\ e.success
      BY <2>1 DEF BanEntries
    <3>3. B \subseteq 1..(n + 1)
      BY <2>1 DEF BanEntries
    <3> HIDE DEF A, B, n
    <3>4. n + 1 \notin 1..n
      BY <2>1
    <3>5. CASE e.action = "Ban" /\ e.success
      BY <2>2, <2>3, <3>1, <3>2, <3>3, <3>5
    <3>6. CASE ~(e.action = "Ban" /\ e.success)
      <4>1. n + 1 \notin B
        BY <3>2, <3>6
      <4>2. B = A
        BY <2>2, <2>3, <3>1, <3>3, <4>1
      <4> QED BY <3>6, <4>2
    <3> QED BY <3>5, <3>6
  <2> HIDE DEF A, B, n
  <2>5. Cardinality(A \cup {n + 1}) = Cardinality(A) + 1
    BY <2>1, <2>2, CountNext
  <2>6. Cardinality(B) = IF e.action = "Ban" /\ e.success THEN Len(bans) + 1 ELSE Len(bans)
    BY <2>2, <2>4, <2>5
  <2> QED BY <2>6 DEF B
<1> QED BY <1>3, <1>4, <1>5

LEMMA ActionsStep == ActionsInv /\ [ActionsNext]_actionVars => ActionsInv'
<1> SUFFICES ASSUME ActionsInv, [ActionsNext]_actionVars PROVE ActionsInv'
  OBVIOUS
<1>1. CASE UNCHANGED actionVars
  BY <1>1 DEF actionVars, ActionsInv, NewestOf, LongestKept, BanEntries
<1>2. ASSUME NEW a \in Admins, NEW p \in Players, NEW permission \in Permissions, deny(a, permission, p) PROVE ActionsInv'
  <2> DEFINE e == Entry(a, action_for(permission), p, FALSE)
  <2>1. e \in AuditEntries /\ ~e.success
    BY <1>2 DEF Entry, action_for, Permissions, AuditEntries
  <2>2. record_audit(e) /\ UNCHANGED <<bans, bannedUntil>> /\ actionClock' = actionClock + 1
    BY <1>2 DEF deny, Later_action
  <2> HIDE DEF e
  <2>3. /\ auditLog' \in Seq(AuditEntries) /\ happened' \in Seq(AuditEntries)
        /\ NewestOf(auditLog', happened', AuditCapacity) /\ Cardinality(BanEntries(happened')) = Len(bans)
    BY <2>1, <2>2, RecordKept
  <2>4. actionClock' \in Nat
    BY <2>2 DEF ActionsInv
  <2>5. LongestKept'
    BY <2>2 DEF ActionsInv, LongestKept
  <2> QED BY <2>2, <2>3, <2>4, <2>5 DEF ActionsInv, NewestOf, BanEntries
<1>3. ASSUME NEW a \in Admins, NEW p \in Players, NEW permission \in Permissions, permission # "ban",
             act_online(a, permission, p) PROVE ActionsInv'
  <2> DEFINE e == Entry(a, Applied_as(permission), p, TRUE)
  <2>1. e \in AuditEntries /\ e.action # "Ban"
    BY <1>3 DEF Entry, Applied_as, action_for, Permissions, AuditEntries
  <2>2. /\ record_audit(e) \/ UNCHANGED <<auditLog, happened>>
        /\ UNCHANGED <<bans, bannedUntil>> /\ actionClock' = actionClock + 1
    BY <1>3 DEF act_online, Later_action
  <2> HIDE DEF e
  <2>3. /\ auditLog' \in Seq(AuditEntries) /\ happened' \in Seq(AuditEntries)
        /\ NewestOf(auditLog', happened', AuditCapacity) /\ Cardinality(BanEntries(happened')) = Len(bans)
    <3>1. CASE record_audit(e)
      BY <2>1, <3>1, RecordKept
    <3>2. CASE UNCHANGED <<auditLog, happened>>
      BY <3>2 DEF ActionsInv
    <3> QED BY <2>2, <3>1, <3>2
  <2>4. actionClock' \in Nat
    BY <2>2 DEF ActionsInv
  <2>5. LongestKept'
    BY <2>2 DEF ActionsInv, LongestKept
  <2> QED BY <2>2, <2>3, <2>4, <2>5 DEF ActionsInv, NewestOf, BanEntries
<1>4. ASSUME NEW a \in Admins, NEW p \in Players, NEW x \in {2, Forever}, ban(a, p, x) PROVE ActionsInv'
  <2> DEFINE e == Entry(a, "Ban", p, TRUE)
             b == [player |-> p, expires_at |-> x, banned_by |-> a]
             n == Len(bans)
  <2>1. e \in AuditEntries /\ e.action = "Ban" /\ e.success /\ x \in Nat
    BY <1>4, ActionAssumption DEF Entry, AuditEntries, Forever
  <2>2. /\ record_audit(e) /\ actionClock' = actionClock + 1 /\ bans' = Append(bans, b)
        /\ bannedUntil' = [bannedUntil EXCEPT ![p] = Max({bannedUntil[p], x})]
    BY <1>4 DEF ban, Later_action
  <2> HIDE DEF e
  <2>3. /\ auditLog' \in Seq(AuditEntries) /\ happened' \in Seq(AuditEntries)
        /\ NewestOf(auditLog', happened', AuditCapacity) /\ Cardinality(BanEntries(happened')) = n + 1
    BY <2>1, <2>2, RecordKept
  <2>4. actionClock' \in Nat
    BY <2>2 DEF ActionsInv
  <2>5. /\ bans' \in Seq([player : Players, expires_at : Nat, banned_by : Admins])
        /\ n \in Nat /\ Len(bans') = n + 1 /\ bans'[n + 1] = b /\ \A i \in 1..n : bans'[i] = bans[i]
    BY <2>1, <2>2 DEF ActionsInv
  <2>6. /\ bannedUntil \in [Players -> Nat] /\ bannedUntil' \in [Players -> Nat]
        /\ bannedUntil'[p] = (IF bannedUntil[p] >= x THEN bannedUntil[p] ELSE x)
        /\ \A q \in Players : q # p => bannedUntil'[q] = bannedUntil[q]
    <3>1. bannedUntil \in [Players -> Nat] /\ bannedUntil[p] \in Nat
      BY DEF ActionsInv
    <3>2. Max({bannedUntil[p], x}) = IF bannedUntil[p] >= x THEN bannedUntil[p] ELSE x
      BY <2>1, <3>1, MaxOfPair
    <3> QED BY <2>1, <2>2, <3>1, <3>2
  <2>7. LongestKept'
    <3>1. \A i \in 1..n : bans[i].player \in Players /\ bans[i].expires_at \in Nat
      BY BansTyped
    <3>2. \A i \in 1..(n + 1) : i \in 1..n \/ i = n + 1
      BY <2>5
    <3>3. ASSUME NEW i \in 1..(n + 1) PROVE bans'[i].expires_at <= bannedUntil'[bans'[i].player]
      <4>1. CASE i = n + 1
        BY <2>1, <2>5, <2>6, <4>1
      <4>2. CASE i \in 1..n
        <5>1. bans[i].expires_at <= bannedUntil[bans[i].player] /\ bans'[i] = bans[i]
          BY <2>5, <4>2 DEF ActionsInv, LongestKept
        <5>2. bannedUntil[bans[i].player] <= bannedUntil'[bans[i].player] /\ bannedUntil[bans[i].player] \in Nat
              /\ bannedUntil'[bans[i].player] \in Nat
          BY <2>1, <2>6, <3>1, <4>2
        <5> QED BY <3>1, <4>2, <5>1, <5>2
      <4> QED BY <3>2, <4>1, <4>2
    <3>4. ASSUME NEW q \in Players
          PROVE  bannedUntil'[q] = 0 \/ \E i \in 1..(n + 1) : bans'[i].player = q /\ bans'[i].expires_at = bannedUntil'[q]
      <4>1. CASE bannedUntil'[q] = bannedUntil[q]
        <5>1. bannedUntil[q] = 0 \/ \E i \in 1..n : bans[i].player = q /\ bans[i].expires_at = bannedUntil[q]
          BY DEF ActionsInv, LongestKept
        <5>2. \A i \in 1..n : i \in 1..(n + 1)
          BY <2>5
        <5> QED BY <2>5, <4>1, <5>1, <5>2
      <4>2. CASE bannedUntil'[q] # bannedUntil[q]
        <5>1. q = p /\ bannedUntil'[q] = x
          BY <2>6, <4>2
        <5>2. n + 1 \in 1..(n + 1)
          BY <2>5
        <5> QED BY <2>5, <5>1, <5>2
      <4> QED BY <4>1, <4>2
    <3> HIDE DEF n
    <3> QED BY <2>5, <3>3, <3>4 DEF LongestKept
  <2> QED BY <2>3, <2>4, <2>5, <2>6, <2>7 DEF ActionsInv, NewestOf, BanEntries
<1>5. ASSUME NEW a \in Admins, NEW permission \in Permissions, NEW g \in BOOLEAN, change_rights(a, permission, g)
      PROVE  ActionsInv'
  BY <1>5, ActionsElsewhere DEF change_rights, Later_action
<1>6. ASSUME NEW p \in Players, come_and_go(p) PROVE ActionsInv'
  BY <1>6, ActionsElsewhere DEF come_and_go, Later_action
<1> QED BY <1>1, <1>2, <1>3, <1>4, <1>5, <1>6 DEF ActionsNext

LEMMA ActionsInvGives == ActionsInv => ActionsAudited
<1> SUFFICES ASSUME ActionsInv PROVE ActionsAudited
  OBVIOUS
<1>1. ASSUME NEW p \in Players PROVE is_banned(p) <=> actionClock < bannedUntil[p]
  <2>1. DOMAIN bans = 1..Len(bans) /\ actionClock \in Nat /\ bannedUntil[p] \in Nat
        /\ \A i \in 1..Len(bans) : bans[i].expires_at \in Nat
    BY BansTyped DEF ActionsInv
  <2>2. ASSUME is_banned(p) PROVE actionClock < bannedUntil[p]
    <3>1. PICK i \in 1..Len(bans) : bans[i].player = p /\ actionClock < bans[i].expires_at
      BY <2>1, <2>2 DEF is_banned
    <3>2. bans[i].expires_at <= bannedUntil[p]
      BY <3>1 DEF ActionsInv, LongestKept
    <3> QED BY <2>1, <3>1, <3>2
  <2>3. ASSUME actionClock < bannedUntil[p] PROVE is_banned(p)
    <3>0. bannedUntil[p] # 0
      BY <2>1, <2>3
    <3>1. PICK i \in 1..Len(bans) : bans[i].player = p /\ bans[i].expires_at = bannedUntil[p]
      BY <3>0 DEF ActionsInv, LongestKept
    <3> QED BY <2>1, <2>3, <3>1 DEF is_banned
  <2> QED BY <2>2, <2>3
<1> QED BY <1>1 DEF ActionsInv, ActionsAudited, BanEntries

-----------------------------------------------------------------------------
(* Alerts. *)

OpenAlert == [first_fired : Nat, last_fired : Nat, occurrences : Nat]
ClosedAlert == [first_fired : Nat, occurrences : Nat, resolved_at : Nat]

Occurrences(shut) == [i \in 1..Len(shut) |-> shut[i].occurrences]

(* What is on record of one condition, shut and perhaps one more alert     *)
(* that is open, adds up, and each alert ended before the next began. *)
Booked(shut, n, now) ==
    /\ shut \in Seq(ClosedAlert)
    /\ n = SumTo(Len(shut), Occurrences(shut))
    /\ \A i \in 1..Len(shut) : shut[i].resolved_at < now
    /\ \A i \in 1..(Len(shut) - 1) : shut[i].resolved_at < shut[i + 1].first_fired

Ongoing(shut, alert, now) ==
    /\ alert \in OpenAlert /\ alert.first_fired < now
    /\ shut # <<>> => shut[Len(shut)].resolved_at < alert.first_fired

AlertsInv ==
    /\ alertClock \in Nat /\ DOMAIN open \subseteq Conditions /\ DOMAIN reports = Conditions
    /\ DOMAIN closedAlerts = Conditions
    /\ \A c \in Conditions :
         /\ Booked(closedAlerts[c], reports[c] - (IF c \in DOMAIN open THEN open[c].occurrences ELSE 0), alertClock)
         /\ reports[c] \in Nat
         /\ c \in DOMAIN open => Ongoing(closedAlerts[c], open[c], alertClock)

LEMMA BookedLater ==
    ASSUME NEW shut, NEW n, NEW now \in Nat, Booked(shut, n, now)
    PROVE  Booked(shut, n, now + 1) /\ Len(shut) \in Nat /\ n \in Nat
<1>1. shut \in Seq(ClosedAlert)
  BY DEF Booked
<1>2. Len(shut) \in Nat /\ \A i \in 1..Len(shut) : shut[i] \in ClosedAlert
  BY <1>1
<1>3. \A i \in 1..Len(shut) : shut[i].resolved_at \in Nat /\ shut[i].occurrences \in Nat /\ shut[i].first_fired \in Nat
  BY <1>2 DEF ClosedAlert
<1>4. \A i \in 1..Len(shut) : shut[i].resolved_at < now + 1
  BY <1>3 DEF Booked
<1>5. Occurrences(shut) \in [1..Len(shut) -> Nat]
  BY <1>3 DEF Occurrences
<1>6. SumTo(Len(shut), Occurrences(shut)) \in Nat
  BY <1>2, <1>5, SumToNat
<1> QED BY <1>2, <1>4, <1>6 DEF Booked

(* Closing an alert books its reports. *)
LEMMA BookedClose ==
    ASSUME NEW shut, NEW n, NEW now \in Nat, NEW alert, Booked(shut, n, now), Ongoing(shut, alert, now)
    PROVE  Booked(Append(shut, [first_fired |-> alert.first_fired, occurrences |-> alert.occurrences,
                                resolved_at |-> now]), n + alert.occurrences, now + 1)
<1> DEFINE x == [first_fired |-> alert.first_fired, occurrences |-> alert.occurrences, resolved_at |-> now]
           m == Len(shut)
           s == Append(shut, x)
<1>1. shut \in Seq(ClosedAlert) /\ m \in Nat /\ \A i \in 1..m : shut[i].resolved_at < now + 1
  BY BookedLater DEF Booked
<1>2. x \in ClosedAlert /\ x.resolved_at = now /\ x.first_fired = alert.first_fired /\ x.occurrences = alert.occurrences
  BY DEF Ongoing, OpenAlert, ClosedAlert
<1> HIDE DEF x
<1>3. s \in Seq(ClosedAlert) /\ Len(s) = m + 1 /\ s[m + 1] = x /\ \A i \in 1..m : s[i] = shut[i]
  BY <1>1, <1>2
<1>4. \A i \in 1..m : shut[i] \in ClosedAlert
  BY <1>1
<1>5. \A i \in 1..(m + 1) : s[i] \in ClosedAlert
  BY <1>3
<1> HIDE DEF s
<1>6. Occurrences(shut) \in [1..m -> Int] /\ Occurrences(s) \in [1..(m + 1) -> Int]
  <2>1. \A i \in 1..m : shut[i].occurrences \in Int
    BY <1>4 DEF ClosedAlert
  <2>2. \A i \in 1..(m + 1) : s[i].occurrences \in Int
    BY <1>5 DEF ClosedAlert
  <2> QED BY <1>3, <2>1, <2>2 DEF Occurrences
<1>7. \A i \in 1..m : Occurrences(s)[i] = Occurrences(shut)[i]
  BY <1>1, <1>3 DEF Occurrences
<1>8. Occurrences(s)[m + 1] = alert.occurrences
  BY <1>1, <1>2, <1>3 DEF Occurrences
<1> HIDE DEF m
<1>9. SumTo(m + 1, Occurrences(s)) = SumTo(m, Occurrences(shut)) + Occurrences(s)[m + 1]
  BY <1>1, <1>6, <1>7, SumToAppend
<1>10. SumTo(Len(s), Occurrences(s)) = n + alert.occurrences
  BY <1>3, <1>8, <1>9 DEF Booked, m
<1>11. \A i \in 1..(m + 1) : i \in 1..m \/ i = m + 1
  BY <1>1
<1>12. \A i \in 1..Len(s) : s[i].resolved_at < now + 1
  BY <1>1, <1>2, <1>3, <1>11
<1>13. ASSUME NEW i \in 1..(Len(s) - 1) PROVE s[i].resolved_at < s[i + 1].first_fired
  <2>1. i \in 1..m
    BY <1>1, <1>3
  <2>2. CASE i = m
    <3>1. shut # <<>> /\ s[i] = shut[Len(shut)] /\ s[i + 1] = x
      BY <1>1, <1>3, <2>1, <2>2 DEF m
    <3> QED BY <1>2, <3>1 DEF Ongoing
  <2>3. CASE i # m
    <3>1. i \in 1..(Len(shut) - 1) /\ i + 1 \in 1..m
      BY <1>1, <2>1, <2>3 DEF m
    <3>2. shut[i].resolved_at < shut[i + 1].first_fired
      BY <3>1 DEF Booked
    <3> QED BY <1>3, <2>1, <3>1, <3>2
  <2> QED BY <2>2, <2>3
<1> QED BY <1>3, <1>10, <1>12, <1>13 DEF Booked, s, x

(* A report opens an alert or is counted in the one that is open. *)
LEMMA FireKeeps == ASSUME AlertsInv, NEW c \in Conditions, fire(c) PROVE AlertsInv'
<1> DEFINE a == IF c \in DOMAIN open
                THEN [open[c] EXCEPT !.last_fired = alertClock, !.occurrences = @ + 1]
                ELSE [first_fired |-> alertClock, last_fired |-> alertClock, occurrences |-> 1]
<1>1. /\ alertClock' = alertClock + 1 /\ open' = Assigned(open, c, a) /\ closedAlerts' = closedAlerts
      /\ reports' = [reports EXCEPT ![c] = @ + 1]
  BY DEF fire, Later_alert
<1>2. alertClock \in Nat /\ alertClock' \in Nat /\ reports[c] \in Nat /\ DOMAIN reports = Conditions
  BY <1>1 DEF AlertsInv
<1>3. /\ a \in OpenAlert
      /\ a.first_fired = (IF c \in DOMAIN open THEN open[c].first_fired ELSE alertClock)
      /\ a.occurrences = (IF c \in DOMAIN open THEN open[c].occurrences + 1 ELSE 1)
  <2>1. CASE c \in DOMAIN open
    <3>1. open[c] \in OpenAlert
      BY <2>1 DEF AlertsInv, Ongoing
    <3> DEFINE b == open[c]
    <3>2. a = [b EXCEPT !.last_fired = alertClock, !.occurrences = b.occurrences + 1]
      BY <2>1
    <3>3. b \in OpenAlert
      BY <3>1
    <3> HIDE DEF a, b
    <3>4. b.occurrences \in Nat /\ b.first_fired \in Nat
      BY <3>3 DEF OpenAlert
    <3>5. a = [first_fired |-> b.first_fired, last_fired |-> alertClock, occurrences |-> b.occurrences + 1]
      BY <3>2, <3>3 DEF OpenAlert
    <3>6. a \in OpenAlert /\ a.first_fired = b.first_fired /\ a.occurrences = b.occurrences + 1
      BY <1>2, <3>4, <3>5 DEF OpenAlert
    <3> QED BY <2>1, <3>6 DEF b
  <2>2. CASE c \notin DOMAIN open
    BY <1>2, <2>2 DEF OpenAlert
  <2> QED BY <2>1, <2>2
<1> HIDE DEF a
<1>4. DOMAIN open' = DOMAIN open \cup {c} /\ open'[c] = a /\ \A d \in DOMAIN open : d # c => open'[d] = open[d]
  BY <1>1 DEF Assigned
<1>5. /\ DOMAIN reports' = Conditions /\ reports'[c] = reports[c] + 1
      /\ \A d \in Conditions : d # c => reports'[d] = reports[d]
  BY <1>1, <1>2
<1>6. ASSUME NEW d \in Conditions
      PROVE  /\ Booked(closedAlerts'[d], reports'[d] - (IF d \in DOMAIN open' THEN open'[d].occurrences ELSE 0), alertClock')
             /\ reports'[d] \in Nat
             /\ d \in DOMAIN open' => Ongoing(closedAlerts'[d], open'[d], alertClock')
  <2> DEFINE n == reports[d] - (IF d \in DOMAIN open THEN open[d].occurrences ELSE 0)
  <2>1. /\ Booked(closedAlerts[d], n, alertClock) /\ reports[d] \in Nat
        /\ d \in DOMAIN open => Ongoing(closedAlerts[d], open[d], alertClock)
    BY DEF AlertsInv
  <2>2. Booked(closedAlerts[d], n, alertClock + 1)
    BY <1>2, <2>1, BookedLater
  <2>3. CASE d = c
    <3>1. reports'[d] - open'[d].occurrences = n
      <4>1. CASE c \in DOMAIN open
        <5>1. open[c].occurrences \in Nat
          BY <2>1, <2>3, <4>1 DEF Ongoing, OpenAlert
        <5> QED BY <1>2, <1>3, <1>4, <1>5, <2>3, <4>1, <5>1
      <4>2. CASE c \notin DOMAIN open
        BY <1>2, <1>3, <1>4, <1>5, <2>3, <4>2
      <4> QED BY <4>1, <4>2
    <3>2. Ongoing(closedAlerts[d], a, alertClock + 1)
      <4>1. a.first_fired < alertClock + 1
        BY <1>2, <1>3, <2>1, <2>3 DEF Ongoing, OpenAlert
      <4>2. ASSUME closedAlerts[d] # <<>>
            PROVE  closedAlerts[d][Len(closedAlerts[d])].resolved_at < a.first_fired
        <5>1. CASE c \in DOMAIN open
          BY <1>3, <2>1, <2>3, <4>2, <5>1 DEF Ongoing
        <5>2. CASE c \notin DOMAIN open
          <6>1. closedAlerts[d] \in Seq(ClosedAlert)
            BY <2>1 DEF Booked
          <6>2. Len(closedAlerts[d]) \in 1..Len(closedAlerts[d])
            BY <4>2, <6>1
          <6>3. closedAlerts[d][Len(closedAlerts[d])].resolved_at < alertClock
            BY <2>1, <6>2 DEF Booked
          <6> QED BY <1>3, <5>2, <6>3
        <5> QED BY <5>1, <5>2
      <4> QED BY <1>3, <4>1, <4>2 DEF Ongoing
    <3>3. d \in DOMAIN open' /\ open'[d] = a
      BY <1>4, <2>3
    <3>4. reports'[d] \in Nat
      BY <1>2, <1>5, <2>3
    <3> HIDE DEF n
    <3> QED BY <1>1, <2>2, <3>1, <3>2, <3>3, <3>4
  <2>4. CASE d # c
    <3>1. reports'[d] = reports[d] /\ (d \in DOMAIN open' <=> d \in DOMAIN open)
          /\ (d \in DOMAIN open => open'[d] = open[d]) /\ closedAlerts'[d] = closedAlerts[d]
      BY <1>1, <1>4, <1>5, <2>4
    <3>2. reports'[d] - (IF d \in DOMAIN open' THEN open'[d].occurrences ELSE 0) = n
      BY <3>1
    <3>3. d \in DOMAIN open => Ongoing(closedAlerts[d], open[d], alertClock + 1)
      BY <1>2, <2>1 DEF Ongoing, OpenAlert
    <3> HIDE DEF n
    <3> QED BY <1>1, <2>1, <2>2, <3>1, <3>2, <3>3
  <2> QED BY <2>3, <2>4
<1>7. DOMAIN open' \subseteq Conditions /\ DOMAIN closedAlerts' = Conditions
  BY <1>1, <1>4 DEF AlertsInv
<1> QED BY <1>2, <1>5, <1>6, <1>7 DEF AlertsInv

(* resolve and reconcile. *)
LEMMA CloseKeeps ==
    ASSUME AlertsInv, NEW cs, alertClock' = alertClock + 1, Close(cs)
    PROVE  AlertsInv'
<1> DEFINE shut == cs \cap DOMAIN open
           Closing(c) == [first_fired |-> open[c].first_fired, occurrences |-> open[c].occurrences, resolved_at |-> alertClock]
<1>1. /\ open' = [c \in DOMAIN open \ shut |-> open[c]] /\ reports' = reports
      /\ closedAlerts' = [c \in Conditions |-> IF c \in shut THEN Append(closedAlerts[c], Closing(c)) ELSE closedAlerts[c]]
  BY DEF Close
<1>2. alertClock \in Nat /\ alertClock' \in Nat /\ DOMAIN open \subseteq Conditions /\ DOMAIN reports = Conditions
  BY DEF AlertsInv
<1>3. DOMAIN open' = DOMAIN open \ shut /\ \A d \in DOMAIN open' : open'[d] = open[d]
  BY <1>1
<1>4. ASSUME NEW d \in Conditions
      PROVE  /\ Booked(closedAlerts'[d], reports'[d] - (IF d \in DOMAIN open' THEN open'[d].occurrences ELSE 0), alertClock')
             /\ reports'[d] \in Nat
             /\ d \in DOMAIN open' => Ongoing(closedAlerts'[d], open'[d], alertClock')
  <2> DEFINE n == reports[d] - (IF d \in DOMAIN open THEN open[d].occurrences ELSE 0)
  <2>1. /\ Booked(closedAlerts[d], n, alertClock) /\ reports[d] \in Nat
        /\ d \in DOMAIN open => Ongoing(closedAlerts[d], open[d], alertClock)
    BY DEF AlertsInv
  <2>2. Booked(closedAlerts[d], n, alertClock + 1)
    BY <1>2, <2>1, BookedLater
  <2>3. CASE d \in shut
    <3>1. d \in DOMAIN open /\ d \notin DOMAIN open' /\ closedAlerts'[d] = Append(closedAlerts[d], Closing(d))
      BY <1>1, <1>3, <2>3
    <3>2. Booked(Append(closedAlerts[d], Closing(d)), n + open[d].occurrences, alertClock + 1)
      BY <1>2, <2>1, <3>1, BookedClose
    <3>3. n + open[d].occurrences = reports[d]
      <4>1. open[d].occurrences \in Nat
        BY <2>1, <3>1 DEF Ongoing, OpenAlert
      <4> QED BY <2>1, <3>1, <4>1
    <3>4. reports'[d] - (IF d \in DOMAIN open' THEN open'[d].occurrences ELSE 0) = reports[d]
      BY <1>1, <2>1, <3>1
    <3> HIDE DEF n, Closing
    <3> QED BY <1>1, <2>1, <3>1, <3>2, <3>3, <3>4
  <2>4. CASE d \notin shut
    <3>1. reports'[d] = reports[d] /\ (d \in DOMAIN open' <=> d \in DOMAIN open)
          /\ (d \in DOMAIN open => open'[d] = open[d]) /\ closedAlerts'[d] = closedAlerts[d]
      BY <1>1, <1>3, <2>4
    <3>2. reports'[d] - (IF d \in DOMAIN open' THEN open'[d].occurrences ELSE 0) = n
      BY <3>1
    <3>3. d \in DOMAIN open => Ongoing(closedAlerts[d], open[d], alertClock + 1)
      BY <1>2, <2>1 DEF Ongoing, OpenAlert
    <3> HIDE DEF n
    <3> QED BY <1>1, <2>1, <2>2, <3>1, <3>2, <3>3
  <2> QED BY <2>3, <2>4
<1>5. DOMAIN open' \subseteq Conditions /\ DOMAIN closedAlerts' = Conditions /\ DOMAIN reports' = Conditions
  BY <1>1, <1>2, <1>3
<1> QED BY <1>2, <1>4, <1>5 DEF AlertsInv

-----------------------------------------------------------------------------
(* The incident timeline. *)

IncidentInv ==
    /\ incident \in Seq(Nat) /\ recorded \in Seq(Nat)
    /\ Len(incident) = Min({Len(recorded), TimelineCapacity})
    /\ \A i, j \in 1..Len(incident) : i <= j => incident[i] <= incident[j]
    /\ TimelineCapacity > 1 /\ recorded # <<>> =>
         /\ \E i \in 1..Len(recorded) : recorded[i] = incident[Len(incident)]
         /\ \A i \in 1..Len(recorded) : recorded[i] <= incident[Len(incident)]

(* The last of a sorted list is its largest element. *)
LEMMA SortedLast ==
    ASSUME NEW n \in Nat \ {0}, NEW s \in [1..n -> Nat]
    PROVE  (\E i \in 1..n : Sorted(s)[n] = s[i]) /\ \A i \in 1..n : s[i] <= Sorted(s)[n]
<1> DEFINE w == Sorted(s)[n]
<1>1. n \in Nat /\ n \in 1..n
  OBVIOUS
<1>2. \A k \in 1..n : (\E i \in 1..n : Sorted(s)[k] = s[i]) /\ Cardinality(UpToValue(s, Sorted(s)[k])) >= k
  BY <1>1, SortedIs
<1>3. (\E i \in 1..n : w = s[i]) /\ Cardinality(UpToValue(s, w)) >= n
  BY <1>1, <1>2
<1> HIDE DEF w
<1>4. w \in Nat
  BY <1>3
<1>5. UpToValue(s, w) \subseteq 1..n /\ IsFiniteSet(1..n) /\ Cardinality(1..n) = n
  BY <1>1, PrefixCount DEF UpToValue
<1>6. Cardinality(UpToValue(s, w)) \in 0..n
  BY <1>1, <1>4, ValueCount
<1>7. Cardinality(UpToValue(s, w)) = n
  BY <1>1, <1>3, <1>6
<1>8. UpToValue(s, w) = 1..n
  BY <1>5, <1>7, FS_Subset
<1>9. \A i \in 1..n : s[i] <= w
  BY <1>8 DEF UpToValue
<1> QED BY <1>3, <1>9 DEF w

LEMMA RecordIncidentKeeps == ASSUME IncidentInv, NEW t \in Nat, record_incident(t) PROVE IncidentInv'
<1> DEFINE m == Len(incident)
           n == Len(recorded)
           pushed == Append(incident, t)
           kept == IF Len(pushed) > TimelineCapacity THEN Tail(pushed) ELSE pushed
           k == Len(kept)
<1>1. incident' = Sorted(kept) /\ recorded' = Append(recorded, t)
  BY DEF record_incident
<1>2. /\ m \in Nat /\ n \in Nat /\ TimelineCapacity \in Nat \ {0} /\ incident \in Seq(Nat) /\ recorded \in Seq(Nat)
      /\ m = IF n <= TimelineCapacity THEN n ELSE TimelineCapacity
  <2>1. m \in Nat /\ n \in Nat /\ TimelineCapacity \in Nat \ {0} /\ incident \in Seq(Nat) /\ recorded \in Seq(Nat)
    BY AlertAssumption DEF IncidentInv
  <2>2. n \in Int /\ TimelineCapacity \in Int
    BY <2>1
  <2> HIDE DEF n, m
  <2>3. Min({n, TimelineCapacity}) = IF n <= TimelineCapacity THEN n ELSE TimelineCapacity
    BY <2>2, MinOfPair
  <2> USE DEF n, m
  <2> QED BY <2>1, <2>3 DEF IncidentInv
<1>3. /\ recorded' \in Seq(Nat) /\ Len(recorded') = n + 1 /\ recorded'[n + 1] = t
      /\ \A i \in 1..n : recorded'[i] = recorded[i]
  BY <1>1, <1>2
<1>4. pushed \in Seq(Nat) /\ Len(pushed) = m + 1 /\ pushed[m + 1] = t /\ \A i \in 1..m : pushed[i] = incident[i]
  BY <1>2
<1>41. /\ m = Len(incident) /\ n = Len(recorded) /\ k = Len(kept)
       /\ kept = IF Len(pushed) > TimelineCapacity THEN Tail(pushed) ELSE pushed
  OBVIOUS
<1> HIDE DEF pushed, m, n, kept, k
<1>5. /\ kept \in Seq(Nat) /\ k = (IF m + 1 > TimelineCapacity THEN m ELSE m + 1)
      /\ \A i \in 1..k : kept[i] = pushed[i + ((m + 1) - k)]
  <2>1. CASE m + 1 > TimelineCapacity
    <3>1. pushed # <<>> /\ kept = Tail(pushed)
      BY <1>2, <1>4, <1>41, <2>1
    <3>2. kept \in Seq(Nat) /\ Len(kept) = m /\ \A i \in 1..m : kept[i] = pushed[i + 1]
      BY <1>2, <1>4, <3>1
    <3>3. k = m /\ \A i \in 1..k : i + ((m + 1) - k) = i + 1
      <4>1. k = m
        BY <1>41, <3>2
      <4>2. m \in Nat
        BY <1>2
      <4> QED BY <4>1, <4>2
    <3>4. \A i \in 1..k : kept[i] = pushed[i + ((m + 1) - k)]
      BY <3>2, <3>3
    <3> QED BY <2>1, <3>2, <3>3, <3>4
  <2>2. CASE ~(m + 1 > TimelineCapacity)
    <3>1. kept = pushed /\ k = m + 1
      BY <1>4, <1>41, <2>2
    <3>2. \A i \in 1..(m + 1) : i + ((m + 1) - (m + 1)) = i
      BY <1>2
    <3> QED BY <1>4, <2>2, <3>1, <3>2
  <2> QED BY <2>1, <2>2
<1>6. k \in Nat \ {0} /\ kept \in [1..k -> Nat]
  <2>1. k \in Nat \ {0}
    BY <1>2, <1>5
  <2>2. kept \in [1..Len(kept) -> Nat]
    BY <1>5
  <2> QED BY <1>41, <2>1, <2>2
<1>7. incident' \in [1..k -> Nat] /\ \A i, j \in 1..k : i <= j => incident'[i] <= incident'[j]
  <2>1. k \in Nat
    BY <1>6
  <2> QED BY <1>1, <1>6, <2>1, SortedIs
<1>8. incident' \in Seq(Nat) /\ Len(incident') = k
  BY <1>6, <1>7
<1>81. /\ \A i \in 1..m : incident[i] \in Nat
       /\ \A i, j \in 1..m : i <= j => incident[i] <= incident[j]
       /\ \A i \in 1..n : recorded[i] \in Nat
  <2>1. \A i \in 1..Len(incident) : incident[i] \in Nat
    BY <1>2
  <2>2. \A i \in 1..Len(recorded) : recorded[i] \in Nat
    BY <1>2
  <2>3. \A i, j \in 1..Len(incident) : i <= j => incident[i] <= incident[j]
    BY DEF IncidentInv
  <2> QED BY <1>41, <2>1, <2>2, <2>3
<1>9. k = Min({n + 1, TimelineCapacity})
  <2>1. n + 1 \in Int /\ TimelineCapacity \in Int
    BY <1>2
  <2>2. Min({n + 1, TimelineCapacity}) = IF n + 1 <= TimelineCapacity THEN n + 1 ELSE TimelineCapacity
    BY <2>1, MinOfPair
  <2> QED BY <1>2, <1>5, <2>2
<1>10. ASSUME TimelineCapacity > 1
       PROVE  /\ \E i \in 1..(n + 1) : recorded'[i] = incident'[k]
              /\ \A i \in 1..(n + 1) : recorded'[i] <= incident'[k]
  <2>1. (\E i \in 1..k : incident'[k] = kept[i]) /\ \A i \in 1..k : kept[i] <= incident'[k]
    BY <1>1, <1>6, SortedLast
  <2>2. kept[k] = t /\ k \in 1..k
    <3>1. k \in 1..k /\ k + ((m + 1) - k) = m + 1
      BY <1>2, <1>6
    <3> QED BY <1>4, <1>5, <3>1
  <2>3. \A i \in 1..(n + 1) : i \in 1..n \/ i = n + 1
    BY <1>2
  <2>4. incident'[k] \in Nat
    BY <1>7, <2>2
  <2>5. CASE n = 0
    <3>1. k = 1
      BY <1>2, <1>5, <1>10, <2>5
    <3>2. incident'[k] = t
      BY <2>1, <2>2, <3>1
    <3>3. \A i \in 1..(n + 1) : recorded'[i] = t
      BY <1>3, <2>3, <2>5
    <3>4. 1 \in 1..(n + 1)
      BY <2>5
    <3> QED BY <3>2, <3>3, <3>4
  <2>6. CASE n # 0
    <3>1. recorded # <<>> /\ m \in 1..m
      BY <1>2, <1>41, <2>6
    <3>2. (\E i \in 1..n : recorded[i] = incident[m]) /\ \A i \in 1..n : recorded[i] <= incident[m]
      BY <1>10, <1>41, <3>1 DEF IncidentInv
    <3>3. k - 1 \in 1..k /\ kept[k - 1] = incident[m]
      <4>1. k - 1 \in 1..k /\ (k - 1) + ((m + 1) - k) = m
        BY <1>2, <1>5, <1>10, <2>6
      <4> QED BY <1>4, <1>5, <3>1, <4>1
    <3>4. incident[m] <= incident'[k] /\ t <= incident'[k] /\ incident[m] \in Nat
      BY <1>81, <2>1, <2>2, <3>1, <3>3
    <3>5. \A i \in 1..(n + 1) : recorded'[i] <= incident'[k]
      <4> SUFFICES ASSUME NEW i \in 1..(n + 1) PROVE recorded'[i] <= incident'[k]
        OBVIOUS
      <4>1. CASE i = n + 1
        BY <1>3, <3>4, <4>1
      <4>2. CASE i \in 1..n
        <5>1. recorded'[i] <= incident[m] /\ recorded'[i] \in Nat
          BY <1>3, <1>81, <3>2, <4>2
        <5> QED BY <2>4, <3>4, <5>1
      <4> QED BY <2>3, <4>1, <4>2
    <3>6. \E i \in 1..(n + 1) : recorded'[i] = incident'[k]
      <4>1. PICK j \in 1..k : incident'[k] = kept[j]
        BY <2>1
      <4>2. CASE j = k
        <5>1. n + 1 \in 1..(n + 1)
          BY <1>2
        <5> QED BY <1>3, <2>2, <4>1, <4>2, <5>1
      <4>3. CASE j # k
        <5>1. j + ((m + 1) - k) \in 1..m
          BY <1>2, <1>5, <1>6, <4>3
        <5>2. incident'[k] = incident[j + ((m + 1) - k)]
          BY <1>4, <1>5, <4>1, <5>1
        <5>3. incident[j + ((m + 1) - k)] <= incident[m] /\ incident[j + ((m + 1) - k)] \in Nat
          <6>1. j + ((m + 1) - k) <= m
            BY <5>1
          <6> QED BY <1>81, <3>1, <5>1, <6>1
        <5>4. incident'[k] = incident[m]
          BY <3>4, <5>2, <5>3
        <5>5. \A i \in 1..n : i \in 1..(n + 1)
          BY <1>2
        <5> QED BY <1>3, <3>2, <5>4, <5>5
      <4> QED BY <4>2, <4>3
    <3> QED BY <3>5, <3>6
  <2> QED BY <2>5, <2>6
<1>11. IncidentInv'
  BY <1>3, <1>7, <1>8, <1>9, <1>10 DEF IncidentInv
<1> QED BY <1>11

LEMMA AlertsStep == AlertsInv /\ IncidentInv /\ [AlertsNext]_alertVars => AlertsInv' /\ IncidentInv'
<1> SUFFICES ASSUME AlertsInv, IncidentInv, [AlertsNext]_alertVars PROVE AlertsInv' /\ IncidentInv'
  OBVIOUS
<1>1. CASE UNCHANGED alertVars
  BY <1>1 DEF alertVars, AlertsInv, IncidentInv, Booked, Ongoing, Occurrences
<1>2. ASSUME UNCHANGED <<incident, recorded>> PROVE IncidentInv'
  BY <1>2 DEF IncidentInv
<1>3. ASSUME NEW c \in Conditions, fire(c) PROVE AlertsInv' /\ IncidentInv'
  <2>1. UNCHANGED <<incident, recorded>>
    BY <1>3 DEF fire
  <2> QED BY <1>2, <1>3, <2>1, FireKeeps
<1>4. ASSUME NEW c \in Conditions, resolve_alert(c) PROVE AlertsInv' /\ IncidentInv'
  <2>1. Close({c}) /\ alertClock' = alertClock + 1
    BY <1>4 DEF resolve_alert, Later_alert
  <2>2. UNCHANGED <<incident, recorded>>
    BY <2>1 DEF Close
  <2> QED BY <1>2, <2>1, <2>2, CloseKeeps
<1>5. ASSUME NEW probe, reconcile(probe) PROVE AlertsInv' /\ IncidentInv'
  <2> DEFINE cs == {c \in Conditions : probe[c] = "false"}
  <2>1. Close(cs) /\ alertClock' = alertClock + 1
    BY <1>5 DEF reconcile, Later_alert
  <2>2. UNCHANGED <<incident, recorded>>
    BY <2>1 DEF Close
  <2> HIDE DEF cs
  <2> QED BY <1>2, <2>1, <2>2, CloseKeeps
<1>6. ASSUME NEW t \in 0..2, record_incident(t) PROVE AlertsInv' /\ IncidentInv'
  <2>1. t \in Nat
    OBVIOUS
  <2>2. IncidentInv'
    BY <1>6, <2>1, RecordIncidentKeeps
  <2>3. UNCHANGED <<open, closedAlerts, reports>> /\ alertClock' = alertClock + 1
    BY <1>6 DEF record_incident, Later_alert
  <2>4. AlertsInv'
    <3>1. alertClock \in Nat
      BY DEF AlertsInv
    <3>2. ASSUME NEW c \in Conditions
          PROVE  /\ Booked(closedAlerts[c], reports[c] - (IF c \in DOMAIN open THEN open[c].occurrences ELSE 0), alertClock + 1)
                 /\ reports[c] \in Nat
                 /\ c \in DOMAIN open => Ongoing(closedAlerts[c], open[c], alertClock + 1)
      <4>1. /\ Booked(closedAlerts[c], reports[c] - (IF c \in DOMAIN open THEN open[c].occurrences ELSE 0), alertClock)
            /\ reports[c] \in Nat
            /\ c \in DOMAIN open => Ongoing(closedAlerts[c], open[c], alertClock)
        BY DEF AlertsInv
      <4>2. Booked(closedAlerts[c], reports[c] - (IF c \in DOMAIN open THEN open[c].occurrences ELSE 0), alertClock + 1)
        BY <3>1, <4>1, BookedLater
      <4>3. c \in DOMAIN open => Ongoing(closedAlerts[c], open[c], alertClock + 1)
        BY <3>1, <4>1 DEF Ongoing, OpenAlert
      <4> QED BY <4>1, <4>2, <4>3
    <3> QED BY <2>3, <3>1, <3>2 DEF AlertsInv
  <2> QED BY <2>2, <2>4
<1> QED BY <1>1, <1>3, <1>4, <1>5, <1>6 DEF AlertsNext

LEMMA AlertsInvGives == AlertsInv /\ IncidentInv => AlertsSound
<1> SUFFICES ASSUME AlertsInv, IncidentInv PROVE AlertsSound
  OBVIOUS
<1>1. ASSUME NEW c \in Conditions
      PROVE  /\ reports[c] = SumTo(Len(closedAlerts[c]), [i \in 1..Len(closedAlerts[c]) |-> closedAlerts[c][i].occurrences])
                             + (IF c \in DOMAIN open THEN open[c].occurrences ELSE 0)
             /\ \A i \in 1..(Len(closedAlerts[c]) - 1) : closedAlerts[c][i].resolved_at < closedAlerts[c][i + 1].first_fired
             /\ c \in DOMAIN open /\ closedAlerts[c] # <<>> =>
                  closedAlerts[c][Len(closedAlerts[c])].resolved_at < open[c].first_fired
  <2> DEFINE o == IF c \in DOMAIN open THEN open[c].occurrences ELSE 0
             s == SumTo(Len(closedAlerts[c]), Occurrences(closedAlerts[c]))
  <2>1. /\ Booked(closedAlerts[c], reports[c] - o, alertClock) /\ reports[c] \in Nat
        /\ c \in DOMAIN open => Ongoing(closedAlerts[c], open[c], alertClock)
    BY DEF AlertsInv
  <2>2. o \in Nat
    BY <2>1 DEF Ongoing, OpenAlert
  <2>3. reports[c] - o = s
    BY <2>1 DEF Booked
  <2> HIDE DEF o, s
  <2>4. reports[c] = s + o
    BY <2>1, <2>2, <2>3
  <2>5. reports[c] = SumTo(Len(closedAlerts[c]), [i \in 1..Len(closedAlerts[c]) |-> closedAlerts[c][i].occurrences]) + o
    BY <2>4 DEF s, Occurrences
  <2> QED BY <2>1, <2>5 DEF Booked, Ongoing, o
<1>2. ASSUME recorded # <<>>
      PROVE  LET latest == Max({recorded[i] : i \in DOMAIN recorded}) IN
             /\ TimelineCapacity > 1 => incident[Len(incident)] = latest
             /\ \A i \in 1..(Len(incident) - 1) : incident[i] <= incident[i + 1]
             /\ Len(incident) = Min({Len(recorded), TimelineCapacity})
             /\ TimelineCapacity > 1 => immediately_before(latest) = latest
  <2> DEFINE m == Len(incident)
             n == Len(recorded)
             R == {recorded[i] : i \in DOMAIN recorded}
             w == incident[m]
             P == {incident[i] : i \in DOMAIN incident} \cap 0..w
  <2>1. /\ m \in Nat /\ n \in Nat /\ incident \in Seq(Nat) /\ recorded \in Seq(Nat) /\ DOMAIN recorded = 1..n
        /\ DOMAIN incident = 1..m
    BY DEF IncidentInv
  <2>2. \A i \in 1..(m - 1) : incident[i] <= incident[i + 1]
    <3>1. \A i \in 1..(m - 1) : i \in 1..m /\ i + 1 \in 1..m /\ i <= i + 1
      BY <2>1
    <3> QED BY <3>1 DEF IncidentInv
  <2>3. ASSUME TimelineCapacity > 1 PROVE Max(R) = w /\ immediately_before(w) = w
    <3>1. w \in R /\ \A v \in R : v <= w
      BY <1>2, <2>1, <2>3 DEF IncidentInv
    <3>2. \A v \in R : v \in Int
      BY <2>1
    <3> HIDE DEF R
    <3>3. Max(R) \in R /\ \A v \in R : v <= Max(R)
      <4>1. R # {} /\ w \in Int
        BY <3>1, <3>2
      <4> QED BY <3>1, <3>2, <4>1, GreatestOf
    <3>4. Max(R) = w
      <4>1. Max(R) <= w /\ w <= Max(R) /\ w \in Int /\ Max(R) \in Int
        BY <3>1, <3>2, <3>3
      <4> QED BY <4>1
    <3>5. w \in Nat /\ m \in 1..m
      <4>1. n # 0
        BY <1>2, <2>1
      <4>2. Min({n, TimelineCapacity}) = IF n <= TimelineCapacity THEN n ELSE TimelineCapacity
        BY <2>1, AlertAssumption, MinOfPair
      <4>3. m \in 1..m
        BY <2>1, <4>1, <4>2, AlertAssumption DEF IncidentInv
      <4> QED BY <2>1, <4>3
    <3>6. w \in P
      BY <2>1, <3>5
    <3>7. \A v \in P : v \in Int /\ v <= w
      BY <3>5
    <3>8. immediately_before(w) = IF P = {} THEN -1 ELSE Max(P)
      BY DEF immediately_before
    <3> HIDE DEF P, w
    <3>9. Max(P) \in P /\ \A v \in P : v <= Max(P)
      <4>1. P # {} /\ w \in Int
        BY <3>5, <3>6
      <4> QED BY <3>7, <4>1, GreatestOf
    <3>10. Max(P) = w
      <4>1. Max(P) <= w /\ w <= Max(P) /\ w \in Int /\ Max(P) \in Int
        BY <3>5, <3>6, <3>7, <3>9
      <4> QED BY <4>1
    <3>11. immediately_before(w) = w
      BY <3>6, <3>8, <3>10
    <3> QED BY <3>4, <3>11
  <2>4. m = Min({Len(recorded), TimelineCapacity})
    BY DEF IncidentInv
  <2> HIDE DEF R, w
  <2>5. TimelineCapacity > 1 => w = Max(R) /\ immediately_before(Max(R)) = Max(R)
    BY <2>3
  <2> QED BY <2>2, <2>4, <2>5 DEF R, w
<1> QED BY <1>1, <1>2 DEF AlertsSound

-----------------------------------------------------------------------------
(* Logins. *)

AuthTimes == 1..MaxAuthTime

Counts == [AuthTimes -> Nat]

(* The failures from lo to hi, and none at other times. *)
Span(f, lo, hi) == [t \in AuthTimes |-> IF lo <= t /\ t <= hi THEN f[t] ELSE 0]

Failures(f) == SumTo(MaxAuthTime, f)

(* One account: the failures the history holds, those counted in its       *)
(* window, the start of that window, and the time.  The first failure of a *)
(* window is the one that starts it, so what is left of an earlier window  *)
(* when a new one begins is one less than was allowed. *)
AccountInv(f, failures, start, now) ==
    /\ f \in Counts /\ failures \in 0..max_attempts /\ start \in Nat
    /\ failures = 0 => start = 0 /\ \A t \in AuthTimes : f[t] = 0
    /\ failures # 0 =>
         /\ start \in 1..now
         /\ \A t \in AuthTimes : f[t] # 0 => t <= now /\ t < start + lockout_window /\ t > now - lockout_window
         /\ Failures(Span(f, start, MaxAuthTime)) <= failures
         /\ Failures(Span(f, start + 1, MaxAuthTime)) <= failures - 1
         /\ Failures(Span(f, 0, start - 1)) <= max_attempts - 1

LEMMA AuthConstants ==
    /\ max_attempts \in Nat \ {0} /\ lockout_window \in Nat \ {0} /\ MaxAuthTime \in Nat /\ lockout_window <= MaxAuthTime
    /\ absolute_ttl \in Nat \ {0} /\ idle_ttl \in Nat \ {0} /\ STEP \in Nat \ {0} /\ MaxTokens \in Nat
  BY LoginAssumption

LEMMA SpanCounts ==
    ASSUME NEW f \in Counts, NEW lo \in Int, NEW hi \in Int
    PROVE  Span(f, lo, hi) \in Counts /\ Failures(Span(f, lo, hi)) \in Nat
<1>1. Span(f, lo, hi) \in [1..MaxAuthTime -> Nat]
  BY DEF Span, Counts, AuthTimes
<1>2. SumTo(MaxAuthTime, Span(f, lo, hi)) \in Nat
  BY <1>1, AuthConstants, SumToNat
<1> QED BY <1>1, <1>2 DEF Counts, AuthTimes, Failures

LEMMA NoneCounted ==
    ASSUME NEW f \in Counts, \A t \in AuthTimes : f[t] = 0
    PROVE  Failures(f) = 0
<1>1. f \in [1..MaxAuthTime -> Int] /\ \A t \in 1..MaxAuthTime : f[t] = 0
  BY DEF Counts, AuthTimes
<1>2. SumTo(MaxAuthTime, f) = 0 * MaxAuthTime
  BY <1>1, AuthConstants, SumToConstant
<1>3. 0 * MaxAuthTime = 0
  BY AuthConstants
<1> QED BY <1>2, <1>3 DEF Failures

(* Fewer failures at each time are fewer altogether. *)
LEMMA FewerCounted ==
    ASSUME NEW f \in Counts, NEW g \in Counts, \A t \in AuthTimes : f[t] <= g[t]
    PROVE  Failures(f) <= Failures(g)
<1>1. f \in [1..MaxAuthTime -> Int] /\ g \in [1..MaxAuthTime -> Int] /\ \A t \in 1..MaxAuthTime : f[t] <= g[t]
  BY DEF Counts, AuthTimes
<1> QED BY <1>1, AuthConstants, SumToAtMost DEF Failures

(* One failure more. *)
LEMMA OneMoreCounted ==
    ASSUME NEW f \in Counts, NEW g \in Counts, NEW now \in AuthTimes, g[now] = f[now] + 1,
           \A t \in AuthTimes : t # now => g[t] = f[t]
    PROVE  Failures(g) = Failures(f) + 1
<1>1. f \in [1..MaxAuthTime -> Int] /\ g \in [1..MaxAuthTime -> Int] /\ now \in 1..MaxAuthTime
      /\ \A t \in 1..MaxAuthTime : t # now => g[t] = f[t]
  BY DEF Counts, AuthTimes
<1>2. SumTo(MaxAuthTime, g) = (SumTo(MaxAuthTime, f) - f[now]) + g[now]
  BY <1>1, AuthConstants, SumToReplace
<1>3. SumTo(MaxAuthTime, f) \in Int /\ f[now] \in Int
  BY <1>1, AuthConstants, SumToType
<1> QED BY <1>2, <1>3 DEF Failures

LEMMA AccountTotal ==
    ASSUME NEW f, NEW failures, NEW start, NEW now \in AuthTimes, AccountInv(f, failures, start, now)
    PROVE  Failures(f) < 2 * max_attempts
<1>1. f \in Counts /\ failures \in 0..max_attempts /\ start \in Nat /\ max_attempts \in Nat \ {0}
  BY AuthConstants DEF AccountInv
<1>2. CASE failures = 0
  <2>1. Failures(f) = 0
    BY <1>1, <1>2, NoneCounted DEF AccountInv
  <2> QED BY <1>1, <2>1
<1>3. CASE failures # 0
  <2> DEFINE a == Span(f, 0, start - 1)
             b == Span(f, start, MaxAuthTime)
  <2>1. a \in Counts /\ b \in Counts /\ Failures(a) \in Nat /\ Failures(b) \in Nat
    BY <1>1, AuthConstants, SpanCounts
  <2>2. \A t \in AuthTimes : f[t] = a[t] + b[t]
    BY <1>1, AuthConstants DEF Span, Counts, AuthTimes
  <2>3. Failures(a) <= max_attempts - 1 /\ Failures(b) <= failures
    BY <1>3 DEF AccountInv
  <2> HIDE DEF a, b
  <2>4. Failures(f) = Failures(a) + Failures(b)
    <3>1. f \in [1..MaxAuthTime -> Int] /\ a \in [1..MaxAuthTime -> Int] /\ b \in [1..MaxAuthTime -> Int]
          /\ \A t \in 1..MaxAuthTime : f[t] = a[t] + b[t]
      BY <1>1, <2>1, <2>2 DEF Counts, AuthTimes
    <3> QED BY <3>1, AuthConstants, SumToPlus DEF Failures
  <2> QED BY <1>1, <2>1, <2>3, <2>4
<1> QED BY <1>2, <1>3

(* A failure that counts in the window it falls into. *)
LEMMA FailureCounted ==
    ASSUME NEW f, NEW g, NEW failures, NEW start, NEW now \in AuthTimes, AccountInv(f, failures, start, now),
           now < start + lockout_window, now >= lockout_window, failures < max_attempts,
           g \in Counts, g[now] = f[now] + 1, \A t \in AuthTimes : t # now => g[t] = f[t]
    PROVE  AccountInv(g, failures + 1, start, now)
<1>1. /\ f \in Counts /\ failures \in 0..max_attempts /\ start \in Nat /\ max_attempts \in Nat \ {0}
      /\ lockout_window \in Nat \ {0} /\ now \in Nat /\ MaxAuthTime \in Nat /\ now <= MaxAuthTime
  BY AuthConstants DEF AccountInv, AuthTimes
<1>2. failures # 0
  BY <1>1 DEF AccountInv
<1>3. start \in 1..now /\ failures + 1 \in 0..max_attempts /\ failures + 1 # 0
  BY <1>1, <1>2 DEF AccountInv
<1>4. \A t \in AuthTimes : g[t] # 0 => t <= now /\ t < start + lockout_window /\ t > now - lockout_window
  BY <1>1, <1>2 DEF AccountInv
<1>5. ASSUME NEW lo \in Int, NEW hi \in Int, lo <= now, now <= hi
      PROVE  Failures(Span(g, lo, hi)) = Failures(Span(f, lo, hi)) + 1
  <2> DEFINE a == Span(f, lo, hi)
             b == Span(g, lo, hi)
  <2>1. a \in Counts /\ b \in Counts
    BY <1>1, SpanCounts
  <2>2. b[now] = a[now] + 1 /\ \A t \in AuthTimes : t # now => b[t] = a[t]
    BY <1>5 DEF Span
  <2> HIDE DEF a, b
  <2>3. Failures(b) = Failures(a) + 1
    BY <2>1, <2>2, OneMoreCounted
  <2> QED BY <2>3 DEF a, b
<1>6. ASSUME NEW lo \in Int, NEW hi \in Int, ~(lo <= now /\ now <= hi)
      PROVE  Span(g, lo, hi) = Span(f, lo, hi)
  BY <1>6 DEF Span
<1>7. Failures(Span(g, start, MaxAuthTime)) <= failures + 1
  <2>1. Failures(Span(f, start, MaxAuthTime)) \in Nat /\ Failures(Span(f, start, MaxAuthTime)) <= failures
    BY <1>1, <1>2, SpanCounts DEF AccountInv
  <2>2. Failures(Span(g, start, MaxAuthTime)) = Failures(Span(f, start, MaxAuthTime)) + 1
    BY <1>1, <1>3, <1>5
  <2> QED BY <1>1, <2>1, <2>2
<1>8. Failures(Span(g, start + 1, MaxAuthTime)) <= (failures + 1) - 1
  <2>1. start + 1 \in Int /\ MaxAuthTime \in Int
    BY <1>1
  <2>2. Failures(Span(f, start + 1, MaxAuthTime)) \in Nat /\ Failures(Span(f, start + 1, MaxAuthTime)) <= failures - 1
    BY <1>1, <1>2, <2>1, SpanCounts DEF AccountInv
  <2>3. CASE start + 1 <= now
    <3>1. Failures(Span(g, start + 1, MaxAuthTime)) = Failures(Span(f, start + 1, MaxAuthTime)) + 1
      BY <1>1, <1>5, <2>1, <2>3
    <3> QED BY <1>1, <2>2, <3>1
  <2>4. CASE ~(start + 1 <= now)
    <3>1. Span(g, start + 1, MaxAuthTime) = Span(f, start + 1, MaxAuthTime)
      BY <1>6, <2>1, <2>4
    <3> QED BY <1>1, <2>2, <3>1
  <2> QED BY <2>3, <2>4
<1>9. Failures(Span(g, 0, start - 1)) <= max_attempts - 1
  <2>1. start - 1 \in Int /\ 0 \in Int /\ ~(now <= start - 1)
    BY <1>1, <1>3
  <2>2. Span(g, 0, start - 1) = Span(f, 0, start - 1)
    BY <1>6, <2>1
  <2> QED BY <1>2, <2>2 DEF AccountInv
<1> QED BY <1>1, <1>3, <1>4, <1>7, <1>8, <1>9 DEF AccountInv

(* A failure that starts a window. *)
LEMMA FailureStarts ==
    ASSUME NEW f, NEW g, NEW failures, NEW start, NEW now \in AuthTimes, AccountInv(f, failures, start, now),
           now >= start + lockout_window,
           g \in Counts, g[now] = f[now] + 1, \A t \in AuthTimes : t # now => g[t] = f[t]
    PROVE  AccountInv(g, 1, now, now)
<1>1. /\ f \in Counts /\ failures \in 0..max_attempts /\ start \in Nat /\ max_attempts \in Nat \ {0}
      /\ lockout_window \in Nat \ {0} /\ now \in Nat \ {0} /\ MaxAuthTime \in Nat /\ now <= MaxAuthTime
  BY AuthConstants DEF AccountInv, AuthTimes
<1>2. \A t \in AuthTimes : f[t] # 0 => failures # 0 /\ t < now /\ t > start /\ t > now - lockout_window
  <2> SUFFICES ASSUME NEW t \in AuthTimes, f[t] # 0 PROVE failures # 0 /\ t < now /\ t > start /\ t > now - lockout_window
    OBVIOUS
  <2>1. failures # 0
    BY <1>1 DEF AccountInv
  <2>2. t < start + lockout_window /\ t > now - lockout_window /\ t \in Int
    BY <2>1 DEF AccountInv, AuthTimes
  <2> QED BY <1>1, <2>1, <2>2
<1>3. f[now] = 0 /\ g[now] = 1
  <2>1. f[now] = 0
    BY <1>1, <1>2
  <2> QED BY <2>1
<1>4. \A t \in AuthTimes : g[t] # 0 => t <= now /\ t < now + lockout_window /\ t > now - lockout_window
  <2> SUFFICES ASSUME NEW t \in AuthTimes, g[t] # 0 PROVE t <= now /\ t < now + lockout_window /\ t > now - lockout_window
    OBVIOUS
  <2>1. t \in Int
    BY DEF AuthTimes
  <2>2. CASE t = now
    BY <1>1, <2>2
  <2>3. CASE t # now
    <3>1. f[t] # 0
      BY <2>3
    <3> QED BY <1>1, <1>2, <2>1, <3>1
  <2> QED BY <2>2, <2>3
<1>5. Failures(Span(g, now + 1, MaxAuthTime)) = 0
  <2>1. Span(g, now + 1, MaxAuthTime) \in Counts
    BY <1>1, SpanCounts
  <2>2. \A t \in AuthTimes : Span(g, now + 1, MaxAuthTime)[t] = 0
    <3> SUFFICES ASSUME NEW t \in AuthTimes PROVE Span(g, now + 1, MaxAuthTime)[t] = 0
      OBVIOUS
    <3>1. t \in Int
      BY DEF AuthTimes
    <3>2. now + 1 <= t => g[t] = 0
      BY <1>1, <1>4, <3>1
    <3> QED BY <3>2 DEF Span
  <2> QED BY <2>1, <2>2, NoneCounted
<1>6. Failures(Span(g, now, MaxAuthTime)) = 1
  <2> DEFINE a == Span(g, now + 1, MaxAuthTime)
             b == Span(g, now, MaxAuthTime)
  <2>1. a \in Counts /\ b \in Counts
    BY <1>1, SpanCounts
  <2>2. b[now] = a[now] + 1
    BY <1>1, <1>3 DEF Span
  <2>3. \A t \in AuthTimes : t # now => b[t] = a[t]
    BY <1>1 DEF Span, AuthTimes
  <2> HIDE DEF a, b
  <2>4. Failures(b) = Failures(a) + 1
    BY <2>1, <2>2, <2>3, OneMoreCounted
  <2>5. Failures(a) = 0
    BY <1>5 DEF a
  <2> QED BY <2>4, <2>5 DEF b
<1>7. Failures(Span(g, 0, now - 1)) <= max_attempts - 1
  <2> DEFINE a == Span(g, 0, now - 1)
             b == Span(f, start + 1, MaxAuthTime)
  <2>1. a \in Counts /\ b \in Counts
    <3>1. 0 \in Int /\ now - 1 \in Int /\ start + 1 \in Int /\ MaxAuthTime \in Int
      BY <1>1
    <3> QED BY <1>1, <3>1, SpanCounts
  <2>2. CASE failures = 0
    <3>1. \A t \in AuthTimes : a[t] = 0
      <4> SUFFICES ASSUME NEW t \in AuthTimes PROVE a[t] = 0
        OBVIOUS
      <4>1. f[t] = 0 /\ t \in Int
        BY <2>2 DEF AccountInv, AuthTimes
      <4>2. t <= now - 1 => g[t] = 0
        BY <1>1, <4>1
      <4> QED BY <4>2 DEF Span
    <3> HIDE DEF a
    <3>2. Failures(a) = 0
      BY <2>1, <3>1, NoneCounted
    <3>3. 0 <= max_attempts - 1
      BY <1>1
    <3> QED BY <3>2, <3>3 DEF a
  <2>3. CASE failures # 0
    <3>1. \A t \in AuthTimes : a[t] <= b[t]
      <4> SUFFICES ASSUME NEW t \in AuthTimes PROVE a[t] <= b[t]
        OBVIOUS
      <4>1. t \in Int /\ 0 <= t /\ t <= MaxAuthTime /\ f[t] \in Nat
        BY <1>1 DEF AuthTimes, Counts
      <4>2. CASE t <= now - 1 /\ f[t] # 0
        <5>1. a[t] = f[t]
          BY <1>1, <4>1, <4>2 DEF Span
        <5>2. b[t] = f[t]
          BY <1>1, <1>2, <4>1, <4>2 DEF Span
        <5> QED BY <4>1, <5>1, <5>2
      <4>3. CASE ~(t <= now - 1 /\ f[t] # 0)
        <5>1. a[t] = 0
          BY <1>1, <4>1, <4>3 DEF Span
        <5>2. b[t] \in Nat
          BY <2>1 DEF Counts
        <5> QED BY <5>1, <5>2
      <4> QED BY <4>2, <4>3
    <3>2. Failures(b) <= failures - 1
      BY <2>3 DEF AccountInv
    <3>3. Failures(a) \in Nat /\ Failures(b) \in Nat
      <4>1. 0 \in Int /\ now - 1 \in Int /\ start + 1 \in Int /\ MaxAuthTime \in Int
        BY <1>1
      <4> QED BY <1>1, <4>1, SpanCounts
    <3> HIDE DEF a, b
    <3>4. Failures(a) <= Failures(b)
      BY <2>1, <3>1, FewerCounted
    <3>5. Failures(a) <= max_attempts - 1
      BY <1>1, <3>2, <3>3, <3>4
    <3> QED BY <3>5 DEF a
  <2> QED BY <2>2, <2>3
<1> QED BY <1>1, <1>4, <1>5, <1>6, <1>7 DEF AccountInv

(* Time passes: what is out of a window's reach is forgotten. *)
LEMMA AccountTick ==
    ASSUME NEW f, NEW g, NEW failures, NEW start, NEW now \in AuthTimes, AccountInv(f, failures, start, now),
           g = [t \in AuthTimes |-> IF t > (now + 1) - lockout_window THEN f[t] ELSE 0]
    PROVE  AccountInv(g, failures, start, now + 1)
<1>1. /\ f \in Counts /\ failures \in 0..max_attempts /\ start \in Nat /\ max_attempts \in Nat \ {0}
      /\ lockout_window \in Nat \ {0} /\ now \in Nat \ {0} /\ MaxAuthTime \in Nat
  BY AuthConstants DEF AccountInv, AuthTimes
<1>2. \A t \in AuthTimes : f[t] \in Nat /\ g[t] = IF t > (now + 1) - lockout_window THEN f[t] ELSE 0
  BY <1>1 DEF Counts
<1>3. g \in Counts /\ \A t \in AuthTimes : g[t] <= f[t]
  BY <1>2 DEF Counts
<1>4. ASSUME NEW lo \in Int, NEW hi \in Int PROVE Failures(Span(g, lo, hi)) <= Failures(Span(f, lo, hi))
  <2> DEFINE a == Span(g, lo, hi)
             b == Span(f, lo, hi)
  <2>1. a \in Counts /\ b \in Counts
    BY <1>1, <1>3, SpanCounts
  <2>2. \A t \in AuthTimes : a[t] <= b[t]
    BY <1>3 DEF Span
  <2> HIDE DEF a, b
  <2>3. Failures(a) <= Failures(b)
    BY <2>1, <2>2, FewerCounted
  <2> QED BY <2>3 DEF a, b
<1>5. CASE failures = 0
  <2>1. \A t \in AuthTimes : g[t] = 0
    BY <1>2, <1>5 DEF AccountInv
  <2> QED BY <1>1, <1>3, <1>5, <2>1 DEF AccountInv
<1>6. CASE failures # 0
  <2>1. /\ start \in 1..now
        /\ \A t \in AuthTimes : f[t] # 0 => t <= now /\ t < start + lockout_window
        /\ Failures(Span(f, start, MaxAuthTime)) <= failures
        /\ Failures(Span(f, start + 1, MaxAuthTime)) <= failures - 1
        /\ Failures(Span(f, 0, start - 1)) <= max_attempts - 1
    BY <1>6 DEF AccountInv
  <2>2. start \in 1..(now + 1)
    BY <1>1, <2>1
  <2>3. \A t \in AuthTimes : g[t] # 0 => t <= now + 1 /\ t < start + lockout_window /\ t > (now + 1) - lockout_window
    BY <1>1, <1>2, <2>1 DEF AuthTimes
  <2>4. 0 \in Int /\ start \in Int /\ start + 1 \in Int /\ start - 1 \in Int /\ MaxAuthTime \in Int
    BY <1>1
  <2>5. /\ Failures(Span(g, start, MaxAuthTime)) \in Nat /\ Failures(Span(f, start, MaxAuthTime)) \in Nat
        /\ Failures(Span(g, start + 1, MaxAuthTime)) \in Nat /\ Failures(Span(f, start + 1, MaxAuthTime)) \in Nat
        /\ Failures(Span(g, 0, start - 1)) \in Nat /\ Failures(Span(f, 0, start - 1)) \in Nat
    BY <1>1, <1>3, <2>4, SpanCounts
  <2>6. Failures(Span(g, start, MaxAuthTime)) <= failures
    <3>1. Failures(Span(g, start, MaxAuthTime)) <= Failures(Span(f, start, MaxAuthTime))
      BY <1>4, <2>4
    <3> QED BY <1>1, <2>1, <2>5, <3>1
  <2>7. Failures(Span(g, start + 1, MaxAuthTime)) <= failures - 1
    <3>1. Failures(Span(g, start + 1, MaxAuthTime)) <= Failures(Span(f, start + 1, MaxAuthTime))
      BY <1>4, <2>4
    <3> QED BY <1>1, <2>1, <2>5, <3>1
  <2>8. Failures(Span(g, 0, start - 1)) <= max_attempts - 1
    <3>1. Failures(Span(g, 0, start - 1)) <= Failures(Span(f, 0, start - 1))
      BY <1>4, <2>4
    <3> QED BY <1>1, <2>1, <2>5, <3>1
  <2> QED BY <1>1, <1>3, <1>6, <2>2, <2>3, <2>6, <2>7, <2>8 DEF AccountInv
<1> QED BY <1>5, <1>6

RateState == [failures : Nat, window_start : Nat]

LimitsInv ==
    /\ authNow \in lockout_window..MaxAuthTime
    /\ limits \in [Users -> RateState] /\ failedAt \in [Users -> Counts]
    /\ \A u \in Users : AccountInv(failedAt[u], limits[u].failures, limits[u].window_start, authNow)

LEMMA FailureKeeps ==
    ASSUME LimitsInv, NEW u \in Users, ~is_locked(u), record_login_failure(u), authNow' = authNow
    PROVE  LimitsInv'
<1> DEFINE f == failedAt[u]
           g == [f EXCEPT ![authNow] = f[authNow] + 1]
           k == limits[u].failures
           s == limits[u].window_start
           l == IF authNow >= s + lockout_window THEN [failures |-> 1, window_start |-> authNow]
                ELSE [failures |-> k + 1, window_start |-> s]
<1>1. /\ authNow \in AuthTimes /\ authNow \in Nat /\ authNow >= lockout_window /\ lockout_window \in Nat /\ max_attempts \in Nat
      /\ limits \in [Users -> RateState] /\ failedAt \in [Users -> Counts]
  BY AuthConstants DEF LimitsInv, AuthTimes
<1>2. limits[u] \in RateState /\ k \in Nat /\ s \in Nat /\ f \in Counts /\ AccountInv(f, k, s, authNow)
  BY <1>1 DEF LimitsInv, RateState
<1>3. limits' = [limits EXCEPT ![u] = l] /\ failedAt' = [failedAt EXCEPT ![u] = g]
  <2>1. [limits[u] EXCEPT !.failures = limits[u].failures + 1] = [failures |-> k + 1, window_start |-> s]
    BY <1>2 DEF RateState
  <2>2. limits' = [limits EXCEPT ![u] = IF authNow >= limits[u].window_start + lockout_window
                                        THEN [failures |-> 1, window_start |-> authNow]
                                        ELSE [limits[u] EXCEPT !.failures = limits[u].failures + 1]]
    BY DEF record_login_failure
  <2>3. failedAt' = [failedAt EXCEPT ![u] = g]
    BY DEF record_login_failure
  <2> QED BY <2>1, <2>2, <2>3
<1>4. g \in Counts /\ g[authNow] = f[authNow] + 1 /\ \A t \in AuthTimes : t # authNow => g[t] = f[t]
  BY <1>1, <1>2 DEF Counts
<1>5. l \in RateState /\ AccountInv(g, l.failures, l.window_start, authNow)
  <2>1. CASE authNow >= s + lockout_window
    <3>1. l = [failures |-> 1, window_start |-> authNow]
      BY <2>1
    <3> HIDE DEF f, g, k, s, l
    <3>2. AccountInv(g, 1, authNow, authNow)
      BY <1>1, <1>2, <1>4, <2>1, FailureStarts
    <3> QED BY <1>1, <3>1, <3>2 DEF RateState
  <2>2. CASE ~(authNow >= s + lockout_window)
    <3>1. l = [failures |-> k + 1, window_start |-> s] /\ authNow < s + lockout_window
      BY <1>1, <1>2, <2>2
    <3>2. k < max_attempts
      BY <1>1, <1>2, <3>1 DEF is_locked
    <3> HIDE DEF f, g, k, s, l
    <3>3. AccountInv(g, k + 1, s, authNow)
      BY <1>1, <1>2, <1>4, <3>1, <3>2, FailureCounted
    <3> QED BY <1>2, <3>1, <3>3 DEF RateState
  <2> QED BY <2>1, <2>2
<1> HIDE DEF g, l
<1>6. limits' \in [Users -> RateState] /\ failedAt' \in [Users -> Counts]
  BY <1>1, <1>3, <1>4, <1>5
<1>7. \A v \in Users : /\ limits'[v] = IF v = u THEN l ELSE limits[v]
                       /\ failedAt'[v] = IF v = u THEN g ELSE failedAt[v]
  BY <1>1, <1>3
<1>8. \A v \in Users : AccountInv(failedAt'[v], limits'[v].failures, limits'[v].window_start, authNow)
  <2> SUFFICES ASSUME NEW v \in Users PROVE AccountInv(failedAt'[v], limits'[v].failures, limits'[v].window_start, authNow)
    OBVIOUS
  <2>1. CASE v = u
    BY <1>5, <1>7, <2>1
  <2>2. CASE v # u
    <3>1. limits'[v] = limits[v] /\ failedAt'[v] = failedAt[v]
      BY <1>7, <2>2
    <3>2. AccountInv(failedAt[v], limits[v].failures, limits[v].window_start, authNow)
      BY DEF LimitsInv
    <3> QED BY <3>1, <3>2
  <2> QED BY <2>1, <2>2
<1> QED BY <1>6, <1>8 DEF LimitsInv, AccountInv, Counts, AuthTimes, Span, Failures

LEMMA NoneFailed == NoFailures \in Counts /\ \A now \in Nat : AccountInv(NoFailures, 0, 0, now)
<1>1. NoFailures \in Counts /\ \A t \in AuthTimes : NoFailures[t] = 0
  BY DEF NoFailures, Counts, AuthTimes
<1>2. 0 \in 0..max_attempts /\ 0 \in Nat
  BY AuthConstants
<1> QED BY <1>1, <1>2 DEF AccountInv

LEMMA SuccessKeeps ==
    ASSUME LimitsInv, NEW u \in Users, record_login_success(u), authNow' = authNow
    PROVE  LimitsInv'
<1> DEFINE l == [failures |-> 0, window_start |-> 0]
<1>1. limits \in [Users -> RateState] /\ failedAt \in [Users -> Counts] /\ authNow \in Nat
  BY AuthConstants DEF LimitsInv
<1>2. limits' = [limits EXCEPT ![u] = l] /\ failedAt' = [failedAt EXCEPT ![u] = NoFailures]
  BY DEF record_login_success
<1>3. l \in RateState /\ l.failures = 0 /\ l.window_start = 0
  BY DEF RateState
<1> HIDE DEF l
<1>4. limits' \in [Users -> RateState] /\ failedAt' \in [Users -> Counts]
  BY <1>1, <1>2, <1>3, NoneFailed
<1>5. \A v \in Users : /\ limits'[v] = IF v = u THEN l ELSE limits[v]
                       /\ failedAt'[v] = IF v = u THEN NoFailures ELSE failedAt[v]
  BY <1>1, <1>2
<1>6. \A v \in Users : AccountInv(failedAt'[v], limits'[v].failures, limits'[v].window_start, authNow)
  <2> SUFFICES ASSUME NEW v \in Users PROVE AccountInv(failedAt'[v], limits'[v].failures, limits'[v].window_start, authNow)
    OBVIOUS
  <2>1. CASE v = u
    <3>1. AccountInv(NoFailures, 0, 0, authNow)
      BY <1>1, NoneFailed
    <3> QED BY <1>3, <1>5, <2>1, <3>1
  <2>2. CASE v # u
    <3>1. limits'[v] = limits[v] /\ failedAt'[v] = failedAt[v]
      BY <1>5, <2>2
    <3>2. AccountInv(failedAt[v], limits[v].failures, limits[v].window_start, authNow)
      BY DEF LimitsInv
    <3> QED BY <3>1, <3>2
  <2> QED BY <2>1, <2>2
<1> QED BY <1>4, <1>6 DEF LimitsInv, AccountInv, Counts, AuthTimes, Span, Failures

LEMMA TickKeeps == ASSUME LimitsInv, auth_tick PROVE LimitsInv'
<1>1. /\ limits \in [Users -> RateState] /\ failedAt \in [Users -> Counts]
      /\ authNow \in AuthTimes /\ authNow + 1 \in lockout_window..MaxAuthTime
  BY AuthConstants DEF LimitsInv, auth_tick, AuthTimes
<1>2. limits' = limits /\ authNow' = authNow + 1
      /\ failedAt' = [u \in Users |-> [t \in AuthTimes |-> IF t > (authNow + 1) - lockout_window THEN failedAt[u][t] ELSE 0]]
  BY DEF auth_tick, AuthTimes
<1>3. ASSUME NEW u \in Users PROVE AccountInv(failedAt'[u], limits[u].failures, limits[u].window_start, authNow + 1)
  <2>1. failedAt'[u] = [t \in AuthTimes |-> IF t > (authNow + 1) - lockout_window THEN failedAt[u][t] ELSE 0]
    BY <1>2
  <2>2. AccountInv(failedAt[u], limits[u].failures, limits[u].window_start, authNow)
    BY DEF LimitsInv
  <2> QED BY <1>1, <2>1, <2>2, AccountTick
<1>4. failedAt' \in [Users -> Counts]
  <2>1. \A u \in Users : failedAt'[u] \in Counts
    BY <1>3 DEF AccountInv
  <2> QED BY <1>2, <2>1
<1>5. \A u \in Users : AccountInv(failedAt'[u], limits'[u].failures, limits'[u].window_start, authNow')
  BY <1>2, <1>3
<1>6. authNow' \in lockout_window..MaxAuthTime /\ limits' \in [Users -> RateState]
  BY <1>1, <1>2
<1> QED BY <1>4, <1>5, <1>6 DEF LimitsInv, RateState, AccountInv, Counts, AuthTimes, Span, Failures

-----------------------------------------------------------------------------
(* Sessions. *)

Factors(u) == IF u \in Enrolled THEN {"password", "code"} ELSE {"password"}

Session ==
    [user : Users, issued_at : Nat, last_activity : Nat, absolute_expires : Nat, idle_expires : Nat,
     fully_authenticated : BOOLEAN]

(* A session's deadlines follow from its times, and one that is fully      *)
(* authenticated was given for all its factors. *)
Honest(x, what) ==
    /\ x \in Session
    /\ x.absolute_expires = x.issued_at + absolute_ttl /\ x.idle_expires = x.last_activity + idle_ttl
    /\ x.fully_authenticated => what = Factors(x.user)

TokensInv ==
    /\ created \in Nat /\ DOMAIN tokens \subseteq 1..created /\ DOMAIN tokens \subseteq DOMAIN proven
    /\ ended \subseteq 1..created /\ ended \cap DOMAIN tokens = {}
    /\ \A t \in DOMAIN tokens : Honest(tokens[t], proven[t])
    /\ accepted # NoToken =>
         /\ accepted.age < absolute_ttl /\ accepted.pause < idle_ttl
         /\ accepted.token \in DOMAIN tokens \cup ended

LEMMA CreateKeeps ==
    ASSUME TokensInv, authNow \in Nat, NEW u \in Users, NEW fully \in BOOLEAN, NEW what, create(u, fully, what),
           fully => what = Factors(u), UNCHANGED <<ended, accepted>>
    PROVE  TokensInv'
<1> DEFINE x == [user |-> u, issued_at |-> authNow, last_activity |-> authNow,
                 absolute_expires |-> authNow + absolute_ttl, idle_expires |-> authNow + idle_ttl,
                 fully_authenticated |-> fully]
           n == created + 1
<1>1. created' = n /\ tokens' = Assigned(tokens, n, x) /\ proven' = Assigned(proven, n, what)
  BY DEF create
<1>2. Honest(x, what)
  BY AuthConstants DEF Honest, Session
<1> HIDE DEF x
<1>3. /\ DOMAIN tokens' = DOMAIN tokens \cup {n} /\ tokens'[n] = x /\ \A t \in DOMAIN tokens : t # n => tokens'[t] = tokens[t]
      /\ DOMAIN proven' = DOMAIN proven \cup {n} /\ proven'[n] = what /\ \A t \in DOMAIN proven : t # n => proven'[t] = proven[t]
  BY <1>1 DEF Assigned
<1>4. created \in Nat /\ n \in Nat /\ n \notin 1..created /\ n \in 1..n /\ 1..created \subseteq 1..n
  BY DEF TokensInv
<1> HIDE DEF n
<1>5. \A t \in DOMAIN tokens' : Honest(tokens'[t], proven'[t])
  <2> SUFFICES ASSUME NEW t \in DOMAIN tokens' PROVE Honest(tokens'[t], proven'[t])
    OBVIOUS
  <2>1. CASE t = n
    BY <1>2, <1>3, <2>1
  <2>2. CASE t # n
    <3>1. t \in DOMAIN tokens /\ t \in DOMAIN proven
      BY <1>3, <2>2 DEF TokensInv
    <3>2. Honest(tokens[t], proven[t])
      BY <3>1 DEF TokensInv
    <3> QED BY <1>3, <2>2, <3>1, <3>2
  <2> QED BY <2>1, <2>2
<1>6. ended' = ended /\ accepted' = accepted
  OBVIOUS
<1>7. DOMAIN tokens' \subseteq 1..created' /\ DOMAIN tokens' \subseteq DOMAIN proven' /\ ended' \subseteq 1..created'
      /\ ended' \cap DOMAIN tokens' = {}
  BY <1>1, <1>3, <1>4, <1>6 DEF TokensInv
<1>8. accepted' # NoToken =>
         /\ accepted'.age < absolute_ttl /\ accepted'.pause < idle_ttl
         /\ accepted'.token \in DOMAIN tokens' \cup ended'
  BY <1>3, <1>6 DEF TokensInv
<1> QED BY <1>1, <1>4, <1>5, <1>7, <1>8 DEF TokensInv, Honest, Session, Factors, Users

(* Sessions that end stay ended. *)
LEMMA EndKeeps ==
    ASSUME TokensInv, NEW ts \in SUBSET DOMAIN tokens, tokens' = Without(ts), ended' = ended \cup ts,
           UNCHANGED <<created, proven, accepted>>
    PROVE  TokensInv'
<1>1. DOMAIN tokens' = DOMAIN tokens \ ts /\ \A t \in DOMAIN tokens' : tokens'[t] = tokens[t]
  BY DEF Without
<1>2. \A t \in DOMAIN tokens' : Honest(tokens'[t], proven'[t])
  BY <1>1 DEF TokensInv
<1> QED BY <1>1, <1>2 DEF TokensInv, Honest, Session, Factors, Users

LEMMA ValidateKeeps == ASSUME TokensInv, authNow \in Nat, NEW t, validate(t) PROVE TokensInv'
<1>1. t \in DOMAIN tokens /\ UNCHANGED <<created, proven>>
  BY DEF validate
<1>2. CASE is_live(t)
  <2> DEFINE x == tokens[t]
             y == [x EXCEPT !.last_activity = authNow, !.idle_expires = authNow + idle_ttl]
  <2>0. y = [[x EXCEPT !.last_activity = authNow] EXCEPT !.idle_expires = authNow + idle_ttl]
    OBVIOUS
  <2>1. /\ tokens' = [tokens EXCEPT ![t] = y] /\ ended' = ended
        /\ accepted' = [token |-> t, age |-> authNow - x.issued_at, pause |-> authNow - x.last_activity]
    BY <1>2 DEF validate
  <2>2. Honest(x, proven[t])
    BY <1>1 DEF TokensInv
  <2>3. authNow < x.absolute_expires /\ authNow < x.idle_expires
    BY <1>2 DEF is_live
  <2> HIDE DEF x, y
  <2>4. x \in Session /\ x.issued_at \in Nat /\ x.last_activity \in Nat
    BY <2>2 DEF Honest, Session
  <2>5. y = [user |-> x.user, issued_at |-> x.issued_at, last_activity |-> authNow,
             absolute_expires |-> x.absolute_expires, idle_expires |-> authNow + idle_ttl,
             fully_authenticated |-> x.fully_authenticated]
    BY <2>0, <2>4 DEF Session
  <2>6. Honest(y, proven[t])
    BY <2>2, <2>4, <2>5, AuthConstants DEF Honest, Session
  <2>7. authNow - x.issued_at < absolute_ttl /\ authNow - x.last_activity < idle_ttl
    BY <2>2, <2>3, <2>4, AuthConstants DEF Honest
  <2>8. accepted'.token = t /\ accepted'.age < absolute_ttl /\ accepted'.pause < idle_ttl
    BY <2>1, <2>7
  <2>9. DOMAIN tokens' = DOMAIN tokens /\ \A d \in DOMAIN tokens : tokens'[d] = IF d = t THEN y ELSE tokens[d]
    BY <1>1, <2>1
  <2>10. \A d \in DOMAIN tokens' : Honest(tokens'[d], proven'[d])
    <3> SUFFICES ASSUME NEW d \in DOMAIN tokens PROVE Honest(tokens'[d], proven[d])
      BY <1>1, <2>9
    <3>1. CASE d = t
      BY <2>6, <2>9, <3>1
    <3>2. CASE d # t
      <4>1. tokens'[d] = tokens[d]
        BY <2>9, <3>2
      <4> QED BY <4>1 DEF TokensInv
    <3> QED BY <3>1, <3>2
  <2> QED BY <1>1, <2>1, <2>8, <2>9, <2>10 DEF TokensInv, Honest, Session, Factors, Users
<1>3. CASE ~is_live(t)
  <2>1. tokens' = Without({t}) /\ ended' = ended \cup {t} /\ accepted' = accepted
    BY <1>3 DEF validate
  <2>2. {t} \in SUBSET DOMAIN tokens
    BY <1>1
  <2> QED BY <1>1, <2>1, <2>2, EndKeeps
<1> QED BY <1>2, <1>3

LEMMA LoginsStep == LimitsInv /\ TokensInv /\ [LoginsNext]_authVars => LimitsInv' /\ TokensInv'
<1> SUFFICES ASSUME LimitsInv, TokensInv, [LoginsNext]_authVars PROVE LimitsInv' /\ TokensInv'
  OBVIOUS
<1>0. authNow \in Nat
  BY AuthConstants DEF LimitsInv
<1>1. ASSUME UNCHANGED <<authNow, limits, failedAt>> PROVE LimitsInv'
  BY <1>1 DEF LimitsInv, AccountInv, Counts, AuthTimes, Span, Failures
<1>2. ASSUME UNCHANGED <<tokens, created, proven, ended, accepted>> PROVE TokensInv'
  BY <1>2 DEF TokensInv, Honest, Session, Factors, Users
<1>3. CASE UNCHANGED authVars
  BY <1>1, <1>2, <1>3 DEF authVars
<1>4. ASSUME NEW u \in Users, NEW p, NEW code, login_refused(u, p, code) PROVE LimitsInv' /\ TokensInv'
  <2>1. ~is_locked(u) /\ record_login_failure(u) /\ UNCHANGED <<authNow, tokens, created, proven, ended, accepted>>
    BY <1>4 DEF login_refused
  <2> QED BY <1>2, <2>1, FailureKeeps
<1>5. ASSUME NEW u \in Users, login_provisional(u) PROVE LimitsInv' /\ TokensInv'
  <2>1. create(u, FALSE, {"password"}) /\ UNCHANGED <<authNow, limits, failedAt, ended, accepted>>
    BY <1>5 DEF login_provisional
  <2> QED BY <1>0, <1>1, <2>1, CreateKeeps
<1>6. ASSUME NEW u \in Users, NEW code, login_complete(u, code) PROVE LimitsInv' /\ TokensInv'
  <2>1. create(u, TRUE, Factors(u)) /\ record_login_success(u) /\ UNCHANGED <<authNow, ended, accepted>>
    BY <1>6 DEF login_complete, Factors
  <2> QED BY <1>0, <2>1, CreateKeeps, SuccessKeeps
<1>7. ASSUME NEW t, validate(t) PROVE LimitsInv' /\ TokensInv'
  <2>1. UNCHANGED <<authNow, limits, failedAt>>
    BY <1>7 DEF validate
  <2> QED BY <1>0, <1>1, <1>7, <2>1, ValidateKeeps
<1>8. ASSUME NEW ts, ts \subseteq DOMAIN tokens, End_tokens(ts) PROVE LimitsInv' /\ TokensInv'
  <2>1. UNCHANGED <<authNow, limits, failedAt>> /\ tokens' = Without(ts) /\ ended' = ended \cup ts
        /\ UNCHANGED <<created, proven, accepted>>
    BY <1>8 DEF End_tokens
  <2>2. ts \in SUBSET DOMAIN tokens
    BY <1>8
  <2> QED BY <1>1, <2>1, <2>2, EndKeeps
<1>9. ASSUME NEW t, invalidate(t) PROVE LimitsInv' /\ TokensInv'
  BY <1>8, <1>9 DEF invalidate
<1>10. ASSUME NEW u, invalidate_user(u) PROVE LimitsInv' /\ TokensInv'
  <2> DEFINE ts == {t \in DOMAIN tokens : tokens[t].user = u}
  <2>1. ts \subseteq DOMAIN tokens /\ End_tokens(ts)
    BY <1>10 DEF invalidate_user
  <2> HIDE DEF ts
  <2> QED BY <1>8, <2>1
<1>11. ASSUME gc_sessions PROVE LimitsInv' /\ TokensInv'
  <2> DEFINE ts == {t \in DOMAIN tokens : ~is_live(t)}
  <2>1. ts \subseteq DOMAIN tokens /\ End_tokens(ts)
    BY <1>11 DEF gc_sessions
  <2> HIDE DEF ts
  <2> QED BY <1>8, <2>1
<1>12. ASSUME auth_tick PROVE LimitsInv' /\ TokensInv'
  <2>1. UNCHANGED <<tokens, created, proven, ended, accepted>>
    BY <1>12 DEF auth_tick
  <2> QED BY <1>2, <1>12, <2>1, TickKeeps
<1> QED BY <1>3, <1>4, <1>5, <1>6, <1>7, <1>9, <1>10, <1>11, <1>12 DEF LoginsNext

LEMMA LoginsInvGives == LimitsInv /\ TokensInv => LoginsSafe
<1> SUFFICES ASSUME LimitsInv, TokensInv PROVE LoginsSafe
  OBVIOUS
<1>1. ASSUME NEW u \in Users PROVE SumTo(MaxAuthTime, failedAt[u]) < 2 * max_attempts
  <2>1. AccountInv(failedAt[u], limits[u].failures, limits[u].window_start, authNow)
    BY DEF LimitsInv
  <2>2. authNow \in AuthTimes
    BY AuthConstants DEF LimitsInv, AuthTimes
  <2>3. Failures(failedAt[u]) < 2 * max_attempts
    BY <2>1, <2>2, AccountTotal
  <2> QED BY <2>3 DEF Failures
<1>2. \A t \in DOMAIN tokens : tokens[t].fully_authenticated =>
         proven[t] = (IF tokens[t].user \in Enrolled THEN {"password", "code"} ELSE {"password"})
  BY DEF TokensInv, Honest, Factors
<1> QED BY <1>1, <1>2 DEF TokensInv, LoginsSafe

-----------------------------------------------------------------------------
AegisParts ==
    /\ LoginsInit /\ [][LoginsNext]_authVars
    /\ AlertsInit /\ [][AlertsNext]_alertVars
    /\ ActionsInit /\ [][ActionsNext]_actionVars
    /\ ProfilerInit /\ [][ProfilerNext]_profilerVars

LEMMA AegisStart ==
    /\ LoginsInit => LimitsInv /\ TokensInv
    /\ AlertsInit => AlertsInv /\ IncidentInv
    /\ ActionsInit => ActionsInv
    /\ ProfilerInit => ProfilerInv
<1>1. ASSUME LoginsInit PROVE LimitsInv /\ TokensInv
  <2>1. authNow \in lockout_window..MaxAuthTime /\ lockout_window \in Nat
    BY <1>1, AuthConstants DEF LoginsInit
  <2>2. limits \in [Users -> RateState] /\ failedAt \in [Users -> Counts]
    BY <1>1, NoneFailed DEF LoginsInit, RateState
  <2>3. \A u \in Users : AccountInv(failedAt[u], limits[u].failures, limits[u].window_start, authNow)
    <3>1. \A u \in Users : failedAt[u] = NoFailures /\ limits[u].failures = 0 /\ limits[u].window_start = 0
      BY <1>1 DEF LoginsInit
    <3>2. AccountInv(NoFailures, 0, 0, authNow)
      BY <2>1, NoneFailed
    <3> QED BY <3>1, <3>2
  <2>4. TokensInv
    BY <1>1 DEF LoginsInit, TokensInv
  <2> QED BY <2>1, <2>2, <2>3, <2>4 DEF LimitsInv
<1>2. ASSUME AlertsInit PROVE AlertsInv /\ IncidentInv
  <2>1. open = <<>> /\ incident = <<>> /\ recorded = <<>> /\ alertClock = 0
    BY <1>2 DEF AlertsInit
  <2>2. \A c \in Conditions : closedAlerts[c] = <<>> /\ reports[c] = 0
    BY <1>2 DEF AlertsInit
  <2>3. Booked(<<>>, 0, 0)
    <3>1. <<>> \in Seq(ClosedAlert) /\ Len(<<>>) = 0
      OBVIOUS
    <3>2. Occurrences(<<>>) \in [1..0 -> Int]
      BY DEF Occurrences
    <3>3. SumTo(0, Occurrences(<<>>)) = 0
      <4>1. 0 \in Nat
        OBVIOUS
      <4> QED BY <3>2, <4>1, SumToNone
    <3> QED BY <3>1, <3>3 DEF Booked
  <2>4. AlertsInv
    <3>1. DOMAIN open = {} /\ DOMAIN reports = Conditions /\ DOMAIN closedAlerts = Conditions
      BY <1>2 DEF AlertsInit
    <3>2. 0 - 0 = 0 /\ 0 \in Nat
      OBVIOUS
    <3> QED BY <2>1, <2>2, <2>3, <3>1, <3>2 DEF AlertsInv
  <2>5. IncidentInv
    <3>1. Len(<<>>) = 0 /\ <<>> \in Seq(Nat)
      OBVIOUS
    <3>2. Min({0, TimelineCapacity}) = 0
      <4>1. 0 \in Int /\ TimelineCapacity \in Int /\ 0 <= TimelineCapacity
        BY AlertAssumption
      <4> QED BY <4>1, MinOfPair
    <3> QED BY <2>1, <3>1, <3>2 DEF IncidentInv
  <2> QED BY <2>4, <2>5
<1>3. ASSUME NEW c \in Nat \ {0} PROVE NewestOf(<<>>, <<>>, c)
  <2>1. 0 \in Int /\ c \in Int /\ 0 <= c
    OBVIOUS
  <2>2. Min({0, c}) = 0
    BY <2>1, MinOfPair
  <2> QED BY <2>2 DEF NewestOf
<1>4. ASSUME ActionsInit PROVE ActionsInv
  <2>1. auditLog = <<>> /\ happened = <<>> /\ bans = <<>> /\ actionClock = 0 /\ bannedUntil = [p \in Players |-> 0]
    BY <1>4 DEF ActionsInit
  <2>2. NewestOf(auditLog, happened, AuditCapacity)
    BY <1>3, <2>1, ActionAssumption
  <2>3. LongestKept
    BY <2>1 DEF LongestKept
  <2>4. BanEntries(happened) = {} /\ Cardinality({}) = 0
    BY <2>1, FS_EmptySet DEF BanEntries
  <2>5. Len(bans) = Cardinality(BanEntries(happened))
    BY <2>1, <2>4
  <2> QED BY <2>1, <2>2, <2>3, <2>5 DEF ActionsInv
<1>5. ASSUME ProfilerInit PROVE ProfilerInv
  <2>1. samples = <<>> /\ executions = <<>> /\ slow = 0
    BY <1>5 DEF ProfilerInit
  <2>2. NewestOf(samples, executions, SAMPLE_WINDOW)
    BY <1>3, <2>1, ProfilerAssumption
  <2>3. {i \in DOMAIN executions : executions[i] > SlowThreshold} = {} /\ Cardinality({}) = 0
    BY <2>1, FS_EmptySet
  <2> QED BY <2>1, <2>2, <2>3 DEF ProfilerInv
<1> QED BY <1>1, <1>2, <1>4, <1>5

(* The Aegis backend, for any users, limits, deadlines, capacities and     *)
(* number of attempts: no account is tried twice the allowed number of     *)
(* times within a lockout window however the failures are spread, no       *)
(* session outlives its deadlines or its end, each report is in one alert, *)
(* the audit log is the newest of what was applied and denied, and the     *)
(* percentiles are those of the newest samples. *)
THEOREM AegisAlwaysSound == AegisParts => []AegisSound
<1>1. LimitsInv /\ TokensInv /\ AlertsInv /\ IncidentInv /\ ActionsInv /\ ProfilerInv => AegisSound
  BY LoginsInvGives, AlertsInvGives, ActionsInvGives, ProfilerInvGives DEF AegisSound
<1> QED BY <1>1, AegisStart, LoginsStep, AlertsStep, ActionsStep, ProfilerStep, PTL DEF AegisParts
=============================================================================
