---------------------------- MODULE MCOperations -----------------------------
(***************************************************************************)
(* What keeps a server in operation, side by side: the admission of        *)
(* players, the resource lifecycle, the election of a leader among the     *)
(* central services, the circuit breaker before them and the registry of   *)
(* requests under way.  They share no variable, so a behaviour picks the   *)
(* one that moves and the others stay as they began; fairness is asked of  *)
(* the one that moves.  The resource chat has more scripts than one stop   *)
(* releases.                                                               *)
(***************************************************************************)
EXTENDS Admission, Lifecycle, LeaderElection, CircuitBreaker, Rpc

CONSTANTS spawn, chat

MCScriptCount(r) == IF r = chat THEN ReleaseLimit + 1 ELSE 1

VARIABLE moving     \* the part that moves

operationsVars ==
    <<admissionVars, lifeVars, electionVars, breakerVars, rpcVars, moving>>

OperationsInit ==
    /\ AdmissionInit /\ LifecycleInit /\ ElectionInit /\ BreakerInit /\ RpcInit
    /\ moving \in {"admission", "lifecycle", "election", "breaker", "rpc"}

OperationsNext ==
    \/ /\ moving = "admission" /\ AdmissionNext
       /\ UNCHANGED <<lifeVars, electionVars, breakerVars, rpcVars, moving>>
    \/ /\ moving = "lifecycle" /\ LifecycleNext
       /\ UNCHANGED <<admissionVars, electionVars, breakerVars, rpcVars, moving>>
    \/ /\ moving = "election" /\ ElectionNext
       /\ UNCHANGED <<admissionVars, lifeVars, breakerVars, rpcVars, moving>>
    \/ /\ moving = "breaker" /\ BreakerNext
       /\ UNCHANGED <<admissionVars, lifeVars, electionVars, rpcVars, moving>>
    \/ /\ moving = "rpc" /\ RpcNext
       /\ UNCHANGED <<admissionVars, lifeVars, electionVars, breakerVars, moving>>

(* Time passes, messages under way arrive or are lost, and standby nodes   *)
(* keep trying to claim. *)
ElectionFairness ==
    /\ WF_electionVars(moving = "election" /\ ElectionTick)
    /\ \A n \in Nodes :
         /\ WF_electionVars(moving = "election" /\ attempt_claim_leadership(n))
         /\ \A e \in 1..MaxEpoch :
              WF_electionVars(/\ moving = "election"
                              /\ record_heartbeat(n, e) \/ lose_heartbeat(<<n, e>>))

(* Time passes, clients go on calling, and of the calls made while the     *)
(* service answers not all fail. *)
BreakerFairness ==
    /\ WF_breakerVars(moving = "breaker" /\ BreakerTick)
    /\ WF_breakerVars(moving = "breaker" /\ can_execute)
    /\ SF_breakerVars(moving = "breaker" /\ record_success)

(* The threads and the clock make progress, and the host calls expire      *)
(* again and again; nothing makes an answer arrive.  track_timeout waits   *)
(* for a lock the sweep takes again and again. *)
RpcFairness ==
    /\ \A i \in Ids : /\ SF_rpcVars(moving = "rpc" /\ track_timeout(i))
                      /\ WF_rpcVars(moving = "rpc" /\ time_out(i))
                      /\ WF_rpcVars(moving = "rpc" /\ expire_entry(i))
    /\ WF_rpcVars(moving = "rpc" /\ expire_begin)
    /\ WF_rpcVars(moving = "rpc" /\ expire_end)

OperationsSpec ==
    /\ OperationsInit /\ [][OperationsNext]_operationsVars
    /\ LifecycleFairness /\ ElectionFairness /\ BreakerFairness
    /\ RpcFairness

(* The lifecycle alone.                                                    *)
ShutdownSpec == OperationsSpec /\ moving = "lifecycle"

(* What fails or is interrupted comes to a settled end: every start that   *)
(* the supervisor began ends, a crashed leader is replaced, and the        *)
(* breaker before a service that stays up closes again.                    *)
OperationsRecover == StartSettles /\ CrashedLeaderReplaced /\ BreakerRecloses
=============================================================================
