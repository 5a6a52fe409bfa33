--------------------------- MODULE CircuitBreaker ---------------------------
(***************************************************************************)
(* A circuit breaker before an external service.  Calls that were let      *)
(* through are under way concurrently and report their outcome later, in   *)
(* any order, also after the breaker changed its state.                    *)
(***************************************************************************)
EXTENDS Integers

CONSTANTS
    Threshold,      \* failure_threshold
    Cooldown,       \* cooldown_ms, in ticks
    MaxCalls,       \* bound: calls under way
    MaxFailures     \* bound: consecutive failures counted

ASSUME BreakerAssumption ==
    /\ Threshold \in Nat \ {0} /\ Cooldown \in Nat
    /\ MaxCalls \in Nat /\ MaxFailures \in Nat

VARIABLES
    state,                  \* "Closed", "Open", "HalfOpen"
    elapsed,                \* ticks since tripped_at_ms, up to Cooldown
    consecutive_failures,
    calls,                  \* calls under way
    healthy                 \* whether the service answers

breakerVars == <<state, elapsed, consecutive_failures, calls, healthy>>

BreakerInit ==
    /\ state = "Closed" /\ elapsed = 0
    /\ consecutive_failures = 0 /\ calls = 0 /\ healthy = TRUE

CooledDown == elapsed >= Cooldown

(* Mutant: the call that would probe is refused, and so are those after. *)
can_execute_unprobed ==
    /\ calls < MaxCalls /\ state # "HalfOpen"
    /\ state = "Open" => CooledDown
    /\ state' = IF state = "Open" THEN "HalfOpen" ELSE state
    /\ calls' = IF state = "Open" THEN calls ELSE calls + 1
    /\ UNCHANGED <<elapsed, consecutive_failures, healthy>>

(* can_execute answers true: the caller makes its call. *)
can_execute ==
    /\ calls < MaxCalls
    /\ state = "Open" => CooledDown
    /\ state' = IF state = "Open" THEN "HalfOpen" ELSE state
    /\ calls' = calls + 1
    /\ UNCHANGED <<elapsed, consecutive_failures, healthy>>

(* A success forgets the failures before it. *)
FailuresAfterSuccess == 0

record_success ==
    /\ calls > 0 /\ healthy
    /\ consecutive_failures' = FailuresAfterSuccess
    /\ state' = "Closed"
    /\ calls' = calls - 1
    /\ UNCHANGED <<elapsed, healthy>>

Trips == consecutive_failures + 1 >= Threshold

(* A call may fail also when the service answers others. *)
record_failure ==
    /\ calls > 0 /\ consecutive_failures < MaxFailures
    /\ consecutive_failures' = consecutive_failures + 1
    /\ state' = IF Trips THEN "Open" ELSE state
    /\ elapsed' = IF Trips THEN 0 ELSE elapsed
    /\ calls' = calls - 1
    /\ UNCHANGED healthy

BreakerTick ==
    /\ state = "Open" /\ elapsed < Cooldown
    /\ elapsed' = elapsed + 1
    /\ UNCHANGED <<state, consecutive_failures, calls, healthy>>

outage == healthy' = ~healthy /\ UNCHANGED <<state, elapsed, consecutive_failures, calls>>

BreakerNext ==
    \/ can_execute \/ record_success \/ record_failure \/ BreakerTick \/ outage

BreakerSpec == BreakerInit /\ [][BreakerNext]_breakerVars

-----------------------------------------------------------------------------
(* Properties. *)

(* The state agrees with the count whatever order outcomes come in: a      *)
(* closed breaker is below its threshold, and a half open one is at it, so *)
(* that one failed probe opens it again. *)
StateMatchesFailures ==
    (state = "Closed") <=> (consecutive_failures < Threshold)

(* A service that stays up is used again: the breaker does not stay open   *)
(* or half open for ever. *)
BreakerRecloses == <>[]healthy => []<>(state = "Closed")
=============================================================================
