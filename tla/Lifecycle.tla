------------------------------ MODULE Lifecycle ------------------------------
(***************************************************************************)
(* The resource lifecycle: the LifecycleManager's states and handle        *)
(* counts, the supervisor task that is its single writer, the commands     *)
(* operators send it, and the shutdown of the server.  The supervisor      *)
(* takes the lock anew for each state it sets, so that readers and the     *)
(* shutdown come between; `step` is where its handler is.                  *)
(***************************************************************************)
EXTENDS Integers, SequencesExt

CONSTANTS
    Resources,
    Scripts(_),     \* number of server scripts (handles) of a resource
    ReleaseLimit,   \* 4096: handles transition_stop releases
    MaxQueue        \* bound: commands waiting when an operator sends one

ASSUME LifecycleAssumption ==
    /\ IsFiniteSet(Resources) /\ ReleaseLimit \in Nat /\ MaxQueue \in Nat
    /\ \A r \in Resources : Scripts(r) \in Nat

VARIABLES
    states,         \* resource -> its state; "unknown" has no entry
    handles,        \* resource -> handle count
    commands,       \* the supervisor's channel
    cmd,            \* the command being handled, or Idle
    step,           \* where its handler is
    shutdown        \* "no", "signalled", "stopping", "complete"

lifeVars == <<states, handles, commands, cmd, step, shutdown>>

Idle == [kind |-> "none", name |-> "none"]

LifecycleInit ==
    /\ states = [r \in Resources |-> "unknown"]
    /\ handles = [r \in Resources |-> 0]
    /\ commands = <<>> /\ cmd = Idle /\ step = "idle"
    /\ shutdown = "no"

is_serving(s) == s \in {"Healthy", "Degraded"}

Known == {r \in Resources : states[r] # "unknown"}

(* Mutant: a resource that serves may be started over itself. *)
can_start_any(r) == TRUE

can_start(r) == states[r] \in {"unknown", "Stopped", "Failed"}

-----------------------------------------------------------------------------
(* The supervisor. *)

Finished == cmd' = Idle /\ step' = "idle" /\ UNCHANGED <<commands, shutdown>>

Sets(s) == states' = [states EXCEPT ![cmd.name] = s]

(* run: a command taken while shutdown is active is ignored. *)
take ==
    /\ step = "idle" /\ commands # <<>>
    /\ commands' = Tail(commands)
    /\ IF shutdown # "no"
       THEN UNCHANGED <<cmd, step>>
       ELSE /\ cmd' = Head(commands)
            /\ step' = IF Head(commands).kind = "Start" THEN "check" ELSE "stop"
    /\ UNCHANGED <<states, handles, shutdown>>

start_check ==
    /\ step = "check"
    /\ IF can_start(cmd.name)
       THEN step' = "validate" /\ UNCHANGED <<cmd, commands, shutdown>>
       ELSE Finished
    /\ UNCHANGED <<states, handles>>

(* fail_point: the handler sets a state and goes on. *)
Point(at, s, next) ==
    /\ step = at
    /\ Sets(s)
    /\ step' = next
    /\ UNCHANGED <<handles, commands, cmd, shutdown>>

start_validate == Point("validate", "Validating", "manifest")

load_manifest == Point("manifest", "DependencyResolution", "deps")

check_dependencies == Point("deps", "Starting", "starting")

start_host == Point("starting", "ScriptHostStarting", "scripts")

(* Mutant: the handler returns without recording the failure. *)
start_gives_up ==
    /\ step \in {"manifest", "deps", "scripts"}
    /\ Finished
    /\ UNCHANGED <<states, handles>>

(* The manifest, a dependency or a script is missing or bad, or migrations *)
(* are declared that nothing can run: the start fails. *)
start_fails ==
    /\ step \in {"manifest", "deps", "scripts"}
    /\ Sets("Failed")
    /\ Finished
    /\ UNCHANGED handles

(* The scripts ran: MigrationsReady, HealthChecking and Healthy follow     *)
(* under one lock, and the handle count is recorded. *)
mark_healthy ==
    /\ step = "scripts"
    /\ Sets("Healthy")
    /\ handles' = [handles EXCEPT ![cmd.name] = Scripts(cmd.name)]
    /\ Finished

Released(n) == IF n > ReleaseLimit THEN n - ReleaseLimit ELSE 0

(* Mutant: the stop does not look at the handles left. *)
transition_stop_unverified ==
    /\ step = "stop"
    /\ handles' = [handles EXCEPT ![cmd.name] = Released(@)]
    /\ Sets("Stopped")
    /\ IF cmd.kind = "Stop"
       THEN Finished
       ELSE step' = "check" /\ UNCHANGED <<cmd, commands, shutdown>>

(* transition_stop, under one lock; a restart goes on to start. *)
transition_stop ==
    LET left == Released(handles[cmd.name])
    IN  /\ step = "stop"
        /\ handles' = [handles EXCEPT ![cmd.name] = left]
        /\ Sets(IF left = 0 THEN "Stopped" ELSE "Failed")
        /\ IF cmd.kind = "Stop"
           THEN Finished
           ELSE step' = "check" /\ UNCHANGED <<cmd, commands, shutdown>>

Supervisor ==
    \/ take \/ start_check \/ start_validate \/ load_manifest
    \/ check_dependencies \/ start_host \/ start_fails \/ mark_healthy
    \/ transition_stop

-----------------------------------------------------------------------------
(* Operators, and the server's shutdown. *)

(* resource_action of the Aegis API and the starts of server startup. *)
send_command(kind, r) ==
    /\ Len(commands) < MaxQueue
    /\ commands' = Append(commands, [kind |-> kind, name |-> r])
    /\ UNCHANGED <<states, handles, cmd, step, shutdown>>

(* quarantine: a serving or failed resource is taken out of service. *)
quarantine(r) ==
    /\ is_serving(states[r]) \/ states[r] = "Failed"
    /\ states' = [states EXCEPT ![r] = "Quarantined"]
    /\ UNCHANGED <<handles, commands, cmd, step, shutdown>>

(* The flag goes up: by the console, by a signal, or first in shutdown(). *)
request_shutdown ==
    /\ shutdown = "no"
    /\ shutdown' = "signalled"
    /\ UNCHANGED <<states, handles, commands, cmd, step>>

(* shutdown(): a Stop for every known resource, then a short wait. *)
shutdown_stops ==
    /\ shutdown = "signalled"
    /\ shutdown' = "stopping"
    /\ \E names \in SetToSeqs(Known) :
         commands' = commands \o [i \in DOMAIN names |-> [kind |-> "Stop", name |-> names[i]]]
    /\ UNCHANGED <<states, handles, cmd, step>>

shutdown_complete ==
    /\ shutdown = "stopping"
    /\ shutdown' = "complete"
    /\ UNCHANGED <<states, handles, commands, cmd, step>>

LifecycleNext ==
    \/ Supervisor
    \/ \E r \in Resources :
         \/ \E kind \in {"Start", "Stop", "Restart"} : send_command(kind, r)
         \/ quarantine(r)
    \/ request_shutdown \/ shutdown_stops \/ shutdown_complete

(* The supervisor is a task that is always scheduled; shutdown() runs to   *)
(* its end once the flag is up. *)
LifecycleFairness ==
    /\ WF_lifeVars(Supervisor)
    /\ WF_lifeVars(shutdown_stops) /\ WF_lifeVars(shutdown_complete)

LifecycleSpec == LifecycleInit /\ [][LifecycleNext]_lifeVars /\ LifecycleFairness

-----------------------------------------------------------------------------
(* Properties. *)

Settled == {"unknown", "Stopped", "Healthy", "Failed", "Quarantined"}

(* "All handles were released": a resource that is stopped has no handles  *)
(* and one that serves has those of its scripts. *)
HandlesAccounted ==
    \A r \in Resources :
        /\ states[r] \in {"unknown", "Stopped"} => handles[r] = 0
        /\ is_serving(states[r]) => handles[r] = Scripts(r)

(* "There is no shortcut": a resource begins to serve only when its script *)
(* host was starting, and one that serves stops serving only by a stop or  *)
(* a quarantine: a second start cannot disturb it. *)
NoShortcut ==
    [][\A r \in Resources :
         /\ is_serving(states'[r]) /\ ~is_serving(states[r]) => states[r] = "ScriptHostStarting"
         /\ is_serving(states[r]) /\ ~is_serving(states'[r]) =>
                states'[r] = "Quarantined" \/ (step = "stop" /\ cmd.name = r)]_lifeVars

(* A resource in the middle of a start always comes out of it, whatever    *)
(* else is commanded and also when the server shuts down meanwhile. *)
StartSettles ==
    \A r \in Resources : states[r] \notin Settled ~> states[r] \in Settled

(* "Graceful shutdown: signal tasks, stop resources, close listener": once *)
(* the flag is up every resource stops serving. *)
ShutdownStopsAll ==
    shutdown = "complete" ~> \A r \in Resources : ~is_serving(states[r])

=============================================================================
