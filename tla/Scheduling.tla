----------------------------- MODULE Scheduling -----------------------------
(***************************************************************************)
(* Work of the resources on the server: what each may use, the lanes their *)
(* tasks run on, and the bus their events travel on.  The machines         *)
(* accounts, executor and bus share no state.                              *)
(***************************************************************************)
EXTENDS Integers, SequencesExt

CONSTANTS
    MaxCost,        \* bound: cost of one task in any dimension
    MaxTasks,       \* bound: tasks accounted
    MaxAccounts,    \* bound: largest limit of a budget
    LaneCap,        \* QUEUE_CAPACITY
    MaxWork,        \* bound: tasks submitted
    Scripts,        \* resources that register event handlers
    CoreScripts,    \* those whose name starts with "core/"
    MaxHandlers     \* bound: handlers registered

ASSUME SchedulingAssumption ==
    /\ {MaxCost, MaxTasks, MaxAccounts, MaxWork, MaxHandlers} \subseteq Nat /\ LaneCap \in Nat \ {0}
    /\ CoreScripts \subseteq Scripts

-----------------------------------------------------------------------------
(* Accounts of one resource. *)

VARIABLES
    budget,         \* its limits, or NoBudget; 0 is unlimited
    usage, stats,   \* what it used, in the two tables
    verdict,        \* what account_task returned last
    spent           \* costs since it was registered (history)

accountVars == <<budget, usage, stats, verdict, spent>>

Dimensions == {"cpu", "memory", "events", "tasks"}
Nothing == [d \in Dimensions |-> 0]
NoBudget == [d \in Dimensions |-> -1]

AccountsInit == budget = NoBudget /\ usage = Nothing /\ stats = Nothing /\ verdict = "Ok" /\ spent = <<>>

(* A reload starts from empty accounts. *)
register_resource(b) ==
    /\ budget' = b /\ usage' = Nothing /\ stats' = Nothing
    /\ spent' = <<>> /\ UNCHANGED verdict

(* Memory may shrink, but not below zero. *)
Charged(table, cpu, memory, events) ==
    [d \in Dimensions |->
       CASE d = "cpu" -> table.cpu + cpu [] d = "memory" -> Max({0, table.memory + memory})
         [] d = "events" -> table.events + events [] d = "tasks" -> table.tasks + 1]

(* Budget::check: the first dimension that is exceeded. *)
Exceeded(b, u) == {d \in Dimensions : b[d] > 0 /\ u[d] > b[d]}

check_budget(b, u) ==
    LET over == Exceeded(b, u) IN
    CASE "cpu" \in over -> "CpuTime" [] "memory" \in over -> "Memory"
      [] "events" \in over -> "Events" [] "tasks" \in over -> "TaskCount" [] OTHER -> "Ok"

account_task(cpu, memory, events) ==
    /\ stats.tasks < MaxTasks
    /\ usage' = Charged(usage, cpu, memory, events)
    /\ stats' = Charged(stats, cpu, memory, events)
    /\ verdict' = check_budget(budget, usage')
    /\ spent' = Append(spent, memory)
    /\ UNCHANGED budget

(* The detector of Scheduler::new is the derived default: its thresholds   *)
(* are zero, not those of RunawayDetector::new. *)
FloodThreshold == 0
GrowthThreshold == 0

inspect ==
    {k \in {"EventFlood", "MemoryGrowth", "UnboundedTasks"} :
       \/ k = "EventFlood" /\ stats.events > FloodThreshold
       \/ k = "MemoryGrowth" /\ stats.memory > GrowthThreshold /\ budget.memory > 0 /\ stats.memory > budget.memory
       \/ k = "UnboundedTasks" /\ budget.tasks > 0 /\ stats.tasks > budget.tasks * 4}

AccountsNext ==
    \/ \E limit \in 0..MaxAccounts, d \in Dimensions : register_resource([Nothing EXCEPT ![d] = limit])
    \/ \E cpu, events \in 0..MaxCost, memory \in -MaxCost..MaxCost : account_task(cpu, memory, events)

(* The table the budgets are checked against and the table the detector    *)
(* reads tell the same story, before a resource is registered and after it *)
(* is registered again; memory never reads below what its last growth left *)
(* there; and a resource over its memory budget is reported by both. *)
AccountsAgree ==
    /\ usage = stats
    /\ stats.tasks = Len(spent)
    /\ spent # <<>> => stats.memory >= Last(spent)
    /\ "MemoryGrowth" \in inspect <=> "memory" \in Exceeded(budget, usage)

-----------------------------------------------------------------------------
(* The executor.  Tasks are numbered as they are submitted. *)

VARIABLES
    class,          \* task -> its workload class
    lanes,          \* lane -> queue of tasks
    running,        \* tasks that run
    finished,       \* tasks that ended, in that order
    ordered_dead,   \* did a task end the ordered lane
    orphans         \* tasks that were queued on it then (history)

executorVars == <<class, lanes, running, finished, ordered_dead, orphans>>

WorkloadClass == {"MainThread", "AsyncIo", "ParallelSafe", "OrderedGameplay", "ResourceLocal",
                  "NetworkProcessing", "EntityProcessing", "Background"}

(* Mutant: entities are processed on any thread. *)
lane_for_entities_parallel(c) ==
    CASE c \in {"ParallelSafe", "NetworkProcessing", "Background", "EntityProcessing"} -> "parallel"
      [] c = "AsyncIo" -> "async" [] OTHER -> "ordered"

lane_for(c) ==
    CASE c \in {"ParallelSafe", "NetworkProcessing", "Background"} -> "parallel"
      [] c = "AsyncIo" -> "async" [] OTHER -> "ordered"

(* Classes that touch gameplay state. *)
SharedState(t) == class[t] \in {"MainThread", "OrderedGameplay", "ResourceLocal", "EntityProcessing"}

ExecutorInit ==
    /\ class = <<>> /\ running = {} /\ finished = <<>> /\ ordered_dead = FALSE /\ orphans = {}
    /\ lanes = [l \in {"ordered", "parallel", "async"} |-> <<>>]

(* A full queue refuses, and so does one whose receiver is gone. *)
submit(c) ==
    LET l == lane_for(c) IN
    /\ Len(class) < MaxWork
    /\ Len(lanes[l]) < LaneCap /\ ~(l = "ordered" /\ ordered_dead)
    /\ class' = Append(class, c)
    /\ lanes' = [lanes EXCEPT ![l] = Append(@, Len(class) + 1)]
    /\ UNCHANGED <<running, finished, ordered_dead, orphans>>

(* The ordered lane awaits its task; the others spawn and go on. *)
begin_task(l) ==
    /\ lanes[l] # <<>>
    /\ l = "ordered" => ~ordered_dead /\ \A t \in running : lane_for(class[t]) # "ordered"
    /\ running' = running \cup {Head(lanes[l])}
    /\ lanes' = [lanes EXCEPT ![l] = Tail(@)]
    /\ UNCHANGED <<class, finished, ordered_dead, orphans>>

(* With a result or with an error, which is only logged. *)
run_task(t) ==
    /\ t \in running
    /\ running' = running \ {t}
    /\ finished' = Append(finished, t)
    /\ UNCHANGED <<class, lanes, ordered_dead, orphans>>

(* A panic ends the task that polls the lane; what was queued is dropped. *)
panic_ordered(t) ==
    /\ t \in running /\ lane_for(class[t]) = "ordered"
    /\ running' = running \ {t}
    /\ finished' = Append(finished, t)
    /\ ordered_dead' = TRUE
    /\ orphans' = ToSet(lanes["ordered"])
    /\ lanes' = [lanes EXCEPT !["ordered"] = <<>>]
    /\ UNCHANGED class

ExecutorNext ==
    \/ \E c \in WorkloadClass : submit(c)
    \/ \E l \in DOMAIN lanes : begin_task(l)
    \/ \E t \in running : run_task(t) \/ panic_ordered(t)

(* Tasks that touch shared gameplay state never run side by side and end   *)
(* in the order they were submitted, and every task that was accepted is   *)
(* queued, running or finished, exactly one of these and once, unless the  *)
(* lane died under it. *)
LanesKeepOrder ==
    /\ \A t, u \in running : SharedState(t) /\ SharedState(u) => t = u
    /\ \A i, j \in DOMAIN finished :
         i < j /\ SharedState(finished[i]) /\ SharedState(finished[j]) => finished[i] < finished[j]
    /\ IsInjective(finished)
    /\ \A t \in DOMAIN class \ orphans :
         Cardinality({l \in DOMAIN lanes : Contains(lanes[l], t)})
           + (IF t \in running THEN 1 ELSE 0) + (IF Contains(finished, t) THEN 1 ELSE 0) = 1

-----------------------------------------------------------------------------
(* The event bus: one event of a protected namespace. *)

VARIABLES
    handlers_of,    \* event -> its handlers in the order they are called
    made,           \* handlers registered so far (numbers them)
    calls           \* handlers a dispatch has yet to call, or Idle

busVars == <<handlers_of, made, calls>>

Events == {"ald:tick", "shop:open"}
Idle == <<[id |-> 0]>>

BusInit == handlers_of = [e \in Events |-> <<>>] /\ made = 0 /\ calls = Idle

Protected(e) == e = "ald:tick"

(* A stable sort, highest priority first: the new handler goes behind its  *)
(* equals (a set of one sequence when s is sorted). *)
ByPriority(s, h) ==
    {[i \in 1..(Len(s) + 1) |-> IF i <= n THEN s[i] ELSE IF i = n + 1 THEN h ELSE s[i - 1]] :
       n \in {m \in 0..Len(s) : /\ \A i \in 1..m : s[i].priority >= h.priority
                              /\ \A i \in (m + 1)..Len(s) : s[i].priority < h.priority}}

register_handler(e, resource, priority) ==
    /\ Protected(e) => resource \in CoreScripts
    /\ made < MaxHandlers
    /\ made' = made + 1
    /\ \E sorted \in ByPriority(handlers_of[e], [id |-> made + 1, resource |-> resource, priority |-> priority]) :
         handlers_of' = [handlers_of EXCEPT ![e] = sorted]
    /\ UNCHANGED calls

(* The handlers are collected under the lock and called outside it. *)
dispatch(e) == calls = Idle /\ calls' = handlers_of[e] /\ UNCHANGED <<handlers_of, made>>

(* The first error ends the dispatch. *)
call_handler(ok) ==
    /\ calls # Idle
    /\ calls' = IF ok /\ calls # <<>> THEN Tail(calls) ELSE Idle
    /\ UNCHANGED <<handlers_of, made>>

(* Positions K of a sequence in ascending order. *)
InOrder(K) == {f \in [1..Cardinality(K) -> K] : \A a, b \in 1..Cardinality(K) : a < b => f[a] < f[b]}

(* Vec::retain: the handlers of others, in their order (a set of one       *)
(* sequence). *)
HandlersOfOthers(s, resource) ==
    LET kept == {i \in DOMAIN s : s[i].resource # resource}
    IN  {[k \in 1..Cardinality(kept) |-> s[f[k]]] : f \in InOrder(kept)}

unregister_resource(resource) ==
    /\ handlers_of' \in {h \in [Events -> UNION {HandlersOfOthers(handlers_of[e], resource) : e \in Events}] :
                          \A e \in Events : h[e] \in HandlersOfOthers(handlers_of[e], resource)}
    /\ UNCHANGED <<made, calls>>

BusNext ==
    \/ \E e \in Events : dispatch(e) \/ (\E r \in Scripts, p \in 0..2 : register_handler(e, r, p))
    \/ \E ok \in BOOLEAN : call_handler(ok)
    \/ \E r \in Scripts : unregister_resource(r)

Ranked(s) == \A i, j \in DOMAIN s : i < j =>
    s[i].priority > s[j].priority \/ (s[i].priority = s[j].priority /\ s[i].id < s[j].id)

(* A dispatch calls by priority, then by age, no handler twice, also when  *)
(* handlers come and go while it runs; and nobody but the core hears the   *)
(* core's events. *)
DispatchOrdered ==
    /\ \A e \in Events : Ranked(handlers_of[e])
    /\ calls # Idle => Ranked(calls)
    /\ \A e \in Events : Protected(e) => \A i \in DOMAIN handlers_of[e] : handlers_of[e][i].resource \in CoreScripts

(* Accounting, execution and dispatch stay consistent under reload and     *)
(* interleaving: usage and statistics of a resource agree, the executor's  *)
(* ordered lane keeps its order and the lanes lose nothing they accepted   *)
(* but what was queued on the ordered lane when a task panicked on it, and *)
(* a dispatch calls each handler once, by priority and age.                *)
SchedulingSound == AccountsAgree /\ LanesKeepOrder /\ DispatchOrdered
=============================================================================
