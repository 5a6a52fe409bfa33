-------------------------------- MODULE Fleet --------------------------------
(***************************************************************************)
(* Many servers: the coordinator of shards with its handoffs and leases,   *)
(* the edge in front of an origin, the answers to anonymous queries, and   *)
(* the node agent that supervises an instance.  The machines shards, edge, *)
(* queries and agent share no state.                                       *)
(***************************************************************************)
EXTENDS Integers, SequencesExt

(* The table f with v under k. *)
Entered(f, k, v) == [x \in DOMAIN f \cup {k} |-> IF x = k THEN v ELSE f[x]]

-----------------------------------------------------------------------------
(* Shards.  The world is a line; the regions of neighbours share their     *)
(* border. *)

CONSTANTS
    ShardIds,
    Tickets,
    Objects,            \* entities that are handed over
    Handoffs,           \* handoffs asked for: from, to, entities
    LeaseTtl,
    MaxShardTime,       \* bound: the coordinator's clock
    MaxEpoch            \* bound: leases given

ASSUME ShardAssumption ==
    /\ {LeaseTtl, MaxShardTime, MaxEpoch} \subseteq Nat
    /\ Handoffs \subseteq [from : ShardIds, to : ShardIds, entities : SUBSET Objects]

VARIABLES
    tickets,        \* ticket -> handoff; a partial function
    leases,         \* entity -> lease; a partial function
    current_epoch,
    shardNow,
    given           \* entity -> the leases it was given, in order

shardVars == <<tickets, leases, current_epoch, shardNow, given>>

ShardsInit ==
    /\ tickets = <<>> /\ leases = <<>> /\ current_epoch = 1 /\ shardNow = 0
    /\ given = [e \in Objects |-> <<>>]

(* locate_shard: the first registered region that contains the point.      *)
(* Region i covers i - 1 to i. *)
locate_shard(regions, x) ==
    LET hits == {i \in DOMAIN regions : regions[i] - 1 <= x /\ x <= regions[i]}
    IN IF hits = {} THEN -1 ELSE Min(hits)

(* initiate_handoff: between registered shards; a ticket of the same name  *)
(* is replaced, whatever its phase. *)
initiate_handoff(t, from, to, entities) ==
    /\ tickets' = Entered(tickets, t, [from |-> from, to |-> to, entities |-> entities, phase |-> "Initiated"])
    /\ UNCHANGED <<leases, current_epoch, shardNow, given>>

Held_by_other(e, shard) ==
    e \in DOMAIN leases /\ leases[e].owner # shard /\ leases[e].expires > shardNow

prepare_handoff(t) ==
    /\ t \in DOMAIN tickets /\ tickets[t].phase = "Initiated"
    /\ \A e \in tickets[t].entities : ~Held_by_other(e, tickets[t].from)
    /\ tickets' = [tickets EXCEPT ![t].phase = "Prepared"]
    /\ UNCHANGED <<leases, current_epoch, shardNow, given>>

Lease(owner, epoch) == [owner |-> owner, epoch |-> epoch, expires |-> shardNow + LeaseTtl]

(* Mutant: the entities of a handoff keep the epoch they had. *)
Next_epoch_kept == current_epoch

(* Every lease is fenced by a number of its own. *)
Next_epoch == current_epoch + 1

Give(entities, owner) ==
    /\ current_epoch < MaxEpoch
    /\ current_epoch' = Next_epoch
    /\ leases' = [e \in DOMAIN leases \cup entities |-> IF e \in entities THEN Lease(owner, Next_epoch) ELSE leases[e]]
    /\ given' = [e \in Objects |-> IF e \in entities THEN Append(given[e], Lease(owner, Next_epoch)) ELSE given[e]]
    /\ UNCHANGED shardNow

(* commit_handoff looks at no lease again. *)
commit_handoff(t) ==
    /\ t \in DOMAIN tickets /\ tickets[t].phase = "Prepared"
    /\ Give(tickets[t].entities, tickets[t].to)
    /\ tickets' = [tickets EXCEPT ![t].phase = "Committed"]

(* abort_handoff: in any phase. *)
abort_handoff(t) ==
    /\ t \in DOMAIN tickets
    /\ tickets' = [tickets EXCEPT ![t].phase = "Aborted"]
    /\ UNCHANGED <<leases, current_epoch, shardNow, given>>

acquire_lease(e, shard) ==
    /\ ~Held_by_other(e, shard)
    /\ Give({e}, shard)
    /\ UNCHANGED tickets

reclaim_expired_leases ==
    /\ leases' = [e \in {d \in DOMAIN leases : leases[d].expires > shardNow} |-> leases[e]]
    /\ UNCHANGED <<tickets, current_epoch, shardNow, given>>

shard_tick ==
    /\ shardNow < MaxShardTime /\ shardNow' = shardNow + 1
    /\ UNCHANGED <<tickets, leases, current_epoch, given>>

ShardsNext ==
    \/ \E t \in Tickets, h \in Handoffs : initiate_handoff(t, h.from, h.to, h.entities)
    \/ \E t \in Tickets : prepare_handoff(t) \/ commit_handoff(t) \/ abort_handoff(t)
    \/ \E e \in Objects, s \in ShardIds : acquire_lease(e, s)
    \/ reclaim_expired_leases \/ shard_tick

(* Leases are fenced: an entity's lease is the last it was given, each     *)
(* with a higher epoch than the one before, and one epoch never has two    *)
(* owners, so an old owner that returns is told apart whatever handoffs,   *)
(* expiries and sweeps came in between. *)
LeasesFenced ==
    /\ \A e \in Objects : \A i \in 1..(Len(given[e]) - 1) : given[e][i].epoch < given[e][i + 1].epoch
    /\ \A e \in DOMAIN leases : leases[e] = Last(given[e]) /\ leases[e].epoch <= current_epoch
    /\ \A e, f \in DOMAIN leases : leases[e].epoch = leases[f].epoch => leases[e].owner = leases[f].owner

(* "Abort a prepared or initiated handoff." *)
CommittedStays == [][\A t \in DOMAIN tickets : tickets[t].phase = "Committed" => tickets'[t].phase = "Committed"]_shardVars

-----------------------------------------------------------------------------
(* The edge: connections, bans, health of the origin and stamped headers. *)

CONSTANTS
    Sources,            \* addresses of clients
    DeniedNet,          \* those in a denied network
    ShieldNet,          \* those let through a shield
    per_ip_connection_limit, origin_connection_limit,
    failure_threshold,
    fail_closed

ASSUME EdgeAssumption ==
    /\ IsFiniteSet(Sources) /\ DeniedNet \subseteq Sources /\ ShieldNet \subseteq Sources /\ fail_closed \in BOOLEAN
    /\ {per_ip_connection_limit, origin_connection_limit, failure_threshold} \subseteq Nat

VARIABLES
    per_ip,             \* source -> count; a partial function
    origin_in_use,
    denied_ips,
    originHealth,       \* state, consecutive_failures
    shielding,
    connections         \* source -> connections that are really open

edgeVars == <<per_ip, origin_in_use, denied_ips, originHealth, shielding, connections>>

EdgeInit ==
    /\ per_ip = <<>> /\ origin_in_use = 0 /\ denied_ips = {} /\ shielding = FALSE
    /\ originHealth = [state |-> "Healthy", failures |-> 0]
    /\ connections = [s \in Sources |-> 0]

Admissible(s) ==
    /\ s \notin denied_ips \cup DeniedNet
    /\ ~shielding \/ (s \in ShieldNet /\ ~fail_closed)

Count(s) == IF s \in DOMAIN per_ip THEN per_ip[s] ELSE 0

(* admit_connection.  The entry of the source is there even if the origin  *)
(* is full. *)
admit_connection(s) ==
    /\ Admissible(s)
    /\ IF Count(s) < per_ip_connection_limit /\ origin_in_use < origin_connection_limit
       THEN /\ per_ip' = Entered(per_ip, s, Count(s) + 1)
            /\ origin_in_use' = origin_in_use + 1
            /\ connections' = [connections EXCEPT ![s] = @ + 1]
       ELSE per_ip' = Entered(per_ip, s, Count(s)) /\ UNCHANGED <<origin_in_use, connections>>
    /\ UNCHANGED <<denied_ips, originHealth, shielding>>

(* release_connection, for an open one. *)
release_connection(s) ==
    /\ connections[s] > 0
    /\ per_ip' = IF Count(s) <= 1 THEN [t \in DOMAIN per_ip \ {s} |-> per_ip[t]] ELSE [per_ip EXCEPT ![s] = @ - 1]
    /\ origin_in_use' = Max({0, origin_in_use - 1})
    /\ connections' = [connections EXCEPT ![s] = @ - 1]
    /\ UNCHANGED <<denied_ips, originHealth, shielding>>

(* ban_ip does not end what is open. *)
ban_ip(s) == denied_ips' = denied_ips \cup {s} /\ UNCHANGED <<per_ip, origin_in_use, originHealth, shielding, connections>>
unban_ip(s) == denied_ips' = denied_ips \ {s} /\ UNCHANGED <<per_ip, origin_in_use, originHealth, shielding, connections>>

(* gc of the counters at zero. *)
edge_gc ==
    /\ per_ip' = [s \in {t \in DOMAIN per_ip : per_ip[t] > 0} |-> per_ip[s]]
    /\ UNCHANGED <<origin_in_use, denied_ips, originHealth, shielding, connections>>

record_health(ok) ==
    IF ok THEN [state |-> "Healthy", failures |-> 0]
    ELSE LET n == originHealth.failures + 1
         IN [state |-> IF n >= failure_threshold THEN "Down" ELSE "Degraded", failures |-> n]

(* HealthChecker::record of a probe. *)
probe_origin(ok) ==
    /\ ok \/ originHealth.failures <= failure_threshold
    /\ originHealth' = record_health(ok)
    /\ UNCHANGED <<per_ip, origin_in_use, denied_ips, shielding, connections>>

(* Whoever runs the checker tells the edge, when it likes. *)
set_shielding(on) == shielding' = on /\ UNCHANGED <<per_ip, origin_in_use, denied_ips, originHealth, connections>>

EdgeNext ==
    \/ \E s \in Sources : admit_connection(s) \/ release_connection(s) \/ ban_ip(s) \/ unban_ip(s)
    \/ edge_gc \/ \E b \in BOOLEAN : probe_origin(b) \/ set_shielding(b)

(* The connections that are open, as numbered per source. *)
Open_connections == {c \in Sources \X (1..per_ip_connection_limit) : c[2] <= connections[c[1]]}

(* The counters are the connections that are open, through bans, sweeps    *)
(* and shields, and so the limits are kept; the origin counts as down      *)
(* exactly after as many failed probes in a row as the threshold. *)
EdgeCounts ==
    /\ \A s \in Sources : Count(s) = connections[s] /\ connections[s] <= per_ip_connection_limit
    /\ origin_in_use = Cardinality(Open_connections)
    /\ origin_in_use <= origin_connection_limit
    /\ originHealth.state = "Down" <=> originHealth.failures >= failure_threshold /\ originHealth.failures > 0

-----------------------------------------------------------------------------
(* Queries: a fixed window per source, and an answer that is cut down      *)
(* until it fits. *)

CONSTANTS
    max_per_window, query_window,
    MaxQueryTime,       \* bound: the clock of the queries
    PartSize,           \* sizes of the parts of a status
    MAX_RESPONSE

ASSUME QueryAssumption ==
    PartSize \cup {max_per_window, query_window, MaxQueryTime, MAX_RESPONSE} \subseteq Nat

VARIABLES queryNow, hits, answeredAt, reply

queryVars == <<queryNow, hits, answeredAt, reply>>

Parts == {"core", "icon", "players", "extra", "desc"}

QueriesInit == queryNow = 0 /\ hits = <<>> /\ answeredAt = <<>> /\ reply = <<>>

Total(parts, size) ==
    LET part(p) == IF p \in parts THEN size[p] ELSE 0
    IN part("core") + part("icon") + part("players") + part("extra") + part("desc")

(* to_native_json: what is shed, in the order of the code. *)
Shedding == << {}, {"icon"}, {"icon", "players"}, {"icon", "players", "extra"}, {"icon", "players", "extra", "desc"} >>

to_native_json(parts, size) ==
    LET fits == {i \in DOMAIN Shedding : Total(parts \ Shedding[i], size) <= MAX_RESPONSE}
    IN IF fits = {} THEN {} ELSE parts \ Shedding[Min(fits)]

(* QueryRateLimiter::check. *)
Within_window == hits # <<>> /\ queryNow - hits.start < query_window

Limited == Within_window /\ hits.count >= max_per_window

(* handle_query_probe: an unlisted server answers without names and prose. *)
handle_query_probe(listed, size) ==
    /\ ~Limited
    /\ hits' = IF Within_window THEN [hits EXCEPT !.count = @ + 1] ELSE [start |-> queryNow, count |-> 1]
    /\ answeredAt' = Append(answeredAt, queryNow)
    /\ LET view == IF listed THEN Parts ELSE Parts \ {"players", "desc", "extra"}
       IN reply' = [listed |-> listed, size |-> size, parts |-> to_native_json(view, size)]
    /\ UNCHANGED queryNow

query_gc == hits # <<>> /\ ~Within_window /\ hits' = <<>> /\ UNCHANGED <<queryNow, answeredAt, reply>>

query_tick == queryNow < MaxQueryTime /\ queryNow' = queryNow + 1 /\ UNCHANGED <<hits, answeredAt, reply>>

QueriesNext ==
    \/ \E listed \in BOOLEAN, size \in [Parts -> PartSize] : handle_query_probe(listed, size)
    \/ query_gc \/ query_tick

(* A source gets fewer than twice its share in any span of a window, even  *)
(* if the sweep runs at the worst time; an answer fits and names nobody of *)
(* an unlisted server, and it is empty only if even the core is too large. *)
QueriesBounded ==
    /\ \A i, j \in DOMAIN answeredAt :
         i < j /\ answeredAt[j] - answeredAt[i] < query_window => j - i < 2 * max_per_window - 1
    /\ reply # <<>> =>
         /\ Total(reply.parts, reply.size) <= MAX_RESPONSE
         /\ ~reply.listed => "players" \notin reply.parts
         /\ "core" \in reply.parts <=> reply.size["core"] <= MAX_RESPONSE

(* "Truncation order: players -> icon -> extra -> desc." *)
IconAfterPlayers == reply # <<>> /\ reply.listed /\ "players" \in reply.parts => "icon" \in reply.parts

-----------------------------------------------------------------------------
(* The node agent and one instance.  Builds are numbers. *)

CONSTANTS
    max_crash_retries, watchdog_timeout,
    MaxAgentTime,       \* bound: the agent's clock
    MaxStarts,          \* bound: starts
    MaxReportedCrashes, \* bound: crashes between rollbacks
    MaxBuild            \* bound: builds

ASSUME AgentAssumption ==
    {max_crash_retries, watchdog_timeout, MaxAgentTime, MaxStarts, MaxReportedCrashes, MaxBuild} \subseteq Nat

VARIABLES
    process,            \* "Stopped", "Running", "Crashed" or "Quarantined"
    pids,               \* processes started so far; the last is the running one
    heartbeat,
    crash_count,
    active_build,
    previous_build,     \* or 0
    agentNow,
    restarts,           \* automatic restarts since the last rollback
    builds              \* what was active, in order, without what was rolled back

agentVars == <<process, pids, heartbeat, crash_count, active_build, previous_build, agentNow, restarts, builds>>

AgentInit ==
    /\ process = "Stopped" /\ pids = 0 /\ heartbeat = 0 /\ crash_count = 0
    /\ active_build = 1 /\ previous_build = 0 /\ agentNow = 0 /\ restarts = 0 /\ builds = <<1>>

Start_process ==
    /\ pids < MaxStarts
    /\ process' = "Running" /\ pids' = pids + 1 /\ heartbeat' = agentNow

(* start: a quarantined instance too. *)
start_instance ==
    /\ process # "Running" /\ Start_process
    /\ UNCHANGED <<crash_count, active_build, previous_build, agentNow, restarts, builds>>

stop_instance ==
    /\ process = "Running" /\ process' = "Stopped"
    /\ UNCHANGED <<pids, heartbeat, crash_count, active_build, previous_build, agentNow, restarts, builds>>

restart_instance ==
    /\ Start_process
    /\ UNCHANGED <<crash_count, active_build, previous_build, agentNow, restarts, builds>>

record_heartbeat ==
    /\ heartbeat' = agentNow
    /\ UNCHANGED <<process, pids, crash_count, active_build, previous_build, agentNow, restarts, builds>>

(* poll_watchdog: stop and start in one; it is no crash. *)
poll_watchdog ==
    /\ process = "Running" /\ agentNow - heartbeat > watchdog_timeout
    /\ Start_process
    /\ UNCHANGED <<crash_count, active_build, previous_build, agentNow, restarts, builds>>

(* handle_crash: in any state, so a late report starts a stopped instance. *)
handle_crash(auto_restart) ==
    /\ crash_count < MaxReportedCrashes
    /\ crash_count' = crash_count + 1
    /\ IF crash_count' >= max_crash_retries
       THEN process' = "Quarantined" /\ UNCHANGED <<pids, heartbeat, restarts>>
       ELSE IF auto_restart THEN Start_process /\ restarts' = restarts + 1
       ELSE process' = "Crashed" /\ UNCHANGED <<pids, heartbeat, restarts>>
    /\ UNCHANGED <<active_build, previous_build, agentNow, builds>>

update_build(b) ==
    /\ previous_build' = active_build /\ active_build' = b
    /\ builds' = Append(builds, b)
    /\ UNCHANGED <<process, pids, heartbeat, crash_count, agentNow, restarts>>

(* rollback: once, to the build before the last update; the instance is    *)
(* restarted and its crashes are forgotten. *)
rollback_build ==
    /\ previous_build # 0
    /\ active_build' = previous_build /\ previous_build' = 0
    /\ crash_count' = 0 /\ restarts' = 0
    /\ builds' = Front(builds)
    /\ Start_process
    /\ UNCHANGED agentNow

agent_tick ==
    /\ agentNow < MaxAgentTime /\ agentNow' = agentNow + 1
    /\ UNCHANGED <<process, pids, heartbeat, crash_count, active_build, previous_build, restarts, builds>>

AgentNext ==
    \/ start_instance \/ stop_instance \/ restart_instance \/ record_heartbeat \/ poll_watchdog
    \/ \E auto \in BOOLEAN : handle_crash(auto)
    \/ \E b \in 1..MaxBuild : Len(builds) < MaxBuild /\ update_build(b)
    \/ rollback_build \/ agent_tick

(* The agent restarts a crashing instance fewer times than the limit until *)
(* someone rolls it back, and from there on every crash quarantines it     *)
(* again; a rollback undoes exactly the last update. *)
AgentSound ==
    /\ restarts < Max({1, max_crash_retries})
    /\ process = "Crashed" => crash_count < max_crash_retries
    /\ process = "Quarantined" => crash_count >= max_crash_retries
    /\ active_build = Last(builds)
    /\ previous_build # 0 => Len(builds) > 1 /\ previous_build = builds[Len(builds) - 1]

(* Several servers at once: a shard lease is fenced by its epoch, the edge *)
(* counts exactly its open connections, query answers stay within rate and *)
(* size, and the node agent quarantines what keeps crashing.               *)
FleetSound == LeasesFenced /\ EdgeCounts /\ QueriesBounded /\ AgentSound
=============================================================================
