----------------------------- MODULE MCPlatform -----------------------------
(***************************************************************************)
(* The platform around the game server, part by part: the journal and      *)
(* checkpoints, the database layer, the Aegis backend, the defences,       *)
(* shards, edge and node agent, and releases, backups and upgrades. No     *)
(* part reads another's variables, so a behaviour picks the one that moves *)
(* and the others stay as they began: every behaviour of each is checked,  *)
(* at the sum of their state spaces.                                       *)
(***************************************************************************)
EXTENDS Aegis, Database, Defence, Fleet, Releases, Persistence

CONSTANTS east, west, car, dog

(* Both ways, with an entity in common, and one that leads back. *)
MCHandoffs ==
    {[from |-> east, to |-> west, entities |-> {car}],
     [from |-> west, to |-> east, entities |-> {car, dog}],
     [from |-> east, to |-> east, entities |-> {dog}]}

(* Next to each other in every place of a version. *)
MCSemVers ==
    {[major |-> 0, minor |-> 1, patch |-> 0], [major |-> 0, minor |-> 1, patch |-> 1],
     [major |-> 0, minor |-> 2, patch |-> 0], [major |-> 1, minor |-> 0, patch |-> 0]}

VARIABLE moving     \* the machine that moves

platformVars ==
    <<transactionVars, migrationVars, conformanceVars, persistVars, authVars,
      alertVars, actionVars, profilerVars, bucketVars, addressVars,
      fragmentVars, firewallVars, inspectionVars, grantVars, redactVars,
      metricVars, crashVars, shardVars, edgeVars, queryVars, agentVars,
      releaseVars, backupVars, upgradeVars, migrateVars, moving>>

PlatformInit ==
    /\ TransactionsInit /\ MigrationsInit /\ ConformanceInit /\ PersistInit
    /\ LoginsInit /\ AlertsInit /\ ActionsInit /\ ProfilerInit /\ BucketInit
    /\ AddressInit /\ FragmentInit /\ FirewallInit /\ InspectionInit
    /\ GrantsInit /\ RedactInit /\ MetricsInit /\ CrashesInit /\ ShardsInit
    /\ EdgeInit /\ QueriesInit /\ AgentInit /\ UpdatesInit /\ BackupsInit
    /\ UpgradesInit /\ MigrateInit
    /\ moving \in {"transactions", "migrations", "conformance", "journal",
                   "logins", "alerts", "actions", "profiler", "bucket",
                   "addresses", "fragments", "firewall", "inspection",
                   "grants", "redaction", "metrics", "crashes", "shards",
                   "edge", "queries", "agent", "updates", "backups",
                   "upgrades", "migrate"}

(* The variables of every machine but the one that moves stay as they are. *)
OthersStay ==
    /\ UNCHANGED moving
    /\ IF moving = "transactions" THEN TRUE ELSE UNCHANGED transactionVars
    /\ IF moving = "migrations" THEN TRUE ELSE UNCHANGED migrationVars
    /\ IF moving = "conformance" THEN TRUE ELSE UNCHANGED conformanceVars
    /\ IF moving = "journal" THEN TRUE ELSE UNCHANGED persistVars
    /\ IF moving = "logins" THEN TRUE ELSE UNCHANGED authVars
    /\ IF moving = "alerts" THEN TRUE ELSE UNCHANGED alertVars
    /\ IF moving = "actions" THEN TRUE ELSE UNCHANGED actionVars
    /\ IF moving = "profiler" THEN TRUE ELSE UNCHANGED profilerVars
    /\ IF moving = "bucket" THEN TRUE ELSE UNCHANGED bucketVars
    /\ IF moving = "addresses" THEN TRUE ELSE UNCHANGED addressVars
    /\ IF moving = "fragments" THEN TRUE ELSE UNCHANGED fragmentVars
    /\ IF moving = "firewall" THEN TRUE ELSE UNCHANGED firewallVars
    /\ IF moving = "inspection" THEN TRUE ELSE UNCHANGED inspectionVars
    /\ IF moving = "grants" THEN TRUE ELSE UNCHANGED grantVars
    /\ IF moving = "redaction" THEN TRUE ELSE UNCHANGED redactVars
    /\ IF moving = "metrics" THEN TRUE ELSE UNCHANGED metricVars
    /\ IF moving = "crashes" THEN TRUE ELSE UNCHANGED crashVars
    /\ IF moving = "shards" THEN TRUE ELSE UNCHANGED shardVars
    /\ IF moving = "edge" THEN TRUE ELSE UNCHANGED edgeVars
    /\ IF moving = "queries" THEN TRUE ELSE UNCHANGED queryVars
    /\ IF moving = "agent" THEN TRUE ELSE UNCHANGED agentVars
    /\ IF moving = "updates" THEN TRUE ELSE UNCHANGED releaseVars
    /\ IF moving = "backups" THEN TRUE ELSE UNCHANGED backupVars
    /\ IF moving = "upgrades" THEN TRUE ELSE UNCHANGED upgradeVars
    /\ IF moving = "migrate" THEN TRUE ELSE UNCHANGED migrateVars

PlatformNext ==
    \/ moving = "transactions" /\ TransactionsNext /\ OthersStay
    \/ moving = "migrations" /\ MigrationsNext /\ OthersStay
    \/ moving = "conformance" /\ ConformanceNext /\ OthersStay
    \/ moving = "journal" /\ PersistNext /\ OthersStay
    \/ moving = "logins" /\ LoginsNext /\ OthersStay
    \/ moving = "alerts" /\ AlertsNext /\ OthersStay
    \/ moving = "actions" /\ ActionsNext /\ OthersStay
    \/ moving = "profiler" /\ ProfilerNext /\ OthersStay
    \/ moving = "bucket" /\ BucketNext /\ OthersStay
    \/ moving = "addresses" /\ AddressNext /\ OthersStay
    \/ moving = "fragments" /\ FragmentNext /\ OthersStay
    \/ moving = "firewall" /\ FirewallNext /\ OthersStay
    \/ moving = "inspection" /\ InspectionNext /\ OthersStay
    \/ moving = "grants" /\ GrantsNext /\ OthersStay
    \/ moving = "redaction" /\ RedactNext /\ OthersStay
    \/ moving = "metrics" /\ MetricsNext /\ OthersStay
    \/ moving = "crashes" /\ CrashesNext /\ OthersStay
    \/ moving = "shards" /\ ShardsNext /\ OthersStay
    \/ moving = "edge" /\ EdgeNext /\ OthersStay
    \/ moving = "queries" /\ QueriesNext /\ OthersStay
    \/ moving = "agent" /\ AgentNext /\ OthersStay
    \/ moving = "updates" /\ UpdatesNext /\ OthersStay
    \/ moving = "backups" /\ BackupsNext /\ OthersStay
    \/ moving = "upgrades" /\ UpgradesNext /\ OthersStay
    \/ moving = "migrate" /\ MigrateNext /\ OthersStay

PlatformSpec == PlatformInit /\ [][PlatformNext]_platformVars
=============================================================================
