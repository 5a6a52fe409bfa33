------------------------------ MODULE MCWorld -------------------------------
(***************************************************************************)
(* The world the players share and the way into it, part by part:          *)
(* entities, the spatial grid, population, state bags, players and jobs,   *)
(* money and items, clocks, history, replay and snapshots, voice, events,  *)
(* pages and devices, the client's join driver, deferrals and negotiation, *)
(* the scheduler and the streaming of assets. No part reads another's      *)
(* variables, so a behaviour picks the one that moves and the others stay  *)
(* as they began: every behaviour of each is checked, at the sum of their  *)
(* state spaces. Population and buckets move the same variables.           *)
(***************************************************************************)
EXTENDS World, Framework, Timeline, Presence, Arrival, Scheduling, Streaming,
        Goods

CONSTANTS car, map, meta

MCCoords == -2..1

MCDeps(asset) == IF asset = car THEN {meta} ELSE {}

MCGrants == {<<"players", "kick">>, <<"audit", "read">>, <<"server", "*">>}

MCSpellings ==
    {[kind |-> "entity", num |-> n] : n \in {"4", "04", "+4", ""}} \cup {[kind |-> "global", num |-> "4"]}

VARIABLE moving     \* the machine that moves

worldVars ==
    <<entityVars, gridVars, populationVars, bagVars, playerVars, jobVars, rightsVars,
      clockVars, historyVars, replayVars, snapshotVars, voiceVars, eventVars,
      callbackVars, focusVars, deviceVars, joinerVars, deferralVars,
      negotiationVars, clusterVars, accountVars, executorVars, busVars,
      streamVars, economyVars, inventoryVars, moving>>

WorldInit ==
    /\ EntityInit /\ GridInit /\ PopulationInit /\ BagsInit /\ PlayersInit
    /\ JobsInit /\ RightsInit /\ ClockInit /\ HistoryInit /\ ReplayInit /\ SnapshotInit
    /\ VoiceInit /\ EventsInit /\ CallbackInit /\ FocusInit /\ DeviceInit
    /\ JoinerInit /\ DeferralInit /\ NegotiationInit /\ ClusterInit
    /\ AccountsInit /\ ExecutorInit /\ BusInit /\ StreamingInit /\ EconomyInit
    /\ InventoryInit
    /\ moving \in {"entities", "grid", "population", "buckets", "bags",
                   "players", "jobs", "rights", "clock", "history", "replay",
                   "snapshot", "voice", "events", "callbacks", "focus",
                   "devices", "joiner", "deferral", "negotiation", "cluster",
                   "accounts", "executor", "bus", "streaming", "economy",
                   "inventory"}

(* The variables of every machine but the one that moves stay as they are. *)
OthersStay ==
    /\ UNCHANGED moving
    /\ IF moving = "entities" THEN TRUE ELSE UNCHANGED entityVars
    /\ IF moving = "grid" THEN TRUE ELSE UNCHANGED gridVars
    /\ IF moving \in {"population", "buckets"} THEN TRUE ELSE UNCHANGED populationVars
    /\ IF moving = "bags" THEN TRUE ELSE UNCHANGED bagVars
    /\ IF moving = "players" THEN TRUE ELSE UNCHANGED playerVars
    /\ IF moving = "jobs" THEN TRUE ELSE UNCHANGED jobVars
    /\ IF moving = "rights" THEN TRUE ELSE UNCHANGED rightsVars
    /\ IF moving = "clock" THEN TRUE ELSE UNCHANGED clockVars
    /\ IF moving = "history" THEN TRUE ELSE UNCHANGED historyVars
    /\ IF moving = "replay" THEN TRUE ELSE UNCHANGED replayVars
    /\ IF moving = "snapshot" THEN TRUE ELSE UNCHANGED snapshotVars
    /\ IF moving = "voice" THEN TRUE ELSE UNCHANGED voiceVars
    /\ IF moving = "events" THEN TRUE ELSE UNCHANGED eventVars
    /\ IF moving = "callbacks" THEN TRUE ELSE UNCHANGED callbackVars
    /\ IF moving = "focus" THEN TRUE ELSE UNCHANGED focusVars
    /\ IF moving = "devices" THEN TRUE ELSE UNCHANGED deviceVars
    /\ IF moving = "joiner" THEN TRUE ELSE UNCHANGED joinerVars
    /\ IF moving = "deferral" THEN TRUE ELSE UNCHANGED deferralVars
    /\ IF moving = "negotiation" THEN TRUE ELSE UNCHANGED negotiationVars
    /\ IF moving = "cluster" THEN TRUE ELSE UNCHANGED clusterVars
    /\ IF moving = "accounts" THEN TRUE ELSE UNCHANGED accountVars
    /\ IF moving = "executor" THEN TRUE ELSE UNCHANGED executorVars
    /\ IF moving = "bus" THEN TRUE ELSE UNCHANGED busVars
    /\ IF moving = "streaming" THEN TRUE ELSE UNCHANGED streamVars
    /\ IF moving = "economy" THEN TRUE ELSE UNCHANGED economyVars
    /\ IF moving = "inventory" THEN TRUE ELSE UNCHANGED inventoryVars

WorldNext ==
    \/ moving = "entities" /\ EntityNext /\ OthersStay
    \/ moving = "grid" /\ GridNext /\ OthersStay
    \/ moving = "population" /\ PopulationNext /\ OthersStay
    \/ moving = "buckets" /\ BucketNext /\ OthersStay /\ UNCHANGED <<policies, densities, counts, ceiling>>
    \/ moving = "bags" /\ BagsNext /\ OthersStay
    \/ moving = "players" /\ PlayersNext /\ OthersStay
    \/ moving = "jobs" /\ JobsNext /\ OthersStay
    \/ moving = "rights" /\ RightsNext /\ OthersStay
    \/ moving = "clock" /\ ClockNext /\ OthersStay
    \/ moving = "history" /\ HistoryNext /\ OthersStay
    \/ moving = "replay" /\ ReplayNext /\ OthersStay
    \/ moving = "snapshot" /\ SnapshotNext /\ OthersStay
    \/ moving = "voice" /\ VoiceNext /\ OthersStay
    \/ moving = "events" /\ EventsNext /\ OthersStay
    \/ moving = "callbacks" /\ CallbackNext /\ OthersStay
    \/ moving = "focus" /\ FocusNext /\ OthersStay
    \/ moving = "devices" /\ DeviceNext /\ OthersStay
    \/ moving = "joiner" /\ JoinerNext /\ OthersStay
    \/ moving = "deferral" /\ DeferralNext /\ OthersStay
    \/ moving = "negotiation" /\ NegotiationNext /\ OthersStay
    \/ moving = "cluster" /\ ClusterNext /\ OthersStay
    \/ moving = "accounts" /\ AccountsNext /\ OthersStay
    \/ moving = "executor" /\ ExecutorNext /\ OthersStay
    \/ moving = "bus" /\ BusNext /\ OthersStay
    \/ moving = "streaming" /\ StreamingNext /\ OthersStay
    \/ moving = "economy" /\ EconomyNext /\ OthersStay
    \/ moving = "inventory" /\ InventoryNext /\ OthersStay

WorldSpec == WorldInit /\ [][WorldNext]_worldVars
=============================================================================
