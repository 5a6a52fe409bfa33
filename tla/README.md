# AlDivine in TLA+

A verification project for AlDivine, the multiplayer platform of this repository: a Rust server
(`server/ald-server`), its libraries (`crates/ald-*`), the game framework (`framework/aldivine`), the
client (`client/astryn`), the launcher (`apps/novagate`) and the operations side (`crates/ald-ha`,
`aegis`, `agent`). The modules in this directory model the parts of it that keep state and make decisions.
TLC checks them on small instances; TLAPS proves some of the results for every instance. `PROJECT.json`
lists, for machines, what this page says for readers: components, runs, the source lines of every
definition, the hazards and the theorems.

Contents: [the system](#1-the-system) · [how to read the modules](#2-how-to-read-the-modules) ·
[module by module](#3-module-by-module) · [runs](#4-runs) · [bounds](#5-bounds) · [fairness](#6-fairness) ·
[refinement and proofs](#7-refinement-and-proofs) ·
[divergences](#8-where-code-and-documentation-disagree) · [not modelled](#9-not-modelled) · [plan](#10-plan)

## 1. The system

A client connects over UDP, walks a handshake with the server's admission manager, waits in the admission
queue if the server is full, downloads the resources the server's manifest lists, streams game assets into
the game and is then in the world. The server reads its configuration, loads resources into script hosts
under a supervisor, keeps the world's entities, replicates state to clients, answers requests, runs the
framework's services for its scripts, and journals what has to survive. Around it stand what protects it
(limits, firewall, entitlements), what administrates it (Aegis, the node agent, backups, updates) and what
joins several servers (shards, edge, leader election).

| Component | State it keeps | Operations | Talks to | What is hard about it |
|---|---|---|---|---|
| Admission queue, `ald-queue` | playing entries, waitlist | `join`, `playing_leave`, `queue_leave`, `expire_stale` | admission manager | two caps over mixed populations; promotion only on departure; fairness |
| Admission manager, ingress gate, `ald-server`, `ald-protocol/handshake.rs` | a session per peer | one handler per message, `remove` | client, queue, player service | messages in any order, repeated; two peers, one account |
| Astryn connect task, `client/astryn` | program counter, tries, reported state | sends, receives, timeouts, `shutdown` | server, over UDP | loss, reordering, duplicates; a bounded wait racing a task |
| Join driver, deferrals, negotiation, simulated cluster | phase and byte counts; gates; versions; a queue | events, polls, `negotiate`, ticks | client, server | messages early, repeated, after a cancel; watchdogs |
| Journal, `ald-persistence` | log, checkpoint, next sequence | `append`, `checkpoint`, `recover` | file system | crashes between durable steps, torn records, bit rot |
| Database, `ald-database`, `ald-db-capability` | the batch of a transaction, migration rows | `statement`, `commit`, `money_transfer_tx`, `statements_for`, conformance | SQL server | a refused statement in a batch, a crash between a migration and its row |
| Framework services, `framework/aldivine`, `ald-permissions` | balances and ledger, storages, players, jobs, roles | `credit`, `give`, `transfer`, `create_character`, `set`, `check` | scripts | conservation over long call sequences; definitions edited meanwhile |
| State bags, `ald-state`, `ald-statebag-compat` | bags, owners, versions | `set`, `claim`, hand-over | scripts, replication | ownership kept twice |
| Entities, grid, buckets, population, `ald-ecs`, `ald-buckets`, `ald-population` | slots and generations, cells, policies | spawn, destroy, move, assign | server tick | stale ids, negative cells, policies that shrink |
| Clock, lag, replay, snapshot | samples, history ring, timeline, container | samples, claims, steps, encode | client, server | late and reordered samples, damaged files |
| Voice, game events, NUI, DUI, input | channels, sequence numbers, requests, focus | join, route, respond, focus | players | wrap of numbers, pages that close |
| Scheduler, events, `ald-scheduler`, `ald-events` | accounts, lanes, handlers | charge, submit, dispatch | resources | reload, tasks in parallel, handlers that change meanwhile |
| Receive window, sessions, replication, requests | highest number and mask; two tables; deltas; pending and timeouts | `validate`, `create`, `flush`, `track` | network | wrap, reconnects, loss, three locks |
| Cache, downloads, transfer, residency, streaming, mounting | objects on disk, bytes landed, lanes, requests, gates | `commit`, `receive`, fetch, `poll`, thirteen engine calls | client | crash between file and table, stale replies, a state folded from four trackers |
| Resource lifecycle, supervisor | state and handles per resource, commands | start, stop, restart, quarantine, shutdown | operators, hosts | the lock is released between the steps of a start |
| Script hosts, `ald-script-*`, `ald-native-extension` | timers, handlers, wire queue, module tree, metadata tables | timers, `require`, install plans, load plans, ticks | resources | callbacks that change what is being walked; widths of columns |
| Configuration, manifests, `ald-servercfg`, `ald-fxmanifest` | include chain, normalised settings, manifest | `resolve`, `apply_*`, parse | operator's files | cycles, two forms of one line, secrets |
| Values between runtimes, `ald-serialization-compat`, `ald-cfxlua-compat` | none | encode, decode, rewrite | scripts | every boundary of a length or a number |
| Sandbox and packages, `ald-vfs`, `ald-package*`, registries | mounts, shares, manifests, entries | read, write, verify, register | resources | links between check and use |
| Protection, `ald-network`, `ald-security`, `ald-entitlement`, `ald-telemetry`, `ald-symbol-service` | buckets, ranges, declarations, grants, histories | admit, check, grant, redact | every packet | limits in every span of time |
| Fleet, `ald-sharding`, `ald-edge`, `ald-query`, `agent/aegis-node` | leases, counters, windows, an instance | handoff, connect, answer, watchdog | other servers | prepare and commit apart, counters kept twice |
| Aegis backend | attempts, sessions, alerts, bans, audit, samples | login, report, act | administrators | limits spread over time |
| Releases, `ald-updater`, `novagate`, `ald-backup`, `ald-upgrade-planner`, `cli migrate` | catalogue, archives, plans | check, install, restore, plan | operators | stale offers, damaged archives |
| High availability, `ald-ha` | epoch and leader; breaker state | claim, heartbeat; call, outcome | central services | delayed heartbeats, crashes, late outcomes |

For each of them the question is the same: what could be wrong that a unit test would hardly reach? The
`hazards` list of `PROJECT.json` answers it at the line where it bites; the properties are aimed at those lines.

## 2. How to read the modules

* A variable is a field of the code's struct, a table, a channel or the position of a task. Variables marked
  `history` are not in the code: they record what happened so that a property can refer to it.
* An action is a whole operation with everything it calls, unless the code releases a lock, awaits or can
  crash in between; then it is one action per atomic piece (`track_pending` / `track_timeout`, `checkpoint` /
  `truncate`, the supervisor's `step`, the statements of a migration, check, temporary file and rename of a sandboxed write).
* A call that is refused changes nothing and is left out as an action, unless the refusal itself changes
  state (a storage is opened with its weight limit even when the `give` is refused).
* A recursion of the code (include resolver, table parser, module resolution, load planner) is a stack in the
  state, so that depth limits and cycles are reached step by step.
* Definitions keep the names of the code. Where a name would collide with one of another module it is made
  longer (`transfer_items` is `InventoryService::transfer`, `transfer_entity` that of the entity store).
* Payloads, texts and logging are left out. Hashes and signatures are ideal: model values that are equal or not.
* Integers wrap where the code's do: balances, weights, counts and sequence numbers have a width.
* A definition introduced by the word *Mutant* or *Faulty variant* belongs to no specification. It is a
  plausible mistake in the definition that follows it; putting it in that definition's place makes TLC find
  the property listed beside it in `PROJECT.json` violated. It shows that the property can fail.

**Suites.** `MCContent`, `MCWorld`, `MCPlatform`, `MCScripts` and `MCOperations` each check several machines in
one run. The machines of a suite share no variable and no action reads another machine's variables, so any
behaviour of the product is determined by its projections. A suite therefore chooses, in its initial state, the
machine that `moving` names; that machine takes all the steps and the others stay as they began (`OthersStay`).
Every behaviour of every machine occurs, invariants and action properties are checked in every state of each,
and the state space is the sum and not the product. Fairness of a machine is asked only in behaviours where it
moves (`moving = "rpc" /\ ...` inside the `WF`), since elsewhere its actions cannot happen.

**Composition.** Where components do interact the modules do: `Admission` extends `AdmissionQueue`, `AstrynJoin`
extends `Admission` with client and network, `Transfer` extends `Download`, `Streaming` extends `Residency`, and
`AdmissionQueue` instantiates the abstract `SlotServer`.

A property named `...Sound` is the conjunction of the named parts of its module, one per machine; each part has
its own comment.

## 3. Module by module

**AdmissionQueue** (`crates/ald-queue/src/lib.rs`). `playing` and `waitlist` are the code's two collections,
`fits` and `slot_free_for` its reservation rule. `join` is split by its outcome into `JoinAdmitted`,
`JoinQueued` and `JoinRejected`; `playing_leave` removes and promotes with `promote_front_fit` in one step, as
the code does. The caller passes the clock, so `expire_stale` may see any instant of `Times`, also an earlier
one. **SlotServer** is what the queue promises, without order or time: who is in, who waits, at most so many;
an arrival, a departure that fills the freed slot at once, and some of those who wait going away.

**Admission** (`ald-server/src/admission.rs`, `state.rs`, `ald-protocol/src/handshake.rs`) extends it. One action
per handler (`on_hello`, `on_auth`, `on_identity`, `on_entitlement`, `on_ready`), the gate `admit_packet` in front
of each, `register` with the player service behind `on_ready`, and `remove`, which the server never calls
(`AdmissionLeaveSpec` adds it). A peer may send any message at any time, with an old nonce or under another
peer's account.

**AstrynJoin** (`client/astryn/src/lib.rs`) extends it with the client: one action per send, per kind of receive
and per timeout of `run_connect_task`, and `AstrynClient::shutdown` with its bounded wait. Packets are in sets:
they arrive in any order, never, or twice.

**Arrival**: `JoinDriver` with every event at every phase (`join.rs`), a deferral session whose gates answer
anything (`ald-deferrals`), protocol and feature negotiation with the policy upgraded in between
(`ald-negotiation`), the simulated cluster of the load tests (`simulation-client`).

**Persistence** (`crates/ald-persistence`). Files are sequences of records that are whole, torn or bad. An append is
two steps (written, synced) so that a crash or an I/O error leaves nothing, a prefix or all of it; a checkpoint is
two (renamed, truncated). Bytes behind a torn record complete its framing, so `recover` may go both ways the bytes
allow. Damage is a wrong checksum or a record whose length, which no checksum covers, has grown: then the rest of the
journal reads as a torn tail. **Database** (`ald-database`, `ald-db-capability`): a transaction as the batch of statements
the crate builds, with refused statements, commit, rollback and drop, for there is no driver in the repository and
nothing is said of what a database does with a batch; migrations with a crash between body and row; the conformance run.

**Goods** (economy and inventory), **Framework** (`framework/aldivine`, `ald-state`, `ald-statebag-compat`,
`ald-permissions`). `transfer_items` is nesting check, take, give, and the give that rolls back, whose error the
code discards. `Framework` has the bags with the strict layer's second owner table and a listener that only sees
events, players and the name index, jobs with duty, and the whole table of roles and permissions with direct grants.

**World** (`ald-ecs`, `ald-buckets`, `ald-population`): slots with generations and a free list, ownership,
dimensions, the grid with cells on both sides of the origin, ambient budgets that buckets push down.
**Timeline** (`ald-timesync`, `ald-lagcomp`, `ald-replay`, `ald-snapshot`), **Presence** (`ald-voice`,
`ald-game-events`, `ald-nui`, `ald-dui`, `ald-input`, whose bindings claim a key with a press type) and **Scheduling**
(`ald-scheduler` with its eight classes of work, `ald-events`) hold small independent machines, one per crate or service.

**Reliability**, **Sessions**, **Rpc**, **Replication**. `validate` on the window as a set of bits, against a network
that delivers any packet again while it lives; the two session tables; the registry at the granularity of its locks,
with `expire` one step per entry; the tracker of one entity and one client with a channel that loses.

**ContentCache**, **Download**, **Residency**, **Transfer**, **Streaming**. The cache's files and
tables with `reopen` after a crash (recency is rebuilt from file times: any order), objects of one unit or two; reassembly with
`missing_ranges`; the weighted rotation; the residency handshake on the caller's ticks. Transfer extends Download
with the client's fetch loop, the server's reply and the datagram limits; Streaming extends Residency with the
engine that folds download, cache, mount and residency into one state.

**Lifecycle**, **LeaderElection**, **CircuitBreaker**. The supervisor's handler step by step with its command
channel, quarantine from elsewhere and the server's `shutdown()`; the coordinator with heartbeats in flight, crashes
of nodes and restarts of the coordinator (its epoch is only in memory); the breaker with calls begun before it opened.

**ScriptHosts** (`ald-script-js`, `-node`, `-dotnet`, `ald-native-extension`): timers whose callbacks set and clear timers,
the event bus with nested emits, Node's resolution with its recursion on a stack, install planning from drifting
`package.json` and lock with install scripts and native addons, authorisation of extensions (shape, capabilities, runtime,
hash, signature, in the order of the code) and their loading with files replaced in between, the ECMA-335 table walk with
its column widths, load planning with versions and key tokens, and the tick pump. **Config** (`ald-servercfg`, `ald-config`,
`config_loader.rs`, `ald-fxmanifest`): include resolution, directives in their two forms, secrets, the manifest parser with
one token of lookahead. **Wire** (`ald-serialization-compat`, `ald-protocol/event.rs`, `ald-cfxlua-compat`): the encoders
and decoders byte by byte with every form of MessagePack, integers as the eight bytes of an `i64`, strings with the check
for UTF-8, what another runtime may write and the Lua bridge reads. Vectors are `f32` in the code; here their components are
whole numbers, and every operation rounds its result to `Significand` bits, to even, as `f32` does to 24. Fractions,
overflow, infinities and NaN are left out. **Packages** (`ald-vfs`, `ald-package`, `ald-package-scanner`,
`ald-asset-registry`, `ald-datafiles`): sandboxed reads and writes with links that appear between the check, the temporary
file and the rename, package verification, the scanner with its findings counted by severity, the registries.

**Defence**, **Fleet**, **Aegis**, **Releases**: the protection, the fleet, the administration and the release side
of the table in section 1, one machine per crate or service. The ingress gate of `Defence` is `ServerState::admit_packet`:
bucket, then channel and session state; the verdicts of the event firewall's `check`, which nothing calls, are a
machine of their own.
A version of `Releases` is major, minor and patch in the planner; for the launcher it is a number or unreadable. The planned
restore is the plan alone: what copies the files is outside. The migration report is a scan file by file, in any order of
the directory and past files that cannot be read; a script file is how often it makes each of six calls, which stand for the
severities and flavors of the code's table, and one of which is also found where a longer name begins with it; the manifest is
one more finding. The closed alerts of `Aegis` are kept per condition; the code has one list of them.

## 4. Runs

Seven runs pass, five show a disagreement of code and documentation.

| Run | Model | What it shows |
|---|---|---|
| `queue` | `AdmissionQueue.cfg` | `SlotCaps`: neither the server nor its reserved slots are oversold. `NoIdleSlot`: nobody waits who could be given a slot now, although only departures promote. `NoOvertaking`: FIFO within a class. `WaitersServed`: nobody with a reservation starves (nobody at all where none are reserved). `ImplementsSlots`: every call is a step of the abstract slot server. |
| `join` | `AstrynJoin.cfg` | `RunningHoldsSlot`: a client that runs holds a slot. `JoinEnds`: every join ends; a client told to quit ends idle with its task gone. |
| `content` | `MCContent.cfg` | `CacheSound`: files under a name are that payload or damaged, the recency list names each entry of the size table once and the table misses no object on disk (it may have one too many, see 8), eviction ends in the quota and spares what is protected. `DownloadSound`: the resume list is exactly what is missing; a lane waits at most for one turn of each other lane. `TransferSound`: no chunk lands in another file, the cache holds a file's negotiated bytes or nothing. `DeliveryEnds`: every fetch and every residency request ends. |
| `world` | `MCWorld.cfg` | `WorldSound`, `FrameworkSound`, `TimelineSound`, `PresenceSound`, `ArrivalSound`, `SchedulingSound`: the invariants of those modules, machine by machine. `GoodsAccounted`: the ledger explains each balance, modulo the word and exactly while what was minted fits; units are never duplicated, and while definitions are not edited and no word wraps none is lost and no limit broken. `GatesSound`: only verified bytes count as cached, dependencies stay resolved, an open join gate does not close. |
| `platform` | `MCPlatform.cfg` | `Durable`: acknowledged operations survive crashes and failed writes, in order, and their numbers are not reused; on a damaged disk recovery reads past no wrong checksum that is not hidden by a damaged length or a buried record in front of it, and it refuses nothing else. `DatabaseSound`, `AegisSound`, `DefenceSound`, `FleetSound`, `ReleasesSound`: the invariants of those modules. |
| `scripts` | `MCScripts.cfg` | `ScriptsSound`, `ConfigSound`, `WireSound`, `PackagesSound`: the invariants of those modules. `WindowExact`: replays in reach of the mask are refused, first deliveries in the window are not. `NoDangling`: an address never leads to a dead session or another peer's. `NothingForgotten`: the newest value of a component is queued, in flight or delivered, unless it was dropped by the cap, lost, or overtaken by a snapshot. |
| `operations` | `MCOperations.cfg` | `AdmissionSound`: whoever is Ready or registered as a player holds a slot; an account is in the world once. `HandlesAccounted`, `NoShortcut`: no leaked handles, no way to serve but through the script host. `OneHolderPerEpoch`, `DeposedOnlyByTimeout`: a coordinator grants an epoch once and deposes only after silence. `PendingIsWatched`, `NeverUnresolved`: no request can escape the timeout sweep; each ends. `OperationsRecover`: every start settles, a crashed leader is replaced, the breaker closes again. |
| `admission_promotion` | `AdmissionPromotion.cfg` | violates `PromotedGetsIn`, see [8](#8-where-code-and-documentation-disagree) |
| `persistence_torn` | `PersistenceTorn.cfg` | violates `TornTailHarmless` |
| `event_integers` | `EventIntegers.cfg` | violates `IntegersSurvive` |
| `sandbox_links` | `SandboxLinks.cfg` | violates `ReadsConfined` |
| `lifecycle_shutdown` | `LifecycleShutdown.cfg` | violates `ShutdownStopsAll` |

To run one: `tlc -config MCWorld.cfg MCWorld`. The longest takes about three minutes on two cores.

Deadlock is checked in `queue` and `admission_promotion`. The other runs switch it off because their systems may stop: a join
ends, sessions are used up, a halted journal waits for an operator, a plan is finished, a bounded counter is used up.

## 5. Bounds

Every bound is a constant that a guard names; the values are in the `.cfg` files.

| Run | Instance | Why it is enough |
|---|---|---|
| queue | 5 players, 3 slots of which 1 reserved, waitlist of 2, two instants | open and reserved slots can both be full with both classes waiting, in both orders |
| join | 1 client and 1 competitor for the only slot, 2 tries per loop (3 to 6 in the code), 1 duplicate | the client can lose its slot, be queued, retry after its session was replaced, be interrupted anywhere |
| content | cache: 3 payloads, one of double size, quota 2, 1 damage. Download: 3 bytes, 3 versions. 3 lanes weighing 3, 2, 1, up to 4 jobs. Residency: 2 assets, timeout 2, 2 retries. Transfer: 4 files (empty, a datagram, a chunk, more than a chunk), 1 edit | every shape of holes; quota exceeded by one large and by several small objects; turns ended by quantum and by an empty lane; every size class the limits distinguish |
| world | 2 entity slots with a reuse, 2 bodies on 4 coordinates with cells of 2, 2 buckets; 2 writers, 2 keys; 2 players, 3 names; delays up to 3, history of 2, positions 0 and 1; sequence space of 8 with 10 sends; 3 gates; 3 protocol versions; all seven roles; lanes of 2 with 3 tasks of any of the eight classes; 2-bit money, 4-bit weights, 3 units | ids outlive their entity, cells lie on both sides of the origin, numbers and balances wrap, rings and queues overflow, rollback meets a limit reached meanwhile |
| platform | journal: 2 keys, 3 appends, 2 faults, 1 damage. Batches of up to 5 statements, 2 accounts, 2 commits; 3 migrations, 2 crashes. Lockout of 2 in a window of 3, ttl 5 and 2. Burst 2, 2 shards with 2 entities, 3 sources, 3 builds; versions 0.1.0, 0.1.1, 0.2.0 and 1.0.0; 2 script files with up to 1 call of each kind | a fault in recovery's own wake; a transfer with a refused statement behind it; versions that differ in each place, on both sides of 1.0; attempts that straddle the end of a window; a lease that lapses between prepare and commit |
| scripts | 3 timers, nesting 2; 3 directory levels; 5 steps of an extension; 6 row counts around the width of an index; 3 config files and depth 3; 2 lines of a server.cfg, 5 tokens of a manifest; integers and lengths on both sides of every boundary of the formats up to 256 bytes, tables of 15 and 16 entries, vectors of 6 significant bits; 5 calls on a sandbox with links at a file and a directory; window: 4-bit numbers, mask 3, window 5, 18 packets; 3 session ids, 2 addresses; 2 components, cap 1 | callbacks that change the batch they run in; cycles under one name and two; every pair of lines that override or contradict each other; the order mask < window < half the space is the code's (64 < 1024 < 2^31) and the space wraps once |
| operations | admission: 2 peers, 3 account ids of which one can be registered, 1 slot, 1 waitlist place, 4 sessions. 2 resources (one with more scripts than a stop releases), 1 queued command; 2 nodes, 2 epochs, 1 restart; threshold 2, cooldown 2, 3 concurrent calls; 3 requests | both peers can share an account, restart their session, be queued and rejected; a command behind a running one; a heartbeat of the first epoch in the second; an outcome that comes two states late; a sweep between the two halves of `track` |

No symmetry reduction is used: several runs check liveness, and the suites mix sets that may not be permuted together.

## 6. Fairness

* `queue`: players who play leave at last (weak fairness of `playing_leave`). Nothing is assumed of waiters or
  of the expiry timer.
* `join`: the runtime polls a task whose wait is over (weak fairness of `task`), and a timer of `shutdown` fires.
  Nothing is assumed of the network, the server or the user.
* `content`: the caller ticks and polls; the bridge need not confirm. The client's fetch loop has a timer on each
  wait (weak fairness of `ClientStep`); nothing is assumed of the network.
* `operations`: the supervisor is a scheduled task, `shutdown()` runs to its end; time passes, heartbeats arrive
  or are lost, standbys keep claiming; callers keep calling and, while the service is healthy, not all calls
  fail (strong fairness of `record_success`). Threads and clock progress, the host calls `expire` again and again;
  `track` waits for a mutex the sweep takes repeatedly: strong fairness, because the lock is free for the whole time
  between two sweeps, which a waiting thread cannot miss for ever. No answer need ever arrive.

## 7. Refinement and proofs

**The queue implements the slot server.** `AdmissionQueue` instantiates `SlotServer` with the waitlist read as a set
(`Waiting`). The run `queue` checks `ImplementsSlots` on its instance, the theorem `QueueImplementsSlots` proves it for
every configuration: an admitted, queued or refused join is an arrival; `playing_leave` with its promotion is a
departure after which nobody waits who fits; `queue_leave` and `expire_stale` are withdrawals.

Eight modules hold theorems; `tlapm` checks each to its last leaf. They hold for every value of the constants
the `ASSUME`s allow, which are those the constructors of the code accept. Where a theorem is about a module of
several machines (`PresenceSpec`, `FrameworkSpec`, `FleetSpec`, `DownloadSpec /\ LaneSpec`, `WorldParts`,
`SchedulingParts`, `ArrivalParts`, `DatabaseParts`, `GoodsParts`, `TimelineParts`, `ReleasesParts`,
`AegisParts`, `PackagesParts`, `ScriptsParts`, `ConfigParts`), its specification is the
conjunction of the machines' own: each has its variables and moves as it likes, also at the same time as another.

Some theorems need an induction over data: over the positions of a list, the members of a table, the steps of a loop.
The library's induction theorems take the induction predicate as an operator parameter, which the provers cannot
instantiate. Where one is needed it is done with sets: the numbers that have the property are a set that holds 0
and is closed under successor (`UpTo`, from the least counterexample that `WFMin` gives), and a recursive function
exists because each of its finite prefixes does (`Iterates`). **Sums** has these two, the sums over sequences and finite
sets that `Goods`, `Database`, `Timeline`, `Releases`, `Aegis` and `Packages` count with, and their laws: one more term, one
term replaced, a term and the whole; and `Selected`, the elements of a sequence at some positions, which is what
filtering a list does (`SelectedIs`: in order, each once, none left out), as `Packages`, `ScriptHosts` and `Config` do;
and `Concat`, several sequences one behind the other, with its laws: one sequence more, the last one longer.

* **AdmissionProofs**, the queue: `QueueInvariant`, from it `QueueTypeCorrect`, `NoOversoldSlot`, `OnePlacePerPlayer`,
  `NoSlotLeftIdle`, and with it `QueueImplementsSlots` and `NobodyOvertaken`. The inductive invariant is types,
  finiteness of `playing`, `SlotCaps`, `OnePlace` and `NoIdleSlot` together: a promotion stays within the caps because
  it is checked by `slot_free_for`; after a departure frees one slot, the promoted entry takes it, and for all behind it
  the rule is as strict as before; for this the departing and the promoted entry must be different and each be counted
  once, which is `OnePlace`. Nobody is overtaken because `NoIdleSlot` makes a direct admission impossible while someone
  of the class waits, and `promote_front_fit` takes the first that fits.
  Server and client build on it. `AdmissionIsSound`: `AdmissionInv` is the queue's invariant with the two parts of
  `AdmissionSound`; an account cannot be Ready through a second peer because the queue refuses an id that is playing
  (`JoinOutcome`, `AdmittedPlays`). `AdmissionKeepsQueue` carries the queue's results over. `RunningAlwaysHoldsSlot`:
  `JoinInv` follows a ServerReady from the session over the packets under way and the wait for the welcome event to the
  client that runs; a packet may be old or a duplicate, and is still true because nothing a server does takes a slot away
  (`KeepsPlaying`; `remove` has no caller).
* **OperationsProofs**. `EpochsUnique`, `LeaderIsHolder`, `OnlyTimeoutDeposes`: `ElectionInv` adds that heartbeats carry
  epochs granted to their sender (`BeatsGranted`), `UniqueInv` that no grant of this incarnation is ahead of the current
  epoch, so that a claim's epoch is new. `PendingAlwaysWatched`, `TimedOutStaysOver`: the strengthening is that the sweep's
  record is empty between sweeps and that ids above the counter are unknown. `HandlesAlwaysAccounted`,
  `NobodyShortcuts`: `StepMatchesState` ties the step of the supervisor's handler, which runs without the lock, to the
  states the resource can be in meanwhile. `BreakerCounts`.
  `ReleasesAlwaysSound`: the launcher's installs never go back between readable versions although an offer may be stale when
  it is taken, because the gate compares with what is installed then; a restore is planned only of an archive that still
  holds what was saved, because the manifest's hashes are those of that time; a plan, its way back and the next step agree,
  by cases over the components and the places of their versions; and the migration report: the invariant of its scan says of
  each file that it is unread or skipped and without findings, or found as often as `match_indices` says, which is as often
  as it makes the call for every call that is not supported as it is (`severity_count` is then positive exactly if a finding
  blocks).
  `AegisAlwaysSound`: `AccountInv` follows one account's failures: the first failure of a window is the one that starts it,
  so that what is left of an earlier window is one less than was allowed, and any span as long as a window holds less than
  twice the allowance (`FailureStarts`, `FailureCounted`, `AccountTick`). `Honest` ties a session's deadlines to its issue
  and last use, and its authentication to the factors proven. `Booked` and `Ongoing` say that the closed alerts of a
  condition and the open one together count its reports and follow each other; `LongestKept` that the longest ban of a
  player is still on the list. That every list can be sorted (`SortedExists`) and what its k-th element is (`ValueCount`)
  give the percentiles.
* **NetworkProofs**. `AddressesNeverDangle` needs that an id in use is used once. `NoWriteForgotten`: `ReplicationInv` says
  of each component that it is queued with its newest value, or the last packet that mentions it carries that value, or the
  client has it and no packet mentions it (`Current`), so that a late packet cannot undo a newer one. `WindowTellsReplays`
  for any width, mask and window: `WindowMatches` identifies the mask with the accepted packets in its reach and keeps the
  sender less than half the space ahead, which is what makes wrapped subtraction tell new from old (`PacketPlace`, on
  `ModOf` and `ModDifference`). `PresenceAlwaysSound`: voice, events across the wrap, callbacks, focus, devices.
* **ContentProofs**. `GatesAlwaysSound`. `ResumeListExact`: that a scan over the bitmap yields the maximal runs is an
  induction over the position (`ScanStep`, `CloseRun`), done with `SetInduction`: a set of naturals without a least
  counterexample has none (`WFMin`). `FetchesAlwaysSound`: datagrams keep the file and version they were cut from.
  `NoLaneMonopoly`: a lane's bypasses and the jobs still ahead of it in the rotation (`Ahead`) together never exceed one
  turn of each other lane; serving moves a job from the second to the first. `DownloadsAlwaysSound` joins the two.
  `CacheAlwaysSound`: `CacheInv` says that the recency list names each tracked object once and that whatever is on disk is
  tracked (not the converse, which a commit onto a damaged object breaks); what eviction, removal and reopening leave of the
  list is again such a list (`RetainLists`).
  `PackagesAlwaysSound`: `VfsInv` says that each file and temporary file is in the directory of the resource that wrote it
  unless its directory was swapped for a link in the middle of that write (`FilesOwned`, `StagedOwned`), where links lead,
  and that a call between its check and its use has a target in a resource it may use. Then a read whose target's links are
  followed anew stays in its resource unless a directory on its way is a link, for what it leads to must lie below the
  target's own directory (`ReadStays`), and a write stays because the canonical parent is below the caller's root and a
  rename replaces a link instead of following it (`WriteStays`). Both exceptions are real: `sandbox_links` and section 8.
  `VfsAssumption` is the scope of this: links are made of a resource's subdirectory or of files, not of its directory, and
  lead to a resource that has none itself. The scanner's verdict is a function of what the files and what the authority add
  (`JudgedIs`), which falls as the reputation rises (`JudgedFalls`); `RegistriesInv` says that a certified entry is kept
  under the base of its name.
  `ScriptsAlwaysSound`, one invariant per machine. `JsInv`: an entry of the registry is not overdue and, if a timeout, has
  not run; a timeout that waits to run waits once, has not run and is in the registry no longer, so no later pump can take
  it again (`PumpFits`; a clear only takes entries away, `RegistryPart`). `BusInv`: what a batch has heard and what it has
  still to run are together the local handlers there were at the emit, each once and all of the first before all of the
  second.
  `ResolveInv`: the calls under way are a chain of mains from the present level, which no set closed under main leaves, so
  that a walk that finds nothing has shown that there is nothing. `LoadInv`: the stack of visits is a chain of references,
  and what is planned comes after its references, none of them outdated or untrusted. `TicksInv`: the next boundary is as
  many intervals on as ticks have fired, which is one more than the whole intervals in the clock (`TheQuotient`).
  `ImageInv`: the tables read so far lie in the file one after another, with the widths the row counts give. `ExtensionInv`:
  what was authorised was signed as it is by a key its policy trusted, or let in unsigned by that policy, and is within it;
  what is loaded carries that authorisation, not the library it was given for. That an install plan fits needs no invariant
  (`PlanFits`).
* **ServicesProofs**. `FrameworkAlwaysSound`: the strict layer's owners and the bags', events and values, names and
  characters, duty and pay, and the rights: by the code's table each role is allowed what the roles below it are (`Above`:
  two ladders below Admin, with a Moderator on neither), whatever was granted and taken. `FleetAlwaysSound`: `LeasesOrdered`
  says that the leases ever given for an object have rising epochs and the current one is the last; `EdgeInv` that
  `origin_in_use` is the number of open connections; `QueriesInv` that the window's hits are the answers since it opened, so
  that answers stay spread over time (`LastWindow`); `AgentInv` that restarts never outnumber crashes.
  `GoodsAlwaysAccounted`: `EconomyInv` says that what is due to an account and its balance differ by whole words, and by
  none while what was minted fits in one, which needs that the balances together are no more than what was minted.
  `InventoryInv` says that storages are `Fair` while no definition is edited and no word wraps (`Unedited`, `FitsWords`): stacks weigh what their item weighs, are within
  its `max_stack`, and an item that stacks has one stack. With it the second `give` of a refused transfer cannot be refused
  (`GiveBack`, `RoomToGiveBack`), although the code discards its result; that no unit is made holds without it.
* **WorldProofs**. `WorldAlwaysSound`: `EntityInv` ties generations, the free list (each vacant slot once) and the
  dimensions of living entities together; `GridInv` the cells to the positions, and the scan of the cells in reach finds
  what the scan of all would because a body in reach lies in a cell in reach, on both sides of the origin; `PopulationInv`
  keeps counts below the largest cap ever pushed down. `SchedulingAlwaysSound`: `AccountsInv` (the two tables agree),
  `ExecutorInv` (each accepted task is in one place, the ordered lane ends in the order of its submits), `BusInv` (handlers
  sorted by priority and age). `ArrivalAlwaysSound`: a join's phases, a deferral's gates, what negotiation agrees on, and the
  simulated queue, whose clients know their position after each step (`ClusterInv`).
* **DataProofs**. `JournalIsDurable`, for any keys, values and number of faults. `Covered(asked, k, v, s)` says that `v` is
  what the appends up to sequence number `s` may have left for `k`: the last acknowledged one, or a later one in doubt.
  `OnDisk` says it of every whole record and of the checkpoint, and that no acknowledged record above the checkpoint is
  missing; `InMemory` of the map in memory, and that the next number is above all in use. A crash keeps `OnDisk`, recovery
  turns it into `InMemory` (`LatestRecord`: the highest record of a key decides), a checkpoint moves `InMemory` into the
  base. It all holds while no record is buried behind a torn one and no file is damaged. The other half of `Durable` is what
  recovery does on a damaged disk: it comes up over a wrong checksum only if a length that has grown, or a torn record that
  was appended to, hides it, and it refuses only what is damaged or buried. For a buried record see `persistence_torn`
  below.
  `DatabaseAlwaysSound`: `TransactionsInv` says that the open batch is what was put to it and has each debit between its
  lock and its credit (`TransfersWhole`), which a refused statement cannot break because it takes the transaction with it;
  `MigrationsInv` that the statements still to run are bodies each followed by its record (`Paired`), that what is recorded
  ran, and that all runs together are at most the records, the crashes and the body whose record is due; `ConformanceInv`
  that no asserted capability passes on a backend that lacks it.
  `TimelineAlwaysSound`: `ClockInv` says that a sample with the shortest round trip ever seen is still among the samples,
  for eviction takes the longest (`WorstIs`; for capacities above one: an estimator with one place, which the code allows,
  gives up its best sample for the next), and that each sample's error is at most half its round trip. `HistoryInv` says
  that the ticks kept are the newest recorded, also when they come out of order; that a point between two neighbours lies
  between their positions is `Between`. `LiveAfterIs`, an induction over the events, says what applying a part of the
  recording does; with it stepping, running to a breakpoint and seeking all show the same prefix.
  `ConfigAlwaysSound`, one invariant per reader. `IncludeInv`: each file on the include stack stands behind a line that
  includes the next, and the lines expanded so far are what the finished lines of the files on the stack give, one file
  behind the other (`SoFar`); an include that ends moves its lines from its own place to that of its includer
  (`ChainShrinks`). That a refusal is right goes the other way: what one file on the stack cannot give its root cannot give
  (`ChainFails`), and files that include each other give nothing at any depth (`CycleFails`). `NormInv` says of each setting
  that it is what the last line about its name left (`MaxFits`, `AddressFits`, `ConvarsFit`, `SecretsFit`), of the lists
  that they follow the lines (`EndpointsFit`, `ResourcesFit`). `ManifestInv` (`Grammar`) says what the tokens taken so far
  mean: as many tables are open as braces, the directives done and the one in work are the names outside of any table, and
  what a list has collected, with the label and the strings of the open tables still to be delivered, is what its directives
  declare (`Collected`; `DeliverIs`, `TakenStep`).

What is only model-checked, and why:

* Liveness (`WaitersServed`, `JoinEnds`, `DeliveryEnds`, `NeverUnresolved`, `OperationsRecover`): fairness and `ENABLED`
  are out of the prover's reach.
* `WireSound` (recursive decoders) and `DefenceSound` (`Bitwise`): no proof can reach those modules as they are written.

## 8. Where code and documentation disagree

Modelling an operation from the source and stating what a comment or a page says about it sometimes gives two
different things. Five of these have a run:

* **`admission_promotion`.** `AdmissionManager::remove` throws away the id `playing_leave` promotes
  (`admission.rs:90`). The promoted peer's session stays in WaitingQueue and its next ClientReady is rejected as
  "already connected". `ald-queue/src/lib.rs:208`: "Scan front-to-back; admit the first entry the reservation rule
  allows."
* **`persistence_torn`.** Neither `open` nor `recover` cuts a torn record off (`ald-persistence/src/lib.rs:136`);
  the next append lands behind it, and the next recovery fails or loses acknowledged records.
  `docs/PERSISTENCE.md:21`: "dropped and reported, recovery succeeds."
* **`lifecycle_shutdown`.** `shutdown()` raises the flag, then sends Stop commands, which the supervisor ignores
  because the flag is up (`ald-server/src/lifecycle.rs:33`). `ald-server/src/lib.rs:158`: "signal tasks, stop
  resources, close listener."
* **`event_integers`.** For 256 to 2^32 - 1 `write_int` writes the eight bytes of the `i64` behind a tag that announces
  two or four (`ald-serialization-compat/src/lib.rs:122`, `:125`), so the value arrives as 0 and the rest of the event
  is misread.
* **`sandbox_links`.** A read is compared with the directory it goes through after that directory's own links were followed
  (`ald-vfs/src/lib.rs:130`), so what lies below a linked directory is read although it is outside. The test
  `symlink_escape_blocked` (`:553`, "symlink escape must be blocked", compiled on Unix) asks for the opposite.

The others are described here; the passing properties say what does hold, with the condition under which it does.

*Admission, client, arrival.* `on_ready` asks only for an account id, so a ClientReady right after ClientAuth skips the
identity policy (`admission.rs:268`; `handshake.rs:27` "There is no shortcut"). A duplicated IdentityResponse or a late
hello takes a Ready session back (`admission.rs:192`); the slot stays. `shutdown` may report Idle before the task
reports Running once more (`astryn/src/lib.rs:192`). `JoinDriver` accepts ResidencyReady with assets pending and
DownloadComplete with bytes missing. A deferral session denied by a gate can be polled on. Negotiation does not look at
a hello with min above max, takes the first of several versions the server lists for a feature, and lets a disabled
required feature pass. The simulated cluster lets clients past a full queue.

*Data.* A failed append uses a sequence number up (`PERSISTENCE.md:28` "Failed appends consume no sequence"). The length in
front of a record is not under its checksum, so a length damaged upwards passes for a torn tail and the acknowledged records
behind it are dropped with an Ok (`ald-persistence/src/lib.rs:248`). `credit` wraps (`economy.rs:89`); an inventory rollback
is a `give` under the current definition whose error is discarded (`inventory.rs:197`); stacks keep the weight of an old
definition (`:143`). The statements of `money_transfer_tx` check neither the balance they debit (`transaction.rs:188`;
`:163` "lock and validate the source balance") nor that the credited account exists (`:193`). `Migrator::plan` has an empty
gap check (`migrations.rs:114`); a lower version added later runs out of order; a crash between body and row runs the body
twice. Two capabilities pass the conformance suite without an assertion and isolation as not applicable (`capability.rs:5`).

*World.* `PlayerService::join` leaves a returning player Offline (`players.rs:63`). `members_of` of the default dimension
lists only explicit assignments. The replication set leaves out bodies exactly at the observer's place. A locked-down
bucket still takes players. `set_replicated` on an unknown key creates it without an event; a delete's event has no old
value. Direct grants do nothing without a role. A Moderator may not read the audit log, which Support
and ReadOnly may (`ald-permissions/src/lib.rs:61`). A job registered again with fewer grades leaves employees in grades that
are gone, unpaid. The sign in `SyncResult`'s comment (`timesync/src/lib.rs:40`) is not the code's (`:55`); the best clock
sample never ages. A breakpoint holds `continue_exec` for ever. `encode` of a snapshot accepts what `decode` refuses. A
speaker need not be a member of the voice channel. Pending NUI requests never expire.

*Scheduling and network.* `Scheduler::new` starts the detector with thresholds of zero; per-second counters never decay;
a panic on the ordered lane ends it and later submits report "queue full". A packet 64 to 1023 behind is accepted as often
as it arrives (`reliability.rs:73`; `:2` "duplicates and replays are rejected"). Removing an old session deletes the address
entry of its successor (`session.rs:73`). A request resolved between the sweep's two looks is reported as timed out as well
(`ald-rpc/src/lib.rs:92`). `flush` forgets what it sends (`ald-replication/src/lib.rs:134`; `:7` "unacked updates are
re-sent").

*Content.* An object that fails its hash at commit is deleted and still counted (`ald-cache/src/lib.rs:190`). A late chunk
of another file fails a fetch (`astryn/src/lib.rs:160`); a file over 32 KiB is requested whole and refused (`:136`); replies
over one MTU cannot be received (`transport.rs:39`). Residency may be requested for an asset that was never mounted and then
opens the join gate (`ald-streaming/src/lib.rs:227`); a hash mismatch at finalize leaves the asset where no operation moves
it on (`:178`; `docs/ASSET_RECOVERY.md:14-15` "Re-queue chunk").

*Operations.* A quarantined resource cannot be started (`ald-resource/src/lifecycle.rs:71`; `:100-101`). A restarted
coordinator begins at epoch 0 and grants epochs again (`ald-ha/src/lib.rs:134`; `:124` "Split-brain safe"). In sharding a
commit looks at no lease again, a committed ticket can be aborted (`lib.rs:164`) and a ticket id used again overwrites. A
release of an address the edge never admitted still frees an origin slot. A query sheds the icon before the players; its
comment says players first (`ald-query/src/lib.rs:111`). The node agent starts a quarantined instance on request, never
counts watchdog restarts as crashes and panics with `max_log_lines` of 0.

*Protection and administration.* The event firewall never answers DenyRate, and nothing calls its
`check` (`admit_packet` asks only its `channel_allowed_client`, `state.rs:118`). `verify_movement` accepts anything with no time
in between, and its slack adds up per report. The second secret of one form in a line stays readable
(`ald-security/src/lib.rs:32`). A free protected package without `requires_entitlement` runs with neither signature nor grant,
and the private policy never looks at the signature. Safe mode stays active, as its evaluation takes no time. The incident
timeline drops its first entry before it sorts (`alerts.rs:240`). A mapped IPv6 peer is never brought to canonical form.

*Releases and packages.* The update check calls any other version newer, and through an unreadable version the launcher can
go to an older one. Rollback targets may be cyclic. A backup's parent and additional files of an archive are never checked.
The planner ignores removed packages and calls protocol downgrades non-breaking. The migration report's flavor text depends
on the directory order, and a call whose name begins with that of another is found twice (`migrate.rs:227`). A directory
swapped for a link between the check of a write and its temporary file is followed, and if the target is new the last check
does not see it (`ald-vfs/src/lib.rs:161`-`:163`; `:12` "a symlink swap after validation is still caught"; `SwapCaught`).
Remounting forgets shares; `d/../f` passes the sanitizer and is refused behind it; a refused last check leaves the temporary
file. Additional payload files of a package go unnoticed, and the key it is checked with is the manifest's.

*Scripts.* Timer handles are positions, so clearing one may remove another; a callback that throws drops the rest of its
batch. A `main` that leads back to its own directory recurses without end. An extension's library is not hashed again when it
is loaded (`ald-native-extension/src/lib.rs:318`). Index 0 of a custom attribute underflows in debug builds
(`ecma335.rs:498`). Every secret provider resolves through the environment; a `set` of a name without a typed arm stores the
name itself (`normalize.rs:187`); `stop` leaves an ensured resource enabled. A `data_file` with two strings is refused though
commented as accepted (`ald-fxmanifest/src/lib.rs:671`). The Lua bridge does not pass the byte after 0xcc
(`ald-cfxlua-compat/src/lib.rs:654`), truncates integers from 65536 on (`:590`) and rewrites backticks inside string literals
(`:310`). An `Ext` with a vector's tag and size comes back as a vector. The result of a
vector operation has no metatable, so that `(a + b) * 2` fails in Lua (`ald-cfxlua-compat/src/lib.rs:280`).

## 9. Not modelled

Left out, with the reason: framework bridges and compatibility tables (names and lookups), the Lua runtime (no state of its
own), device identity and the audit chain, password hashing, SHA-256 and HMAC of the edge (cryptography), the launcher's
detection and paths, packet framing, native manifests read by a library, command line, web, console and API routes (display;
the commands they send are actions here). Within modelled components: path resolution in the transfer, malformed hashes and
I/O errors in the cache, `mark_degraded` and `mount` cancel and fail (nothing calls them), `acknowledge` and the statistics of
the replication tracker, the failover pool and grace policy of `ald-ha` (pure comparisons), SQL texts, the SSRF filter, the
characters of the lexers, promises of the Lua frontend, the proximity table of voice, and the order in which a file system makes
a rename and a truncation durable. What a machine leaves out is in the note of its component in `PROJECT.json`.

## 10. Plan

1. **Done**: the modules above, the refinement of the slot server, the proofs of section 7.
2. **Theorems next**: `Wire` and `Defence`, once their recursion and bit operations are restated as functions on numbers.
3. **Abstract specifications next**: a durable map with at most one operation in doubt that `Persistence` implements while no
   record is buried; a leader lease that `LeaderElection` implements between restarts.
4. **Disagreements stated as definitions and not yet run**: `Packages!SwapCaught`, `Fleet!CommittedStays`,
   `Fleet!IconAfterPlayers`, `Defence!NothingReadable`, `ScriptHosts!ClearsItsOwnTimer`, `ScriptHosts!MainFallsThrough`,
   `Config!ValueNeverKey`, `Config!TwoScalarsAccepted`, `Wire!StringsLeftAlone`.
