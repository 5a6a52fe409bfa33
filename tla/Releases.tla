------------------------------ MODULE Releases ------------------------------
(***************************************************************************)
(* How versions come and go: the release catalogue with the update check   *)
(* and the launcher's own gate, backups and their restore, the planner of  *)
(* upgrades, and the report on a resource to be migrated.  The machines    *)
(* updates, backups, upgrades and migrate share no state.  Signatures are  *)
(* right or wrong, contents are model values: cryptography is external.    *)
(***************************************************************************)
EXTENDS Integers, SequencesExt, Sums

Put(f, k, v) == [x \in DOMAIN f \cup {k} |-> IF x = k THEN v ELSE f[x]]

-----------------------------------------------------------------------------
(* Releases and the launcher.  A version is a number, or 0 for one that is *)
(* not of the form major.minor.patch (one such text stands for all).       *)
(* Nothing in the repository calls the launcher's checks: the installer is *)
(* outside, and takes what both of them pass. *)

CONSTANTS
    ArtifactIds,
    MaxVersion,
    MaxInstalls,        \* bound: installations
    NoArtifact

ASSUME ReleaseAssumption == MaxVersion \in Nat /\ MaxInstalls \in Nat /\ NoArtifact \notin ArtifactIds

VARIABLES
    catalogue,          \* artifact id -> record; a partial function
    published,          \* ids of the channel, in order
    installed,          \* version of the launcher
    offered,            \* the plan of the last check
    installs,           \* versions installed, in order
    firstRecord         \* artifact id -> what was first registered

releaseVars == <<catalogue, published, installed, offered, installs, firstRecord>>

NoOffer == [id |-> NoArtifact, available |-> FALSE]

UpdatesInit ==
    /\ catalogue = <<>> /\ published = <<>> /\ installed = 1 /\ offered = NoOffer
    /\ installs = <<1>> /\ firstRecord = <<>>

(* register: an id is taken once, and only with a valid signature, which   *)
(* covers the id, the version, the platform and the hash. *)
register_artifact(id, record) ==
    /\ id \notin DOMAIN catalogue /\ record.signature_ok
    /\ catalogue' = Put(catalogue, id, record)
    /\ published' = Append(published, id)
    /\ firstRecord' = IF id \in DOMAIN firstRecord THEN firstRecord ELSE Put(firstRecord, id, record)
    /\ UNCHANGED <<installed, offered, installs>>

(* get_latest: the one published last. *)
get_latest == IF published = <<>> THEN NoArtifact ELSE Last(published)

(* resolve_rollback: the target may be unknown, or never registered. *)
resolve_rollback(id) ==
    IF id \notin DOMAIN catalogue \/ catalogue[id].rollback_target \notin DOMAIN catalogue
    THEN NoArtifact ELSE catalogue[id].rollback_target

(* UpdateChecker::check: newer means different. *)
check_update ==
    /\ offered' = IF get_latest = NoArtifact THEN NoOffer
                  ELSE [id |-> get_latest, available |-> catalogue[get_latest].version # installed]
    /\ UNCHANGED <<catalogue, published, installed, installs, firstRecord>>

satisfies_minimum(current, minimum) == current = 0 \/ minimum = 0 \/ current >= minimum

(* Mutant: going back by one version is let through. *)
is_downgrade_late(current, offer) == current # 0 /\ offer # 0 /\ offer + 1 < current

(* A version that cannot be read is neither higher nor lower. *)
is_downgrade(current, offer) == current # 0 /\ offer # 0 /\ offer < current

(* validate_update, then verify_update_file for every file. *)
validate_update(m, signature_ok) ==
    /\ signature_ok /\ m.files # {} /\ m.channel = "stable"
    /\ satisfies_minimum(installed, m.minimum)
    /\ ~is_downgrade(installed, m.version)

verify_update_file(f) == f = "intact"

install(m, signature_ok) ==
    /\ Len(installs) < MaxInstalls
    /\ offered.available /\ m.version = catalogue[offered.id].version
    /\ validate_update(m, signature_ok)
    /\ \A f \in m.files : verify_update_file(f)
    /\ installed' = m.version
    /\ installs' = Append(installs, m.version)
    /\ UNCHANGED <<catalogue, published, offered, firstRecord>>

UpdatesNext ==
    \/ \E id \in ArtifactIds, v \in 0..MaxVersion, ok \in BOOLEAN, r \in ArtifactIds \cup {NoArtifact} :
         register_artifact(id, [version |-> v, signature_ok |-> ok, rollback_target |-> r])
    \/ check_update
    \/ \E v, min \in 0..MaxVersion, files \in SUBSET {"intact", "damaged"}, ch \in {"stable", "beta"}, ok \in BOOLEAN :
         install([version |-> v, minimum |-> min, files |-> files, channel |-> ch], ok)

(* Between versions that can be read the launcher never goes back, even    *)
(* when the catalogue offers an older one or the offer is stale by the     *)
(* time it is taken; the catalogue is immutable, and a rollback target     *)
(* that resolves is a registered artifact. *)
UpdatesSafe ==
    /\ \A i \in 1..(Len(installs) - 1) :
         installs[i] = 0 \/ installs[i + 1] = 0 \/ installs[i] <= installs[i + 1]
    /\ catalogue = firstRecord /\ ToSet(published) = DOMAIN catalogue /\ IsInjective(published)
    /\ \A id \in DOMAIN catalogue :
         resolve_rollback(id) # NoArtifact => resolve_rollback(id) \in DOMAIN catalogue /\ catalogue[id].signature_ok

-----------------------------------------------------------------------------
(* Backups. *)

CONSTANTS Paths, Contents

VARIABLES
    liveFiles,          \* path -> content; a partial function
    dbVersion,
    archive,            \* manifest and files, or <<>>
    restorePlan,        \* or <<>>
    taken,              \* history: what the files were when the archive was made
    planned             \* history: the archive's files, the schema and the answer at the plan

backupVars == <<liveFiles, dbVersion, archive, restorePlan, taken, planned>>

BackupsInit ==
    /\ liveFiles = <<>> /\ dbVersion = 1 /\ archive = <<>> /\ restorePlan = <<>>
    /\ taken = <<>> /\ planned = <<>>

write_file(p, c) ==
    /\ liveFiles' = Put(liveFiles, p, c)
    /\ UNCHANGED <<dbVersion, archive, restorePlan, taken, planned>>

(* create: the manifest lists path and hash of every file, and the schema. *)
create_backup ==
    /\ liveFiles # <<>>
    /\ archive' = [entries |-> liveFiles, files |-> liveFiles, db |-> dbVersion]
    /\ taken' = liveFiles /\ restorePlan' = <<>> /\ planned' = <<>>
    /\ UNCHANGED <<liveFiles, dbVersion>>

(* The archive is damaged: a file changed, lost or added. *)
damage_archive(p, c) ==
    /\ archive # <<>> /\ archive' = [archive EXCEPT !.files = Put(@, p, c)]
    /\ UNCHANGED <<liveFiles, dbVersion, restorePlan, taken, planned>>

lose(p) ==
    /\ archive # <<>> /\ archive' = [archive EXCEPT !.files = [q \in DOMAIN @ \ {p} |-> @[q]]]
    /\ UNCHANGED <<liveFiles, dbVersion, restorePlan, taken, planned>>

(* Mutant: a file the archive has lost is passed over. *)
verify_integrity_present(a) == \A p \in DOMAIN a.entries : p \in DOMAIN a.files => a.files[p] = a.entries[p]

verify_integrity(a) == \A p \in DOMAIN a.entries : p \in DOMAIN a.files /\ a.files[p] = a.entries[p]

(* The plan is the number of files and whether the schema has to follow;   *)
(* what copies the files is outside. *)
plan_restore(allow_gap) ==
    /\ archive # <<>> /\ verify_integrity(archive)
    /\ archive.db = dbVersion \/ allow_gap
    /\ restorePlan' = [file_count |-> Cardinality(DOMAIN archive.entries), sync |-> archive.db # dbVersion]
    /\ planned' = [files |-> archive.files, db |-> dbVersion, gap |-> allow_gap]
    /\ UNCHANGED <<liveFiles, dbVersion, archive, taken>>

migrate_db ==
    dbVersion < 2 /\ dbVersion' = dbVersion + 1 /\ UNCHANGED <<liveFiles, archive, restorePlan, taken, planned>>

(* AldivineLock::verify_package: the first package of the name counts. *)
verify_package(lock, name, hash) ==
    LET named == {i \in DOMAIN lock : lock[i].name = name}
    IN named # {} /\ lock[Min(named)].hash = hash

BackupsNext ==
    \/ \E p \in Paths, c \in Contents : write_file(p, c) \/ damage_archive(p, c)
    \/ \E p \in Paths : lose(p)
    \/ create_backup \/ migrate_db \/ \E gap \in BOOLEAN : plan_restore(gap)

(* A restore is planned only of an archive that, at that time, still held  *)
(* every file as it was when the backup was made, whatever happened to the *)
(* server's files or to the archive in between; it counts these files, and *)
(* onto another schema it is planned only if that was asked for. *)
RestoresExact ==
    restorePlan # <<>> =>
        /\ \A p \in DOMAIN taken : p \in DOMAIN planned.files /\ planned.files[p] = taken[p]
        /\ restorePlan.file_count = Cardinality(DOMAIN taken)
        /\ restorePlan.sync <=> archive.db # planned.db
        /\ restorePlan.sync => planned.gap

-----------------------------------------------------------------------------
(* Plans of upgrades, between two graphs of versions.  A version that does *)
(* not parse gives no plan; NovaGate and Aegis are never compared. *)

CONSTANTS
    SemVers,            \* versions: records of major, minor and patch
    PackageNames,
    NoVersion           \* of a package that is not there

ASSUME UpgradeAssumption ==
    /\ SemVers \subseteq [major : Nat, minor : Nat, patch : Nat] /\ NoVersion \notin SemVers
    /\ [major |-> 0, minor |-> 1, patch |-> 0] \in SemVers

VARIABLES fromGraph, toGraph

upgradeVars == <<fromGraph, toGraph>>

Numbers == 1..2     \* of protocols and schemas

UpgradeGraph ==
    [protocol : Numbers, server : SemVers, astryn : SemVers, framework : SemVers, db : Numbers,
     packages : [PackageNames -> SemVers \cup {NoVersion}]]

(* UpgradeGraph::default. *)
Start_graph ==
    LET v == [major |-> 0, minor |-> 1, patch |-> 0]
    IN [protocol |-> 1, server |-> v, astryn |-> v, framework |-> v, db |-> 1, packages |-> [p \in PackageNames |-> NoVersion]]

UpgradesInit == fromGraph = Start_graph /\ toGraph = Start_graph

Only_if(condition, x) == IF condition THEN {x} ELSE {}

Raises_major(v, w) == w.major > v.major

(* Mutant: below 1.0 everything goes. *)
Breaks_package_major(v, w) == v # NoVersion /\ w # NoVersion /\ Raises_major(v, w)

(* Before its first major version a package breaks with every minor one. *)
Breaks_package(v, w) ==
    v # NoVersion /\ w # NoVersion /\ (Raises_major(v, w) \/ (v.major = 0 /\ w.minor > v.minor))

(* The incompatibilities of a plan, with "breaking" or not. *)
incompatibilities(c, t) ==
    Only_if(t.protocol # c.protocol, [of |-> "protocol", breaking |-> t.protocol > c.protocol])
    \cup Only_if(Raises_major(c.server, t.server), [of |-> "server", breaking |-> TRUE])
    \cup Only_if(Raises_major(c.framework, t.framework), [of |-> "framework", breaking |-> TRUE])
    \cup Only_if(\E p \in PackageNames : Breaks_package(c.packages[p], t.packages[p]), [of |-> "package", breaking |-> TRUE])

(* Only the packages of the target are looked at. *)
packages_changed(c, t) == \E p \in PackageNames : t.packages[p] # NoVersion /\ t.packages[p] # c.packages[p]

(* 0 none, 1 hot reload, 2 graceful restart, 3 the full stack. *)
restart_requirement(c, t) ==
    Max({0} \cup Only_if(packages_changed(c, t), 1)
            \cup Only_if(t.protocol # c.protocol \/ t.server # c.server \/ Raises_major(c.framework, t.framework), 2)
            \cup Only_if(t.db # c.db, 3))

client_update(c, t) ==
    IF c.astryn = t.astryn /\ t.protocol <= c.protocol THEN "none"
    ELSE IF Raises_major(c.astryn, t.astryn) \/ t.protocol > c.protocol THEN "mandatory" ELSE "optional"

rollback_limit(c, t) ==
    CASE t.db < c.db -> "Impossible"
      [] t.db > c.db -> "Conditional"
      [] OTHER -> IF \E i \in incompatibilities(c, t) : i.breaking THEN "Conditional" ELSE "Safe"

(* The graphs that differ from g in one component. *)
One_change(g) ==
    {[g EXCEPT !.protocol = n] : n \in Numbers} \cup {[g EXCEPT !.db = n] : n \in Numbers}
    \cup {[g EXCEPT !.server = v] : v \in SemVers} \cup {[g EXCEPT !.astryn = v] : v \in SemVers}
    \cup {[g EXCEPT !.framework = v] : v \in SemVers}
    \cup {[g EXCEPT !.packages = [g.packages EXCEPT ![p] = v]] : p \in PackageNames, v \in SemVers \cup {NoVersion}}

(* A plan from where we are to somewhere; carried out, that is where we    *)
(* are. *)
plan_upgrade(t) == toGraph' = t /\ UNCHANGED fromGraph

carry_out == fromGraph # toGraph /\ fromGraph' = toGraph /\ UNCHANGED toGraph

(* One or two components at a time. *)
UpgradesNext ==
    \/ fromGraph = toGraph /\ \E u \in One_change(toGraph) : \E t \in One_change(u) : plan_upgrade(t)
    \/ carry_out

Drops_package(c, t) == \E p \in PackageNames : c.packages[p] # NoVersion /\ t.packages[p] = NoVersion

(* Over an upgrade, the way back and the step after it: a changed schema   *)
(* can be rolled back with a script in one direction and not at all in the *)
(* other; a plan and its way back are both safe only between graphs of one *)
(* schema, one protocol and the same major versions, below 1.0 of a        *)
(* package the same minor ones; two safe plans in a row are safe as one    *)
(* (unless the first drops a package, which is never looked at); clients   *)
(* that a new protocol shuts out must update; and what the server must be  *)
(* restarted for going there it must be for going back, but for the        *)
(* framework and packages. *)
PlansConsistent ==
    LET c == fromGraph t == toGraph IN
    /\ c.db # t.db => {rollback_limit(c, t), rollback_limit(t, c)} = {"Impossible", "Conditional"}
    /\ rollback_limit(c, t) = "Safe" /\ rollback_limit(t, c) = "Safe" =>
         /\ c.db = t.db /\ c.protocol = t.protocol
         /\ c.server.major = t.server.major /\ c.framework.major = t.framework.major
         /\ \A p \in PackageNames : {c.packages[p], t.packages[p]} \subseteq SemVers =>
              /\ c.packages[p].major = t.packages[p].major
              /\ c.packages[p].major = 0 => c.packages[p].minor = t.packages[p].minor
    /\ rollback_limit(c, t) = "Safe" /\ ~Drops_package(c, t) =>
         \A u \in One_change(t) : rollback_limit(t, u) = "Safe" => rollback_limit(c, u) = "Safe"
    /\ t.protocol > c.protocol => client_update(c, t) = "mandatory"
    /\ c = t => incompatibilities(c, t) = {} /\ restart_requirement(c, t) = 0 /\ client_update(c, t) = "none"
    /\ c.framework = t.framework /\ c.packages = t.packages => restart_requirement(c, t) = restart_requirement(t, c)

-----------------------------------------------------------------------------
(* The migration report.  A file is how often it makes each call, of one   *)
(* or two calls for every severity and flavor of the table. *)

CONSTANTS
    ScriptFiles,
    MaxUses             \* bound: occurrences of one call in one file

ASSUME MigrateAssumption == IsFiniteSet(ScriptFiles) /\ MaxUses \in Nat

VARIABLES
    scripts,            \* file -> how often it makes each call
    manifest,           \* the resource's own manifest, one of the other platform, or none
    unread,             \* files not scanned yet, in the order of the directory
    skipped,            \* files that could not be read
    findings,           \* file -> how many findings of each call
    flavors,            \* in the order of detection
    phase               \* of the scan

migrateVars == <<scripts, manifest, unread, skipped, findings, flavors, phase>>

Calls ==
    {"ESX.GetPlayerFromId", "ESX.GetPlayerFromIdentifier", "RegisterNetEvent", "QBCore.Functions.CreateBill", "Qbox.", "Citizen.Wait"}

Manifests == {"ald", "fx", "none"}

(* The severity of a needle of the table. *)
Severity_of(call) ==
    CASE call \in {"ESX.GetPlayerFromId", "ESX.GetPlayerFromIdentifier"} -> "Supported"
      [] call = "RegisterNetEvent" -> "Partial"
      [] call \in {"QBCore.Functions.CreateBill", "Qbox."} -> "Unsupported"
      [] call = "Citizen.Wait" -> "FivemOnly"

(* How often a needle is found: a call whose name begins with it counts as *)
(* well, so that one call may be found twice. *)
match_indices(uses, call) ==
    uses[call] + IF call = "ESX.GetPlayerFromId" THEN uses["ESX.GetPlayerFromIdentifier"] ELSE 0

(* The framework a file is written for: the first that shows. *)
detect_flavor(uses) ==
    IF uses["ESX.GetPlayerFromId"] > 0 \/ uses["ESX.GetPlayerFromIdentifier"] > 0 THEN {"esx"}
    ELSE IF uses["QBCore.Functions.CreateBill"] > 0 THEN {"qbcore"}
    ELSE IF uses["Qbox."] > 0 THEN {"qbox"} ELSE {}

NoCalls == [f \in ScriptFiles |-> [c \in Calls |-> 0]]

MigrateInit ==
    /\ scripts = NoCalls /\ manifest = "ald" /\ unread = {} /\ skipped = {}
    /\ findings = NoCalls /\ flavors = <<>> /\ phase = "idle"

(* collect_scripts: the files of the resource, whatever the directory      *)
(* lists first. *)
begin_scan(content, kind) ==
    /\ phase' = "scanning"
    /\ scripts' = content /\ manifest' = kind /\ unread' = ScriptFiles
    /\ UNCHANGED <<skipped, findings, flavors>>

(* A directory that cannot be listed ends the command. *)
cannot_scan ==
    /\ phase' = "failed"
    /\ UNCHANGED <<scripts, manifest, unread, skipped, findings, flavors>>

(* scan, one file: every occurrence of every needle, then its flavor if    *)
(* that is new. *)
scan_file(f) ==
    /\ phase = "scanning" /\ f \in unread
    /\ unread' = unread \ {f}
    /\ findings' = [findings EXCEPT ![f] = [c \in Calls |-> findings[f][c] + match_indices(scripts[f], c)]]
    /\ \/ \E x \in detect_flavor(scripts[f]) : x \notin ToSet(flavors) /\ flavors' = Append(flavors, x)
       \/ detect_flavor(scripts[f]) \subseteq ToSet(flavors) /\ UNCHANGED flavors
    /\ UNCHANGED <<scripts, manifest, skipped, phase>>

(* A file that cannot be read is passed over. *)
skip_file(f) ==
    /\ phase = "scanning" /\ f \in unread
    /\ unread' = unread \ {f} /\ skipped' = skipped \cup {f}
    /\ UNCHANGED <<scripts, manifest, findings, flavors, phase>>

(* The report is made. *)
finish_scan ==
    /\ phase = "scanning" /\ unread = {} /\ phase' = "done"
    /\ UNCHANGED <<scripts, manifest, unread, skipped, findings, flavors>>

(* Mutant: only what this platform lacks stands in the way. *)
Blocks_unsupported(severity) == severity = "Unsupported"

Blocks(severity) == severity \in {"Unsupported", "FivemOnly"}

(* A resource without a manifest is a finding of its own, which blocks. *)
manifest_findings == IF manifest = "ald" THEN 0 ELSE 1

(* How many findings are of these calls. *)
severity_count(calls) == SumOver(ScriptFiles, [f \in ScriptFiles |-> SumOver(calls, findings[f])])

Blocking == severity_count({c \in Calls : Blocks(Severity_of(c))}) + manifest_findings

Caveats == severity_count({c \in Calls : Severity_of(c) = "Partial"})

difficulty ==
    IF Blocking = 0 THEN IF Caveats = 0 THEN "Trivial" ELSE "Easy"
    ELSE IF Blocking <= 5 THEN "Moderate"
    ELSE IF Blocking <= 20 THEN "Hard" ELSE "VeryHard"

(* run: any finding that blocks. *)
exit_code ==
    IF phase = "failed" THEN 1 ELSE
    IF manifest_findings > 0
       \/ \E f \in ScriptFiles, c \in Calls :
             findings[f][c] > 0 /\ Severity_of(c) \in {"Unsupported", "FivemOnly"}
    THEN 2 ELSE 0

MigrateNext ==
    \/ phase = "idle" /\ cannot_scan
    \/ /\ phase = "idle"
       /\ \E content \in [ScriptFiles -> [Calls -> 0..MaxUses]], kind \in Manifests : begin_scan(content, kind)
    \/ \E f \in ScriptFiles : scan_file(f) \/ skip_file(f)
    \/ finish_scan

(* Whatever order the directory is read in, and whichever files cannot be  *)
(* read, the finished report has every call of every other file at least   *)
(* as often as the file makes it, and exactly so often if it is not        *)
(* supported as it is (calls that are may be found twice); their flavors   *)
(* are in it each once; and the command fails exactly for resources whose  *)
(* difficulty is more than easy. *)
ReportComplete ==
    phase = "done" =>
        LET read == ScriptFiles \ skipped IN
        /\ \A f \in ScriptFiles \ read : findings[f] = NoCalls[f]
        /\ \A f \in read, c \in Calls :
             findings[f][c] >= scripts[f][c] /\ (Severity_of(c) # "Supported" => findings[f][c] = scripts[f][c])
        /\ ToSet(flavors) = UNION {detect_flavor(scripts[f]) : f \in read} /\ IsInjective(flavors)
        /\ exit_code = 2 <=> difficulty \notin {"Trivial", "Easy"}

(* Versions that come and go: the launcher never moves back between        *)
(* readable versions, a restore is planned only of an archive that still   *)
(* holds what was saved, upgrade plans agree with the way back and with    *)
(* the next step, and the migration report is complete in any directory    *)
(* order. *)
ReleasesSound == UpdatesSafe /\ RestoresExact /\ PlansConsistent /\ ReportComplete
=============================================================================
