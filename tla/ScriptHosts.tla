---------------------------- MODULE ScriptHosts ----------------------------
(***************************************************************************)
(* The hosts resource scripts run in: the QuickJS runtime with its timers, *)
(* event handlers and wire queue (ald-script-js), Node-style module        *)
(* resolution and install planning (ald-script-node), native extensions    *)
(* (ald-native-extension) and the .NET assembly reader, load planner and   *)
(* tick pump (ald-script-dotnet).                                          *)
(***************************************************************************)
EXTENDS Integers, Sequences, FiniteSets, FiniteSetsExt, SequencesExt, Sums

CONSTANTS
    Delays,         \* milliseconds a script asks a timer for
    Elapsed,        \* how far one pump moves the virtual clock
    MaxTimers,      \* bound on timers ever set
    MaxHandlers,    \* bound on event handlers and events put on the wire
    MaxNesting,     \* bound on emits within handlers
    MaxClock,       \* bound on the virtual clock
    Levels,         \* node_modules directories on the way up, 1 the nearest
    MaxFrames,      \* call frames before the stack overflows
    NodePackages,   \* package names
    MaxExtSteps,    \* bound on what happens to an extension
    RowCounts,      \* how many rows a metadata table may have
    ShortIndexes,   \* how many values a short index column has
    Assemblies,     \* .NET assembly names
    TickInterval,   \* milliseconds between BaseScript ticks
    MaxTickTime     \* bound on the tick pump's clock

ASSUME ScriptsAssumption ==
    /\ Delays \subseteq Nat /\ Elapsed \subseteq Nat
    /\ IsFiniteSet(Levels) /\ Levels # {} /\ Levels = 1..Cardinality(Levels)
    /\ RowCounts \subseteq Nat /\ ShortIndexes \in Nat
    /\ IsFiniteSet(Assemblies) /\ Assemblies # {}
    /\ TickInterval \in Nat \ {0}

-----------------------------------------------------------------------------
(* The timers of one JavaScript runtime.  uid tells timers apart; scripts  *)
(* only see handles.  A callback may set and clear timers while the rest   *)
(* of its batch waits.                                                     *)

VARIABLES
    jsClock, timers,
    due,            \* callbacks collected by a pump and not yet run
    setAt,          \* history: for each timer ever set, what was asked
    runs,           \* history: how often each ran, counting no further than two
    strayClear      \* history: a clear has removed another timer than it named

jsVars == <<jsClock, timers, due, setAt, runs, strayClear>>

JsInit ==
    /\ jsClock = 0 /\ timers = <<>> /\ due = <<>>
    /\ setAt = <<>> /\ runs = <<>> /\ strayClear = FALSE

(* The handle handed to the script is the position in the registry.        *)
add_timer ==
    /\ Len(setAt) < MaxTimers
    /\ \E kind \in {"timeout", "interval"}, ms \in Delays :
           LET t == [uid |-> Len(setAt) + 1, kind |-> kind, due |-> jsClock + ms, period |-> ms]
           IN  /\ timers' = Append(timers, t)
               /\ setAt' = Append(setAt, [kind |-> kind, due |-> t.due, handle |-> Len(timers)])
    /\ runs' = Append(runs, 0)
    /\ UNCHANGED <<jsClock, due, strayClear>>

(* Clearing removes whatever is at that position now, if anything is.      *)
clear_timer ==
    /\ \E uid \in DOMAIN setAt :
           LET i == setAt[uid].handle + 1
           IN  /\ i \in DOMAIN timers
               /\ timers' = RemoveAt(timers, i)
               /\ strayClear' = (strayClear \/ timers[i].uid # uid)
    /\ UNCHANGED <<jsClock, due, setAt, runs>>

(* An interval that fires is due again one period after the clock as it is *)
(* now, not after its own due time.                                        *)
Rearmed_behind(t, clock) == [t EXCEPT !.due = @ + t.period]
Rearmed(t, clock) == [t EXCEPT !.due = clock + t.period]

tick_timers ==
    /\ due = <<>>
    /\ \E elapsed \in Elapsed :
         LET clock == jsClock + elapsed
             late == Selected(timers, {i \in DOMAIN timers : timers[i].due <= clock})
             kept == Selected(timers, {i \in DOMAIN timers : timers[i].due > clock \/ timers[i].kind = "interval"})
         IN  /\ clock <= MaxClock
             /\ jsClock' = clock
             /\ timers' = [i \in DOMAIN kept |->
                              IF kept[i].due > clock THEN kept[i] ELSE Rearmed(kept[i], clock)]
             /\ due' = [i \in DOMAIN late |-> late[i].uid]
    /\ UNCHANGED <<setAt, runs, strayClear>>

(* A callback that throws ends its batch: the rest of it never runs.       *)
run_timer ==
    /\ due # <<>>
    /\ runs' = [runs EXCEPT ![Head(due)] = Min({runs[Head(due)] + 1, 2})]
    /\ \E throws \in BOOLEAN : due' = IF throws THEN <<>> ELSE Tail(due)
    /\ UNCHANGED <<jsClock, timers, setAt, strayClear>>

JsNext == add_timer \/ clear_timer \/ tick_timers \/ run_timer

(* However timers are set, cleared and fired around each other, a timeout  *)
(* runs at most once and nothing runs before it is due; and what stays in  *)
(* the registry after a pump is not overdue.                               *)
TimersKeepTime ==
    /\ \A uid \in DOMAIN setAt :
           /\ setAt[uid].kind = "timeout" => runs[uid] <= 1
           /\ runs[uid] > 0 => setAt[uid].due <= jsClock
    /\ \A i \in DOMAIN timers : timers[i].due >= jsClock

(* "add_timer returns the registry id": clearing with the handle of a      *)
(* timer removes that timer or nothing.                                    *)
ClearsItsOwnTimer == ~strayClear

-----------------------------------------------------------------------------
(* The event bus of the same runtime.  A handler may register and emit     *)
(* while it runs; an emit runs a batch of its own inside the first.        *)

VARIABLES
    handlers, outgoing,
    batches,        \* handlers still to run, the innermost batch last
    heard,          \* history: for each running batch, what it has run
    delivered       \* history: events the host has drained

busVars == <<handlers, outgoing, batches, heard, delivered>>

BusInit == handlers = <<>> /\ outgoing = <<>> /\ batches = <<>> /\ heard = <<>> /\ delivered = <<>>

on_event ==
    /\ Len(handlers) < MaxHandlers
    /\ \E net \in BOOLEAN : handlers' = Append(handlers, [net |-> net])
    /\ UNCHANGED <<outgoing, batches, heard, delivered>>

(* The local handlers there are now; one that a handler adds has to wait.  *)
fire_local ==
    /\ Len(batches) < MaxNesting
    /\ LET local == Selected([i \in DOMAIN handlers |-> i], {i \in DOMAIN handlers : ~handlers[i].net})
       IN  batches' = Append(batches, [known |-> Len(handlers), todo |-> local])
    /\ heard' = Append(heard, <<>>)
    /\ UNCHANGED <<handlers, outgoing, delivered>>

(* A handler that throws ends its batch; the caller may catch it or not.   *)
run_handler ==
    /\ batches # <<>> /\ Last(batches).todo # <<>>
    /\ heard' = Append(Front(heard), Append(Last(heard), Head(Last(batches).todo)))
    /\ batches' = Append(Front(batches), [known |-> Last(batches).known, todo |-> Tail(Last(batches).todo)])
    /\ UNCHANGED <<handlers, outgoing, delivered>>

batch_ends ==
    /\ batches # <<>>
    /\ batches' = Front(batches) /\ heard' = Front(heard)
    /\ UNCHANGED <<handlers, outgoing, delivered>>

trigger_event ==
    /\ Len(outgoing) + Len(delivered) < MaxHandlers
    /\ outgoing' = Append(outgoing, Len(outgoing) + Len(delivered) + 1)
    /\ UNCHANGED <<handlers, batches, heard, delivered>>

drain_wire ==
    /\ delivered' = delivered \o outgoing /\ outgoing' = <<>>
    /\ UNCHANGED <<handlers, batches, heard>>

BusNext == on_event \/ fire_local \/ run_handler \/ batch_ends \/ trigger_event \/ drain_wire

(* A local event is heard by local handlers only, by those registered when *)
(* it was emitted, each once and in their order, whatever handlers do in   *)
(* between; and the host drains events in the order scripts sent them.     *)
EventsHeardInOrder ==
    /\ \A b \in DOMAIN batches :
           LET h == heard[b]
               before == {i \in 1..batches[b].known : ~handlers[i].net}
           IN  /\ ToSet(h) \subseteq before
               /\ \A i, j \in DOMAIN h : i < j => h[i] < h[j]
               /\ h # <<>> => \A i \in before : i < Last(h) => i \in ToSet(h)
    /\ delivered \o outgoing = [i \in 1..(Len(delivered) + Len(outgoing)) |-> i]

-----------------------------------------------------------------------------
(* require(): Node's module resolution.  Place n is the target of a bare   *)
(* specifier in the n-th node_modules directory on the way up; a place is  *)
(* a file (the exact name or one of the probed extensions), a directory    *)
(* with or without a package.json main and an index file, or nothing.      *)

VARIABLES
    places,         \* what each place holds
    level,          \* the directory the walk has come to
    loading,        \* load_as_file_or_dir calls under way, innermost last
    outcome         \* "none", "overflow", "missing" or what was found

resolveVars == <<places, level, loading, outcome>>

NoMain == 0
Place == [kind : {"nothing", "script", "json", "addon"}, main : {NoMain}, index : {FALSE}]
         \cup [kind : {"dir"}, main : Levels \cup {NoMain}, index : BOOLEAN]
Is_file(p) == places[p].kind \in {"script", "json", "addon"}
Outcome(what, at) == [what |-> what, at |-> at]

ResolveInit ==
    /\ places = [l \in Levels |-> [kind |-> "nothing", main |-> NoMain, index |-> FALSE]]
    /\ level = 0 /\ loading = <<>> /\ outcome = Outcome("none", 0)

(* External: the resource's files.                                         *)
place_files ==
    /\ level = 0
    /\ places' \in [Levels -> Place]
    /\ level' = 1 /\ loading' = <<1>>
    /\ UNCHANGED outcome

(* A file, or else the package's main, or else an index.  A main is loaded *)
(* by a call of its own; frames run out at MaxFrames.                      *)
load_as_file_or_dir ==
    /\ loading # <<>> /\ outcome.what = "none"
    /\ LET p == Last(loading)
           dir == places[p].kind = "dir"
       IN  \/ /\ Is_file(p) \/ (dir /\ places[p].main = NoMain /\ places[p].index)
              /\ outcome' = Outcome("found", p)
              /\ UNCHANGED loading
           \/ /\ dir /\ places[p].main # NoMain
              /\ IF Len(loading) = MaxFrames
                 THEN outcome' = Outcome("overflow", p) /\ UNCHANGED loading
                 ELSE loading' = Append(loading, places[p].main) /\ UNCHANGED outcome
    /\ UNCHANGED <<places, level>>

(* The innermost call found nothing: its callers fall through to their own *)
(* index file, and the walk goes up when none has one.                     *)
walk_up ==
    /\ loading # <<>> /\ outcome.what = "none"
    /\ LET p == Last(loading)
           callers == {i \in 1..(Len(loading) - 1) : places[loading[i]].index}
       IN  /\ ~Is_file(p)
           /\ ~(places[p].kind = "dir" /\ (places[p].main # NoMain \/ places[p].index))
           /\ IF callers # {}
              THEN outcome' = Outcome("found", loading[Max(callers)]) /\ UNCHANGED <<level, loading>>
              ELSE IF level = Cardinality(Levels)
              THEN outcome' = Outcome("missing", 0) /\ loading' = <<>> /\ UNCHANGED level
              ELSE level' = level + 1 /\ loading' = <<level + 1>> /\ UNCHANGED outcome
    /\ UNCHANGED places

ResolveNext == place_files \/ load_as_file_or_dir \/ walk_up

(* Node finds something from a place: no set of places that holds it and   *)
(* that no main leads out of is without anything to load.                  *)
Found_from(p) ==
    LET hop(q) == IF places[q].kind = "dir" /\ places[q].main # NoMain THEN places[q].main ELSE q
    IN  \A S \in SUBSET Levels :
            p \in S /\ (\A q \in S : hop(q) \in S) => \E q \in S : Is_file(q) \/ places[q].index

(* What require() returns comes from the nearest directory that has        *)
(* anything to load, and it reports a module missing only when none has.   *)
NearestModule ==
    /\ outcome.what = "found" => Found_from(level)
    /\ outcome.what \in {"found", "missing"} =>
           \A l \in Levels : l < level => ~Found_from(l)
    /\ outcome.what = "missing" => ~\E l \in Levels : Found_from(l)

(* "main present but unresolvable: fall through to index": a main that     *)
(* leads back to its own directory is unresolvable too.                    *)
MainFallsThrough == outcome.what # "overflow"

-----------------------------------------------------------------------------
(* Planning a resource's Node packages against the lock.  Versions are     *)
(* numbers and a range is the least version it accepts.                    *)

VARIABLES wanted, optional, locked

installVars == <<wanted, optional, locked>>

Node_versions == 1..2
Partial(S, T) == UNION {[D -> T] : D \in SUBSET S}

InstallInit == wanted = <<>> /\ optional = <<>> /\ locked = <<>>

edit_package_json ==
    /\ wanted' \in Partial(NodePackages, Node_versions)
    /\ optional' \in Partial(NodePackages, Node_versions)
    /\ UNCHANGED locked

(* External: a lock file is written elsewhere, or goes stale.              *)
write_lock ==
    /\ locked' \in Partial(NodePackages, Node_versions)
    /\ UNCHANGED <<wanted, optional>>

(* A required range wins over an optional one of the same name.            *)
all_runtime_deps ==
    [n \in DOMAIN wanted \cup DOMAIN optional |->
        IF n \in DOMAIN wanted THEN wanted[n] ELSE optional[n]]

(* A locked version that does not fit the range is never replaced by       *)
(* another: the range is reported.                                         *)
plan_dependencies ==
    LET fits == {n \in DOMAIN all_runtime_deps \cap DOMAIN locked :
                    locked[n] >= all_runtime_deps[n]}
    IN  [install_order |-> fits, unsatisfied |-> DOMAIN all_runtime_deps \ fits]

(* What a package brings along, and what a host allows.  A cpu name that   *)
(* package.json declares has to be part of the host's target triple;       *)
(* declaring none means any.                                               *)
Cpus == {"x86_64", "arm64"}
Package == [scripts : BOOLEAN, addons : BOOLEAN, cpu : SUBSET Cpus]
InstallPolicy == [scripts : BOOLEAN, addons : BOOLEAN, host_target : Cpus \cup {"unknown"}]

evaluate_install_listed(pkg, host) ==
    IF ~host.scripts /\ pkg.scripts THEN "InstallScriptDisabled"
    ELSE IF pkg.addons /\ host.host_target \notin pkg.cpu THEN "NativeAddonArchMismatch"
    ELSE IF pkg.addons /\ ~host.addons THEN "NativeAddonBlocked"
    ELSE "ok"

evaluate_install(pkg, host) ==
    IF ~host.scripts /\ pkg.scripts THEN "InstallScriptDisabled"
    ELSE IF pkg.addons /\ ~host.addons THEN "NativeAddonBlocked"
    ELSE IF pkg.addons /\ pkg.cpu # {} /\ host.host_target \notin pkg.cpu THEN "NativeAddonArchMismatch"
    ELSE "ok"

InstallNext == edit_package_json \/ write_lock

(* However package.json and the lock have drifted apart, a plan that       *)
(* reports nothing unsatisfied gives every dependency, required or         *)
(* optional, a version that every required range accepts; and an optional  *)
(* range gives way only to a required one.                                 *)
PlanAcceptable ==
    plan_dependencies.unsatisfied = {} =>
        \A n \in DOMAIN wanted \cup DOMAIN optional :
            /\ n \in plan_dependencies.install_order
            /\ n \in DOMAIN wanted => locked[n] >= wanted[n]
            /\ n \notin DOMAIN wanted => locked[n] >= optional[n]

(* The gates only ever open: what a host lets in, a host with the same     *)
(* target that allows more lets in too; a host that allows nothing lets in *)
(* exactly the packages with neither scripts nor addons; and leaving out   *)
(* the cpu list never makes a package less welcome.                        *)
PoliciesOrdered ==
    \A pkg \in Package, p, q \in InstallPolicy :
        /\ evaluate_install(pkg, p) = "ok" /\ p.host_target = q.host_target
           /\ (p.scripts => q.scripts) /\ (p.addons => q.addons) => evaluate_install(pkg, q) = "ok"
        /\ ~p.scripts /\ ~p.addons =>
              (evaluate_install(pkg, p) = "ok" <=> ~pkg.scripts /\ ~pkg.addons)
        /\ evaluate_install(pkg, p) = "ok" => evaluate_install([pkg EXCEPT !.cpu = {}], p) = "ok"

-----------------------------------------------------------------------------
(* Native extensions: authorised against a policy, loaded later.           *)

VARIABLES
    extension,      \* the manifest and the signature in it
    library,        \* the bytes in the extension directory
    policy, authorized, loadedExt, quarantined, extSteps

extensionVars == <<extension, library, policy, authorized, loadedExt, quarantined, extSteps>>

NoSignature == [by |-> "none", algorithm |-> "none", over |-> "none"]
NotAuthorized == [caps |-> {}, lib |-> "none", sig |-> NoSignature, under |-> "none"]
KNOWN_CAPABILITIES == {"fs.read", "db.query"}
Requested == {"fs.read", "fs.raed"}

(* What validate_shape and the range of requires_runtime come to is part   *)
(* of the manifest; a signature covers all of it but the library's name.   *)
Manifest == [shape : {"ok", "Malformed", "UnsafeLibraryPath"}, abi : {1, 2},
             runtime : {"fits", "RuntimeMismatch", "Malformed"}, caps : SUBSET Requested]
canonical_extension_bytes(m, lib) == [abi |-> m.abi, runtime |-> m.runtime, caps |-> m.caps, lib |-> lib]

ExtensionInit ==
    /\ extension = [manifest |-> [shape |-> "ok", abi |-> 1, runtime |-> "fits", caps |-> {}],
                    sig |-> NoSignature]
    /\ library = "good"
    /\ policy = [allow_unsigned |-> FALSE, trusted |-> {}, allowed |-> {}]
    /\ authorized = NotAuthorized /\ loadedExt = NotAuthorized /\ quarantined = FALSE
    /\ extSteps = 0

Ext_step == extSteps < MaxExtSteps /\ extSteps' = extSteps + 1

(* The publisher signs the manifest with the library's hash, or nobody     *)
(* does, before anything else happens to it; at most one of the manifest's *)
(* checks is made to fail.                                                 *)
describe_extension ==
    /\ Ext_step /\ extSteps = 0
    /\ \E m \in Manifest, by \in {"none", "ann", "eve"}, algorithm \in {"ed25519", "other"} :
           /\ Cardinality({i \in 1..3 : <<m.shape # "ok", m.abi # 1, m.runtime # "fits">>[i]}) <= 1
           /\ extension' = [manifest |-> m,
                 sig |-> IF by = "none" THEN NoSignature
                         ELSE [by |-> by, algorithm |-> algorithm, over |-> canonical_extension_bytes(m, library)]]
    /\ UNCHANGED <<library, policy, authorized, loadedExt, quarantined>>

(* External: a signed manifest is edited, or another build of the library  *)
(* is put in the directory.                                                *)
edit_manifest ==
    /\ Ext_step
    /\ \E caps \in SUBSET Requested : extension' = [extension EXCEPT !.manifest = [@ EXCEPT !.caps = caps]]
    /\ UNCHANGED <<library, policy, authorized, loadedExt, quarantined>>

replace_library ==
    /\ Ext_step
    /\ \E l \in {"good", "other", "broken"} : library' = l
    /\ UNCHANGED <<extension, policy, authorized, loadedExt, quarantined>>

set_policy ==
    /\ Ext_step
    /\ \E un \in BOOLEAN, keys \in SUBSET {"ann"}, caps \in {{}, {"fs.read"}, KNOWN_CAPABILITIES} :
           policy' = [allow_unsigned |-> un, trusted |-> keys, allowed |-> caps]
    /\ UNCHANGED <<extension, library, authorized, loadedExt, quarantined>>

(* Keys and signatures that are not hex of the right length are Malformed  *)
(* too and stand under the algorithm.                                      *)
verify_extension_signature ==
    IF extension.sig.by = "none" THEN IF policy.allow_unsigned THEN "ok" ELSE "Unsigned"
    ELSE IF extension.sig.algorithm # "ed25519" THEN "Malformed"
    ELSE IF extension.sig.by \notin policy.trusted THEN "UntrustedKey"
    ELSE IF extension.sig.over # canonical_extension_bytes(extension.manifest, library) THEN "BadSignature"
    ELSE "ok"

(* The errors authorize may end with, the first that applies by stage; the *)
(* order among capabilities is the manifest's.  The caller says which hash *)
(* it expects the library to have.                                         *)
authorize_errors(expected) ==
    LET m == extension.manifest
    IN  IF m.shape # "ok" THEN {m.shape}
        ELSE IF m.abi # 1 THEN {"AbiMismatch"}
        ELSE IF m.runtime # "fits" THEN {m.runtime}
        ELSE IF library # expected THEN {"HashMismatch"}
        ELSE IF verify_extension_signature # "ok" THEN {verify_extension_signature}
        ELSE {IF c \in KNOWN_CAPABILITIES THEN "CapabilityDenied" ELSE "UnknownCapability" :
                 c \in m.caps \ (KNOWN_CAPABILITIES \cap policy.allowed)}

quarantines(e) ==
    e \in {"BadSignature", "UntrustedKey", "Unsigned", "HashMismatch", "CapabilityDenied", "UnknownCapability"}

authorize(expected) ==
    /\ Ext_step
    /\ IF authorize_errors(expected) = {}
       THEN /\ authorized' = [caps |-> extension.manifest.caps, lib |-> library,
                              sig |-> extension.sig, under |-> policy]
            /\ UNCHANGED quarantined
       ELSE /\ authorized' = NotAuthorized
            /\ \E e \in authorize_errors(expected) : quarantined' = (quarantined \/ quarantines(e))
    /\ UNCHANGED <<extension, library, policy, loadedExt>>

(* Loading opens whatever library is in the directory by then, and fails   *)
(* when it does not open or its init reports an error.  The library's name *)
(* is bare in whatever was authorised.                                     *)
load_extension ==
    /\ Ext_step
    /\ authorized # NotAuthorized
    /\ library # "broken"
    /\ loadedExt' = [authorized EXCEPT !.lib = library]
    /\ UNCHANGED <<extension, library, policy, authorized, quarantined>>

ExtensionNext ==
    \/ describe_extension \/ edit_manifest \/ replace_library \/ set_policy
    \/ \E expected \in {"good", "other"} : authorize(expected)
    \/ load_extension

(* Whatever manifest, library and policy become before, between and after  *)
(* authorisation and loading: what is authorised was signed as it is, its  *)
(* capabilities and its library, by a key the policy of the time trusted,  *)
(* or let in unsigned by that policy; and what is loaded has only          *)
(* capabilities that were signed for, that the host knows and that the     *)
(* policy granted.                                                         *)
Signed_for(a) ==
    IF a.sig.by = "none" THEN a.under.allow_unsigned
    ELSE a.sig.by \in a.under.trusted /\ a.caps = a.sig.over.caps /\ a.sig.over.abi = 1

ExtensionWithinGrant ==
    /\ authorized # NotAuthorized =>
           /\ Signed_for(authorized)
           /\ authorized.sig.by # "none" => authorized.lib = authorized.sig.over.lib
    /\ loadedExt # NotAuthorized =>
           /\ Signed_for(loadedExt)
           /\ loadedExt.caps \subseteq KNOWN_CAPABILITIES \cap loadedExt.under.allowed

-----------------------------------------------------------------------------
(* Planning the load of .NET assemblies: a depth-first walk over the       *)
(* references, one visit at a time.                                        *)

VARIABLES
    references,     \* assembly -> the assemblies it refers to, in order
    outdated,       \* references, as pairs, that ask for a newer version than is there
    untrusted,      \* references with a public key token that the host does not trust
    visiting,       \* the walk's stack: name and references still to follow
    planned,        \* load order so far
    loadError

loadVars == <<references, outdated, untrusted, visiting, planned, loadError>>

LoadInit ==
    /\ references = <<>> /\ outdated = {} /\ untrusted = {} /\ visiting = <<>> /\ planned = <<>>
    /\ loadError = "none"

Root == CHOOSE a \in Assemblies : TRUE
Visit(a) == [name |-> a, todo |-> references'[a]]

(* External: the assemblies found on disk; one outside the set is missing. *)
begin_plan ==
    /\ references = <<>> /\ loadError = "none"
    /\ \E D \in SUBSET Assemblies :
           /\ Root \in D
           /\ \E refs \in [D -> SUBSET Assemblies] :
                  references' = [a \in D |-> SetToSeq(refs[a])]
    /\ \E from, to \in Assemblies :
           outdated' \in {{}, {<<from, to>>}} /\ untrusted' \in {{}, {<<from, to>>}}
    /\ visiting' = <<Visit(Root)>>
    /\ UNCHANGED <<planned, loadError>>

root_missing ==
    /\ references = <<>> /\ loadError' = "MissingDependency"
    /\ UNCHANGED <<references, outdated, untrusted, visiting, planned>>

(* One reference: it must be there, new enough, trusted if it carries a    *)
(* token, and not on the stack.                                            *)
follow_reference ==
    /\ visiting # <<>> /\ loadError = "none" /\ Last(visiting).todo # <<>>
    /\ LET r == Head(Last(visiting).todo)
           edge == <<Last(visiting).name, r>>
           rest == Append(Front(visiting), [name |-> Last(visiting).name, todo |-> Tail(Last(visiting).todo)])
           error == IF r \notin DOMAIN references THEN "MissingDependency"
                    ELSE IF edge \in outdated THEN "VersionDowngrade"
                    ELSE IF edge \in untrusted THEN "Untrusted"
                    ELSE IF \E i \in DOMAIN visiting : visiting[i].name = r THEN "Cycle"
                    ELSE "none"
       IN  /\ loadError' = error
           /\ visiting' = IF error # "none" THEN visiting
                          ELSE IF r \in ToSet(planned) THEN rest
                          ELSE Append(rest, [name |-> r, todo |-> references[r]])
    /\ UNCHANGED <<references, outdated, untrusted, planned>>

finish_assembly ==
    /\ visiting # <<>> /\ loadError = "none" /\ Last(visiting).todo = <<>>
    /\ planned' = Append(planned, Last(visiting).name)
    /\ visiting' = Front(visiting)
    /\ UNCHANGED <<references, outdated, untrusted, loadError>>

LoadNext == begin_plan \/ root_missing \/ follow_reference \/ finish_assembly

(* A plan loads every assembly once and after everything it refers to,     *)
(* ending with the root; it rests on no reference that is outdated or      *)
(* untrusted, by whichever path an assembly was reached; and a walk that   *)
(* ends in a cycle error has a cycle to show.                              *)
LoadOrderSound ==
    /\ \A i \in DOMAIN planned :
           /\ \A j \in DOMAIN planned : planned[i] = planned[j] => i = j
           /\ \A r \in ToSet(references[planned[i]]) :
                  /\ \E j \in 1..(i - 1) : planned[j] = r
                  /\ <<planned[i], r>> \notin outdated \cup untrusted
    /\ references # <<>> /\ visiting = <<>> => Last(planned) = Root
    /\ loadError = "Cycle" =>
           \E i \in DOMAIN visiting :
               visiting[i].name \in ToSet(references[Last(visiting).name])

-----------------------------------------------------------------------------
(* The BaseScript tick pump.                                               *)

VARIABLES tickClock, nextTick, ticksFired

tickVars == <<tickClock, nextTick, ticksFired>>

TickInit == tickClock = 0 /\ nextTick = 0 /\ ticksFired = 0

(* Every boundary up to the clock once, the one at zero at the first call. *)
Boundaries(clock) == IF clock >= nextTick THEN (clock - nextTick) \div TickInterval + 1 ELSE 0

advance_ticks ==
    /\ \E ms \in 0..(2 * TickInterval + 1) :
         LET n == Boundaries(tickClock + ms)
         IN  /\ tickClock + ms <= MaxTickTime
             /\ tickClock' = tickClock + ms
             /\ nextTick' = nextTick + n * TickInterval
             /\ ticksFired' = ticksFired + n

(* "each 30 ms boundary once": however the clock is advanced, as many      *)
(* ticks have fired as there are boundaries up to it.                      *)
EveryBoundaryOnce ==
    \/ tickClock = 0 /\ ticksFired \in {0, 1}
    \/ ticksFired = tickClock \div TickInterval + 1

-----------------------------------------------------------------------------
(* Reading a managed assembly.  Its tables follow one another in the file; *)
(* a column that refers to a row is short when every row it can name fits. *)
(* A short index, which in the file takes two bytes, has ShortIndexes      *)
(* values.                                                                 *)

VARIABLES
    rows,           \* metadata table -> number of rows
    strings_big, blob_big,  \* string and blob indexes are long
    fileSize,
    offsets,        \* where each table walked so far starts
    walk            \* "none", "reading", "done" or the error

imageVars == <<rows, strings_big, blob_big, fileSize, offsets, walk>>

(* Ten of the tables, in the order of their numbers, which is the file's.  *)
Tables == <<"TypeRef", "TypeDef", "Field", "MethodDef", "Param", "MemberRef", "ModuleRef", "TypeSpec",
            "ImplMap", "AssemblyRef">>

ImageInit ==
    /\ rows = [t \in ToSet(Tables) |-> 0] /\ strings_big = FALSE /\ blob_big = FALSE
    /\ fileSize = 0 /\ offsets = <<>> /\ walk = "none"

str_idx == IF strings_big THEN 4 ELSE 2
blob_idx == IF blob_big THEN 4 ELSE 2

(* A coded index spends its low bits on which of so many tables it means;  *)
(* one that can only mean one table spends none.                           *)
coded_untagged(tags, tables) == IF \A t \in tables : rows[t] < ShortIndexes THEN 2 ELSE 4
coded(tags, tables) == IF \A t \in tables : rows[t] < ShortIndexes \div tags THEN 2 ELSE 4
simple(t) == IF rows[t] >= ShortIndexes THEN 4 ELSE 2

(* Which tables the coded columns may name.  The Module table, which the   *)
(* code passes over when it looks for the longest, is not among these.     *)
ResolutionScope == {"ModuleRef", "AssemblyRef", "TypeRef"}
TypeDefOrRef == {"TypeDef", "TypeRef", "TypeSpec"}
MemberRefParent == {"TypeDef", "TypeRef", "ModuleRef", "MethodDef", "TypeSpec"}
MemberForwarded == {"Field", "MethodDef"}

row_size(t) ==
    CASE t = "TypeRef" -> coded(4, ResolutionScope) + 2 * str_idx
      [] t = "TypeDef" -> 4 + 2 * str_idx + coded(4, TypeDefOrRef) + simple("Field") + simple("MethodDef")
      [] t = "Field" -> 2 + str_idx + blob_idx
      [] t = "MethodDef" -> 8 + str_idx + blob_idx + simple("Param")
      [] t = "Param" -> 4 + str_idx
      [] t = "MemberRef" -> coded(8, MemberRefParent) + str_idx + blob_idx
      [] t = "ModuleRef" -> str_idx
      [] t = "TypeSpec" -> blob_idx
      [] t = "ImplMap" -> 2 + coded(2, MemberForwarded) + str_idx + simple("ModuleRef")
      [] t = "AssemblyRef" -> 12 + 2 * blob_idx + 2 * str_idx

(* External: some file; its header says how many rows each table has.      *)
read_tables_header ==
    /\ walk = "none"
    /\ \E few, many \in RowCounts, odd \in ToSet(Tables) :
           rows' = [t \in ToSet(Tables) |-> IF t = odd THEN many ELSE few]
    /\ strings_big' \in BOOLEAN /\ blob_big' \in BOOLEAN
    /\ fileSize' \in {100, 4000}
    /\ walk' = "reading"
    /\ UNCHANGED offsets

(* The row counts of the tables come first, four bytes each.               *)
Table_start(n) ==
    IF n = 1 THEN 24 + 4 * Len(Tables)
    ELSE offsets[n - 1] + row_size(Tables[n - 1]) * rows[Tables[n - 1]]

walk_table ==
    /\ walk = "reading" /\ Len(offsets) < Len(Tables)
    /\ LET n == Len(offsets) + 1
           start == Table_start(n)
           end == start + row_size(Tables[n]) * rows[Tables[n]]
       IN  /\ offsets' = Append(offsets, start)
           /\ walk' = IF end > fileSize THEN "Malformed"
                      ELSE IF n = Len(Tables) THEN "done" ELSE "reading"
    /\ UNCHANGED <<rows, strings_big, blob_big, fileSize>>

ImageNext == read_tables_header \/ walk_table

(* A column for rows of these tables that the file keeps in two bytes can  *)
(* hold the number of the last row of each, tag bits included.             *)
Fits_column(tags, tables) ==
    coded(tags, tables) = 2 => \A t \in tables : rows[t] * tags + (tags - 1) < ShortIndexes

(* In an image read to its end every table lies in the file, after the one *)
(* before it, and every column that names rows is wide enough for the last *)
(* row of each table it may name.                                          *)
LayoutSound ==
    walk = "done" =>
        /\ \A n \in DOMAIN Tables :
               /\ offsets[n] + row_size(Tables[n]) * rows[Tables[n]] <= fileSize
               /\ n > 1 => offsets[n] >= offsets[n - 1] + row_size(Tables[n - 1]) * rows[Tables[n - 1]]
        /\ Fits_column(4, ResolutionScope) /\ Fits_column(4, TypeDefOrRef)
        /\ Fits_column(8, MemberRefParent) /\ Fits_column(2, MemberForwarded)
        /\ \A t \in {"Field", "MethodDef", "Param", "ModuleRef"} : simple(t) = 2 => rows[t] < ShortIndexes

-----------------------------------------------------------------------------
(* Accepting an assembly as a resource, from what its rows say.            *)

VARIABLES image, clrPolicy, analysis

analysisVars == <<image, clrPolicy, analysis>>

CITIZENFX_ASSEMBLY == "CitizenFX.Core"
Nothing == [tag |-> 0, row |-> 0]
Type(name, extends) == [name |-> name, extends |-> extends]
EmptyImage == [identity |-> "none", refs |-> {}, types |-> <<>>, typeRefs |-> <<>>,
               moduleRefs |-> <<>>, imports |-> {}]

AnalysisInit ==
    /\ image = EmptyImage
    /\ clrPolicy = [flavor |-> "CoreClr", native |-> FALSE, unsigned |-> FALSE]
    /\ analysis = "none"

(* "System.Runtime" stands for System.Private.CoreLib too, and "mono" for  *)
(* Mono.Posix.                                                             *)
target_framework(img) ==
    IF "System.Runtime" \in img.refs THEN "CoreClr"
    ELSE IF "mscorlib" \in img.refs THEN "NetFramework"
    ELSE IF "mono" \in img.refs THEN "Mono" ELSE "Unknown"

accepts(flavor, target) ==
    IF flavor = "Mono" THEN target \in {"NetFramework", "Mono"} ELSE target = "CoreClr"

(* A coded index names a row, counted from 1, of the table its tag means:  *)
(* the image's own types, those it refers to, or a type specification,     *)
(* which has no name.  Row 0 and rows past the end name nothing.           *)
typedef_or_ref_name_zero(img, e) ==
    IF e.tag = 0 /\ e.row + 1 \in DOMAIN img.types THEN img.types[e.row + 1].name
    ELSE IF e.tag = 1 /\ e.row + 1 \in DOMAIN img.typeRefs THEN img.typeRefs[e.row + 1]
    ELSE "none"

typedef_or_ref_name(img, e) ==
    IF e.tag = 0 /\ e.row \in DOMAIN img.types THEN img.types[e.row].name
    ELSE IF e.tag = 1 /\ e.row \in DOMAIN img.typeRefs THEN img.typeRefs[e.row]
    ELSE "none"

(* The simple name decides, so a wrapper of that name in the resource      *)
(* itself will do.                                                         *)
extends_base_script(img, t) == typedef_or_ref_name(img, img.types[t].extends) = "BaseScript"

(* Imports whose scope names a module row with a readable name.            *)
pinvokes(img) == {i \in img.imports : i \in DOMAIN img.moduleRefs /\ img.moduleRefs[i] # ""}

(* External: an assembly and the host it meets.  Its own types are the     *)
(* module's, one that refers to nothing and one that extends something.    *)
present_assembly ==
    /\ analysis = "none"
    /\ \E corlib \in {{}, {"System.Runtime"}, {"mscorlib"}, {"mono"}, {"System.Runtime", "mscorlib"}},
          core \in {{}, {CITIZENFX_ASSEMBLY}}, id \in {"none", "unsigned", "signed"},
          own \in {"Helper", "BaseScript"}, ext \in [tag : {0, 1, 2}, row : 0..3],
          typeRefs \in {<<"Other">>, <<"Other", "BaseScript">>},
          modules \in {<<"">>, <<"user32">>}, scope \in {0, 1} :
             image' = [identity |-> id, refs |-> corlib \cup core,
                       types |-> <<Type("<Module>", Nothing), Type(own, Nothing), Type("Script", ext)>>,
                       typeRefs |-> typeRefs, moduleRefs |-> modules, imports |-> {scope}]
    /\ clrPolicy' \in [flavor : {"Mono", "CoreClr"}, native : BOOLEAN, unsigned : BOOLEAN]
    /\ analysis' = "read"

analyze_resource ==
    /\ analysis = "read"
    /\ analysis' =
         IF image.identity = "none" THEN "NotResource"
         ELSE IF ~accepts(clrPolicy.flavor, target_framework(image)) THEN "BclMismatch"
         ELSE IF CITIZENFX_ASSEMBLY \notin image.refs THEN "NotResource"
         ELSE IF ~\E t \in DOMAIN image.types : extends_base_script(image, t) THEN "NotResource"
         ELSE IF image.identity = "unsigned" /\ ~clrPolicy.unsigned THEN "Unsigned"
         ELSE IF pinvokes(image) # {} /\ ~clrPolicy.native THEN "NativeCall"
         ELSE "accepted"
    /\ UNCHANGED <<image, clrPolicy>>

AnalysisNext == present_assembly \/ analyze_resource

(* No assembly is accepted on both kinds of host; an accepted one has a    *)
(* type whose base is a row that exists, in the table its tag means, and   *)
(* is called BaseScript; and no import that names a module gets past a     *)
(* host without native calls.                                              *)
AcceptedRunsHere ==
    analysis = "accepted" =>
        /\ \E t \in DOMAIN image.types :
               LET e == image.types[t].extends
               IN  \/ e.tag = 0 /\ e.row \in DOMAIN image.types /\ image.types[e.row].name = "BaseScript"
                   \/ e.tag = 1 /\ e.row \in DOMAIN image.typeRefs /\ image.typeRefs[e.row] = "BaseScript"
        /\ \A other \in {"Mono", "CoreClr"} \ {clrPolicy.flavor} :
               ~accepts(other, target_framework(image))
        /\ clrPolicy.native \/ \A i \in image.imports \cap DOMAIN image.moduleRefs : image.moduleRefs[i] = ""

(* The script hosts: timers and events keep their order though callbacks   *)
(* change them, require() finds the nearest module, an install plan        *)
(* satisfies what it does not report and a laxer host refuses no more, an  *)
(* extension stays within its grant, assemblies load after what they refer *)
(* to, ticks fire once per boundary, and the metadata reader's columns     *)
(* fit.                                                                    *)
ScriptsSound ==
    /\ TimersKeepTime /\ EventsHeardInOrder /\ NearestModule
    /\ PlanAcceptable /\ PoliciesOrdered
    /\ ExtensionWithinGrant /\ LoadOrderSound /\ EveryBoundaryOnce
    /\ LayoutSound /\ AcceptedRunsHere

=============================================================================
