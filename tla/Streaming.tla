------------------------------ MODULE Streaming ------------------------------
(***************************************************************************)
(* The streaming engine: one asset's way through download, cache, mount    *)
(* pipeline and residency, driven by a caller that may call its operations *)
(* in any order.  A download is "partial", or complete with the bytes of   *)
(* its hash ("good") or with others ("bad"); how it gets there is the      *)
(* subject of Download, the cache that of ContentCache.                    *)
(***************************************************************************)
EXTENDS Residency

CONSTANTS
    Deps(_),        \* the datafiles an asset depends on
    Datafiles,      \* names a datafile can have
    IdleLimit      \* the watchdog's limit

ASSUME StreamingAssumption ==
    /\ IdleLimit \in Nat \ {0}
    /\ \A a \in Assets : Deps(a) \subseteq Datafiles

VARIABLES
    download,       \* asset -> "none" (not added), "partial", "good", "bad"
    idle,           \* asset -> ticks without progress, up to IdleLimit + 1
    cached,         \* assets whose download was committed
    object,         \* asset -> the cache's object of its hash
    mount,          \* asset -> its mount state
    registry        \* datafiles registered

streamVars == <<download, idle, cached, object, mount, registry, residency>>

StreamingInit ==
    /\ ResidencyInit
    /\ download = [a \in Assets |-> "none"] /\ idle = [a \in Assets |-> 0]
    /\ cached = {} /\ object = [a \in Assets |-> "absent"]
    /\ mount = [a \in Assets |-> "none"] /\ registry = {}

Added(a) == download[a] # "none"

add_asset(a) ==
    /\ ~Added(a)
    /\ download' = [download EXCEPT ![a] = "partial"]
    /\ mount' = [mount EXCEPT ![a] = "Queued"]
    /\ UNCHANGED <<idle, cached, object, registry, residencyVars>>

(* A complete download refuses further bytes. *)
CanTakeBytes(a) == download[a] = "partial"

(* receive_chunk: bytes land, and may complete the file well or badly. *)
receive_chunk(a, outcome) ==
    /\ Added(a) /\ CanTakeBytes(a)
    /\ download' = [download EXCEPT ![a] = outcome]
    /\ idle' = [idle EXCEPT ![a] = 0]
    /\ UNCHANGED <<cached, object, mount, registry, residencyVars>>

(* finalize_download: bad bytes are refused and their temp file removed;   *)
(* an object already there that is corrupt is deleted, with an error. *)
finalize_download(a) ==
    /\ download[a] = "good"
    /\ object' = [object EXCEPT ![a] = IF @ = "corrupt" THEN "absent" ELSE "good"]
    /\ cached' = IF object[a] = "corrupt" THEN cached ELSE cached \cup {a}
    /\ UNCHANGED <<download, idle, mount, registry, residencyVars>>

(* Every mount operation checks that the asset is in the state before it. *)
MountStep(a, from, to) ==
    /\ mount[a] = from
    /\ mount' = [mount EXCEPT ![a] = to]
    /\ UNCHANGED <<download, idle, cached, object, registry, residencyVars>>

(* begin_verify and finish_verify with the cache's verdict. *)
mount_verify(a) ==
    MountStep(a, "Queued", IF object[a] = "good" THEN "Verified" ELSE "FailedRetryable")

(* Mutant: a dependency that is known passes the gate, registered or not. *)
Resolved_known(a) == Deps(a) \subseteq Datafiles

Resolved(a) == Deps(a) \subseteq registry

mount_check_deps(a) ==
    MountStep(a, "Verified", IF Resolved(a) THEN "DependenciesReady" ELSE "FailedRetryable")

mount_begin(a) == MountStep(a, "DependenciesReady", "MountPending")

complete_mount(a) == MountStep(a, "MountPending", "Mounted")

mount_register(a) == MountStep(a, "Mounted", "Registered")

(* datafiles_mut().register: the registry only grows. *)
register_datafile(d) ==
    /\ d \notin registry
    /\ registry' = registry \cup {d}
    /\ UNCHANGED <<download, idle, cached, object, mount, residencyVars>>

(* Residency operations reach the tracker unconditionally. *)
residency_request(a) ==
    /\ \E c \in CommitOutcome : request(a, c)
    /\ UNCHANGED <<download, idle, cached, object, mount, registry>>

residency_poll(a) ==
    /\ poll(a)
    /\ UNCHANGED <<download, idle, cached, object, mount, registry>>

(* The clock of downloads and requests moves. *)
StreamTick ==
    /\ idle' = [a \in Assets |-> IF download[a] = "partial" THEN Min({idle[a] + 1, IdleLimit + 1}) ELSE idle[a]]
    /\ residency' = [a \in Assets |-> [residency[a] EXCEPT !.left = Max({@ - 1, 0})]]
    /\ UNCHANGED <<download, cached, object, mount, registry>>

(* The cache changes by itself: the disk damages an object, or the quota   *)
(* evicts it. *)
cache_loses(a, to) ==
    /\ object[a] = "good"
    /\ object' = [object EXCEPT ![a] = to]
    /\ UNCHANGED <<download, idle, cached, mount, registry, residencyVars>>

-----------------------------------------------------------------------------
(* Mutant: the mount state decides first. *)
asset_state_mount_first(a) ==
    IF mount[a] = "FailedRetryable" THEN "Failed"
    ELSE IF residency[a].state = "Ready" THEN "Ready"
    ELSE IF Tracked(a) THEN "Residency"
    ELSE IF download[a] = "partial" THEN IF idle[a] > IdleLimit THEN "Stalled" ELSE "Downloading"
    ELSE IF a \notin cached THEN "Caching" ELSE "Mounting"

(* asset_state: residency speaks first, then a failed mount, then the      *)
(* download, then the cache, then the mount. *)
asset_state(a) ==
    CASE ~Added(a) -> "unknown"
      [] Added(a) /\ residency[a].state = "Ready" -> "Ready"
      [] Added(a) /\ residency[a].state \in ResidencyTerminal \ {"Ready"} -> "Failed"
      [] Added(a) /\ residency[a].state \in {"Waiting", "Resident"} -> "Residency"
      [] Added(a) /\ ~Tracked(a) /\ mount[a] = "FailedRetryable" -> "Failed"
      [] OTHER ->
           IF download[a] = "partial" THEN IF idle[a] > IdleLimit THEN "Stalled" ELSE "Downloading"
           ELSE IF a \notin cached THEN "Caching" ELSE "Mounting"

join_ready(required) == \A a \in required : asset_state(a) = "Ready"

StreamingNext ==
    \/ \E a \in Assets :
         \/ add_asset(a) \/ finalize_download(a)
         \/ \E outcome \in {"partial", "good", "bad"} : receive_chunk(a, outcome)
         \/ mount_verify(a) \/ mount_check_deps(a) \/ mount_begin(a)
         \/ complete_mount(a) \/ mount_register(a)
         \/ residency_request(a) \/ residency_poll(a)
         \/ cache_loses(a, "absent") \/ cache_loses(a, "corrupt")
    \/ \E d \in Datafiles : register_datafile(d)
    \/ StreamTick

StreamingSpec == StreamingInit /\ [][StreamingNext]_streamVars

-----------------------------------------------------------------------------
(* Properties. *)

(* Only the bytes of the manifest's hash are ever counted as cached, and   *)
(* an asset past the dependency gate has all its datafiles registered. *)
GatesHold ==
    \A a \in Assets :
        /\ a \in cached => download[a] = "good"
        /\ mount[a] \in {"DependenciesReady", "MountPending", "Mounted", "Registered"} =>
               Deps(a) \subseteq registry

(* A join gate that opened stays open, whatever happens to mounts,         *)
(* downloads and the cache afterwards. *)
JoinGateStays ==
    \A required \in SUBSET Assets \ {{}} : join_ready(required) => join_ready(required)'

(* The gates of streaming, in whatever order the engine's calls come: an   *)
(* asset counts as cached only with the bytes of its hash, it is past the  *)
(* dependency gate only with its datafiles registered, and the gate for    *)
(* joining does not close once it is open.  That an asset is ready only    *)
(* when it was mounted is not claimed: a residency request asks for        *)
(* neither, and asset_state lets the residency answer first.               *)
GatesSound == [][GatesHold' /\ JoinGateStays]_streamVars
=============================================================================
