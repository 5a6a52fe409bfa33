------------------------------ MODULE Packages ------------------------------
(***************************************************************************)
(* What a resource is made of and where it may look: the sandboxed virtual *)
(* file system (ald-vfs), signed packages (ald-package), the scanner that  *)
(* judges them (ald-package-scanner) and the registries of asset formats   *)
(* and data files (ald-asset-registry, ald-datafiles).                     *)
(***************************************************************************)
EXTENDS Integers, Sequences, FiniteSets, FiniteSetsExt, SequencesExt, Sums

CONSTANTS
    Resources,      \* resource names; each has a directory of that name
    Relatives,      \* the relative paths asked for, as sequences of components
    DirLinks,       \* directories a host operator may turn into a link
    FileLinks,      \* files a host operator may turn into a link
    MaxVfsSteps,    \* bound on file system operations
    Keys,           \* signing keys
    Bytes,          \* what a payload file may hold
    MaxPackageSteps, \* bound on what happens to a package
    MaxRegistered   \* bound on registrations

-----------------------------------------------------------------------------
(* The virtual file system.  A host path is the sequence of its components *)
(* below the host's root directory; a resource's root is <<resource>>.     *)

VARIABLES
    mounts,         \* mounted resource -> who it shares with, writable
    tree,           \* regular file -> the resource whose bytes it holds
    link,           \* host path that is a symbolic link -> where it leads
    staging,        \* temporary files not yet renamed into place
    pending,        \* the call between its check and its use of the file
    answer,         \* what the last finished call reported
    granted,        \* history: <<resource, reader>> pairs ever shared
    strayed,        \* history: files written through a directory swapped for
                    \* a link after its check
    vfsSteps

vfsVars == <<mounts, tree, link, staging, pending, answer, granted, strayed, vfsSteps>>

Subdir == "d"

(* A resource's directory is never a link itself, and some resource has no *)
(* links in it. *)
ASSUME VfsAssumption ==
    /\ Resources \subseteq STRING /\ Relatives \subseteq Seq(STRING)
    /\ DirLinks \subseteq {<<r, Subdir>> : r \in Resources}
    /\ FileLinks \subseteq {<<r, "f">> : r \in Resources} \cup {<<r, Subdir, "f">> : r \in Resources}
    /\ \E r \in Resources : \A l \in DirLinks \cup FileLinks : l[1] # r

Outside == CHOOSE r \in Resources : \A l \in DirLinks \cup FileLinks : l[1] # r
Directories == {<<>>} \cup {<<r>> : r \in Resources} \cup {<<r, Subdir>> : r \in Resources}
Idle_call == [op |-> "none"]

(* A read also says whether a directory on its way was a link.             *)
Said(caller, what, owner, via) ==
    [caller |-> caller, what |-> what, owner |-> owner, via |-> via]
Refused_with(caller, error) == Said(caller, error, caller, FALSE)

VfsInit ==
    /\ mounts = <<>>
    /\ tree = [p \in {<<r, "f">> : r \in Resources}
                     \cup {<<r, Subdir, "f">> : r \in Resources} |-> p[1]]
    /\ link = <<>>
    /\ staging = {}
    /\ pending = Idle_call
    /\ answer = Refused_with(Outside, "none")
    /\ granted = {}
    /\ strayed = {}
    /\ vfsSteps = 0

Vfs_step == vfsSteps < MaxVfsSteps /\ vfsSteps' = vfsSteps + 1

is_reserved_device_name(comp) == comp \in {"nul", "com1"}

(* Windows device names are refused in any component; the net depth must   *)
(* never go below the resource's own directory.                            *)
sanitize_relative(rel) ==
    LET normal(n) == {i \in 1..n : rel[i] \notin {"", ".", ".."}}
        up(n) == {i \in 1..n : rel[i] = ".."}
    IN  IF rel = <<>> THEN "ok"
        ELSE IF rel[1] = "" THEN "AbsolutePath"
        ELSE IF Last(rel) = "f:s" THEN "AdsNotAllowed"
        ELSE IF \E i \in DOMAIN rel : is_reserved_device_name(rel[i]) THEN "ReservedDevice"
        ELSE IF \E n \in DOMAIN rel : Cardinality(up(n)) > Cardinality(normal(n)) THEN "PathEscape"
        ELSE "ok"

(* Joining drops empty and "." components; any ".." left is an escape.     *)
verify_within(rel) == IF ".." \in ToSet(rel) THEN "PathEscape" ELSE "ok"

Join(resource, rel) == <<resource>> \o Selected(rel, {i \in DOMAIN rel : rel[i] \notin {"", "."}})

Exists(p) == p \in DOMAIN tree \/ p \in Directories

(* External: fs::canonicalize with the links there are now.                *)
Followed(p) ==
    LET at == {k \in DOMAIN p : SubSeq(p, 1, k) \in DOMAIN link}
    IN  IF at = {} THEN p
        ELSE link[SubSeq(p, 1, Min(at))] \o SubSeq(p, Min(at) + 1, Len(p))

(* A path that does not exist keeps its lexical form.                      *)
canonicalize_or(p) == IF Exists(Followed(p)) THEN Followed(p) ELSE p

verify_canonical_within(root, target) == IsPrefix(canonicalize_or(root), canonicalize_or(target))

check_access(resource, caller) == resource = caller \/ caller \in mounts[resource].shared_with

resolve_path(resource, rel, caller) ==
    IF sanitize_relative(rel) # "ok" THEN sanitize_relative(rel)
    ELSE IF resource \notin DOMAIN mounts THEN "UnknownResource"
    ELSE IF ~check_access(resource, caller) THEN "CrossResource"
    ELSE verify_within(rel)

(* Mounting again forgets who the resource was shared with.                *)
mount_resource ==
    /\ Vfs_step /\ pending = Idle_call
    /\ \E r \in Resources, w \in BOOLEAN :
           mounts' = [q \in DOMAIN mounts \cup {r} |->
                         IF q = r THEN [shared_with |-> {}, writable |-> w] ELSE mounts[q]]
    /\ UNCHANGED <<tree, link, staging, pending, answer, granted, strayed>>

share ==
    /\ Vfs_step /\ pending = Idle_call
    /\ \E r \in DOMAIN mounts, other \in Resources :
           /\ mounts' = [mounts EXCEPT ![r] = [shared_with |-> mounts[r].shared_with \cup {other},
                                               writable |-> mounts[r].writable]]
           /\ granted' = granted \cup {<<r, other>>}
    /\ UNCHANGED <<tree, link, staging, pending, answer, strayed>>

(* External: the host puts a link where a directory or a file was.         *)
swap_in_link ==
    /\ Vfs_step
    /\ \E p \in (DirLinks \cup FileLinks) \ DOMAIN link :
           link' = [q \in DOMAIN link \cup {p} |->
                       IF q # p THEN link[q]
                       ELSE IF p \in DirLinks THEN <<Outside>> ELSE <<Outside, "f">>]
    /\ UNCHANGED <<mounts, tree, staging, pending, answer, granted, strayed>>

read_begin ==
    /\ Vfs_step /\ pending = Idle_call
    /\ \E r, c \in Resources, rel \in Relatives :
           LET said == resolve_path(r, rel, c)
           IN  IF said = "ok"
               THEN /\ pending' = [op |-> "read", caller |-> c, target |-> Join(r, rel)]
                    /\ UNCHANGED answer
               ELSE answer' = Refused_with(c, said) /\ UNCHANGED pending
    /\ UNCHANGED <<mounts, tree, link, staging, granted, strayed>>

(* Some directory on the way to p is a link now.                           *)
Through_link(p) == \E k \in 1..(Len(p) - 1) : SubSeq(p, 1, k) \in DOMAIN link

read_resolved_unverified ==
    /\ pending.op = "read"
    /\ LET real == Followed(pending.target)
           c == pending.caller
       IN  answer' = IF real \notin DOMAIN tree THEN Refused_with(c, "NotFound")
                     ELSE Said(c, "read", real[1], Through_link(pending.target))
    /\ pending' = Idle_call
    /\ UNCHANGED <<mounts, tree, link, staging, granted, strayed, vfsSteps>>

(* The target's links are followed again; what it leads to must lie below  *)
(* the directory the target is in, that directory's own links followed.    *)
read_resolved ==
    /\ pending.op = "read"
    /\ LET target == pending.target
           real == Followed(target)
           c == pending.caller
       IN  answer' =
             IF ~Exists(real) THEN Refused_with(c, "NotFound")
             ELSE IF ~verify_canonical_within(Front(target), real) THEN Refused_with(c, "PathEscape")
             ELSE IF real \notin DOMAIN tree THEN Refused_with(c, "Io")
             ELSE Said(c, "read", real[1], Through_link(target))
    /\ pending' = Idle_call
    /\ UNCHANGED <<mounts, tree, link, staging, granted, strayed, vfsSteps>>

(* Mutant: the parent directory is checked by its name only.               *)
write_fails_lexical(r, c, rel, parent) ==
    IF r # c THEN "CrossResource"
    ELSE IF r \notin DOMAIN mounts THEN "UnknownResource"
    ELSE IF ~mounts[r].writable THEN "Io"
    ELSE IF sanitize_relative(rel) # "ok" THEN sanitize_relative(rel)
    ELSE verify_within(rel)

write_fails(r, c, rel, parent) ==
    IF r # c THEN "CrossResource"
    ELSE IF r \notin DOMAIN mounts THEN "UnknownResource"
    ELSE IF ~mounts[r].writable THEN "Io"
    ELSE IF sanitize_relative(rel) # "ok" THEN sanitize_relative(rel)
    ELSE IF verify_within(rel) # "ok" THEN verify_within(rel)
    ELSE IF ~verify_canonical_within(<<r>>, parent) THEN "PathEscape"
    ELSE "ok"

(* Only the owner writes, and only below its own root: the parent is made  *)
(* canonical and checked, and is a name from then on.                      *)
write_begin ==
    /\ Vfs_step /\ pending = Idle_call
    /\ \E r, c \in Resources, rel \in Relatives :
           LET target == Join(r, rel)
               parent == canonicalize_or(Front(target))
               fails == write_fails(r, c, rel, parent)
           IN  IF fails = "ok"
               THEN /\ pending' = [op |-> "checked", caller |-> c, parent |-> parent,
                                   target |-> Append(parent, Last(target))]
                    /\ UNCHANGED answer
               ELSE answer' = Refused_with(c, fails) /\ UNCHANGED pending
    /\ UNCHANGED <<mounts, tree, link, staging, granted, strayed>>

(* The temporary file goes wherever the parent's name leads now.           *)
write_temp ==
    /\ pending.op = "checked"
    /\ LET dir == Followed(pending.parent)
       IN  IF dir \in Directories
           THEN /\ staging' = staging \cup {[dir |-> dir, by |-> pending.caller,
                                            raced |-> dir # pending.parent]}
                /\ pending' = [op |-> "staged", caller |-> pending.caller,
                               parent |-> pending.parent, target |-> pending.target,
                               dir |-> dir]
                /\ UNCHANGED answer
           ELSE /\ answer' = Refused_with(pending.caller, "Io")
                /\ pending' = Idle_call
                /\ UNCHANGED staging
    /\ UNCHANGED <<mounts, tree, link, granted, strayed, vfsSteps>>

(* A failed last check leaves the temporary file; a failed rename removes  *)
(* what the temporary file's name leads to; a rename replaces a link at    *)
(* the target by the file.                                                 *)
write_promote ==
    /\ pending.op = "staged"
    /\ LET c == pending.caller
           dir == Followed(pending.parent)
           temp == [dir |-> pending.dir, by |-> c, raced |-> pending.dir # pending.parent]
           landed == Append(dir, Last(pending.target))
       IN  IF ~verify_canonical_within(<<c>>, pending.target)
           THEN /\ answer' = Refused_with(c, "PathEscape")
                /\ UNCHANGED <<tree, link, staging, strayed>>
           ELSE IF dir # pending.dir \/ landed \in Directories
           THEN /\ answer' = Refused_with(c, "Io")
                /\ staging' = IF dir = pending.dir THEN staging \ {temp} ELSE staging
                /\ UNCHANGED <<tree, link, strayed>>
           ELSE /\ answer' = Said(c, "written", c, FALSE)
                /\ tree' = [p \in DOMAIN tree \cup {landed} |-> IF p = landed THEN c ELSE tree[p]]
                /\ link' = [p \in DOMAIN link \ {landed} |-> link[p]]
                /\ staging' = staging \ {temp}
                /\ strayed' = IF temp.raced THEN strayed \cup {landed} ELSE strayed
    /\ pending' = Idle_call
    /\ UNCHANGED <<mounts, granted, vfsSteps>>

VfsNext ==
    \/ mount_resource \/ share \/ swap_in_link
    \/ read_begin \/ read_resolved \/ write_begin \/ write_temp \/ write_promote

(* Whatever links appear before, between and after the steps of a call,    *)
(* every file and temporary file a write leaves is in the directory of the *)
(* resource that wrote it, except where the host swapped the checked       *)
(* directory for a link in the middle of the very write; and a read hands  *)
(* out another resource's file only to one that resource was shared with,  *)
(* or below a directory that is a link.  Neither exception is what the     *)
(* file system's comments promise: see ReadsConfined and SwapCaught.       *)
SandboxHolds ==
    /\ \A p \in DOMAIN tree \ strayed : tree[p] = p[1]
    /\ \A t \in staging : (t.dir # <<>> /\ t.dir[1] = t.by) \/ t.raced
    /\ answer.what = "read" /\ answer.owner # answer.caller =>
           answer.via \/ <<answer.owner, answer.caller>> \in granted

(* "symlink escape must be blocked" (the test symlink_escape_blocked, for  *)
(* a linked directory): no read leaves its resource by a link.  The read   *)
(* is compared with the directory it goes through, itself already          *)
(* followed, so this does not hold.                                        *)
ReadsConfined ==
    answer.what = "read" /\ answer.owner # answer.caller =>
        <<answer.owner, answer.caller>> \in granted

(* "a symlink swap after validation is still caught" (the header): no      *)
(* write lands outside its resource.  It does when the directory is        *)
(* swapped before the temporary file is made and the target is new.        *)
SwapCaught == strayed = {}

-----------------------------------------------------------------------------
(* A package on its way from publisher to host.  A manifest lists payload  *)
(* files with the hashes their bytes had; the signature covers the listing *)
(* and the protection and carries the key it is checked with.  Hashes and  *)
(* signatures are ideal: equal only for what was hashed or signed.         *)

VARIABLES pkg_manifest, payloads, signature, verified, authority, allowNative, packageSteps

packageVars == <<pkg_manifest, payloads, signature, verified, authority, allowNative, packageSteps>>

PayloadPaths == {"main.lua", "lib.dll"}
ProtectionPolicy == {"Open", "Signed"}
Reputations == <<"Blacklisted", "Suspicious", "Standard", "Verified", "Trusted">>
Unsigned == [key |-> "none", over |-> "none"]

PackagesInit ==
    /\ pkg_manifest = [file_hashes |-> <<>>, protection |-> "Open"]
    /\ payloads = <<>>
    /\ signature = Unsigned
    /\ verified = "none"
    /\ authority = [reputation |-> "Standard", revoked |-> FALSE, revoked_keys |-> {}]
    /\ allowNative = FALSE
    /\ packageSteps = 0

Package_step == packageSteps < MaxPackageSteps /\ packageSteps' = packageSteps + 1

(* The publisher hashes the files, lists them and signs the listing.       *)
publish ==
    /\ Package_step
    /\ \E k \in Keys, some \in SUBSET PayloadPaths :
         \E files \in [some -> Bytes], policy \in ProtectionPolicy :
           LET listing == [file_hashes |-> files, protection |-> policy]
           IN  /\ pkg_manifest' = listing
               /\ payloads' = files
               /\ signature' = [key |-> k, over |-> listing]
    /\ verified' = "none"
    /\ UNCHANGED <<authority, allowNative>>

(* External: storage or transport damages a file or the manifest.          *)
damage_payload ==
    /\ Package_step
    /\ \E p \in DOMAIN payloads, c \in Bytes : payloads' = [payloads EXCEPT ![p] = c]
    /\ verified' = "none"
    /\ UNCHANGED <<pkg_manifest, signature, authority, allowNative>>

lose_payload ==
    /\ Package_step
    /\ \E p \in DOMAIN payloads :
           payloads' = [q \in DOMAIN payloads \ {p} |-> payloads[q]]
    /\ verified' = "none"
    /\ UNCHANGED <<pkg_manifest, signature, authority, allowNative>>

damage_manifest ==
    /\ Package_step
    /\ \E p \in DOMAIN pkg_manifest.file_hashes, c \in Bytes :
           pkg_manifest' = [pkg_manifest EXCEPT !.file_hashes[p] = c]
    /\ verified' = "none"
    /\ UNCHANGED <<payloads, signature, authority, allowNative>>

revoke_trust ==
    /\ Package_step
    /\ \/ \E r \in ToSet(Reputations) : authority' = [authority EXCEPT !.reputation = r]
       \/ authority' = [authority EXCEPT !.revoked = TRUE]
       \/ \E k \in Keys : authority' = [authority EXCEPT !.revoked_keys = authority.revoked_keys \cup {k}]
    /\ UNCHANGED <<pkg_manifest, payloads, signature, verified, allowNative>>

configure_scanner ==
    /\ Package_step
    /\ allowNative' = ~allowNative
    /\ UNCHANGED <<pkg_manifest, payloads, signature, verified, authority>>

(* Signature::verify over the canonical manifest.                          *)
Signature_verify ==
    IF signature.key = Unsigned.key THEN "UnsupportedAlgorithm"
    ELSE IF signature.over # pkg_manifest THEN "BadSignature" ELSE "ok"

verify_payloads ==
    IF \E p \in DOMAIN pkg_manifest.file_hashes : p \notin DOMAIN payloads THEN "Malformed"
    ELSE IF \E p \in DOMAIN pkg_manifest.file_hashes : payloads[p] # pkg_manifest.file_hashes[p]
    THEN "HashMismatch" ELSE "ok"

(* An open package is not checked for a signature.                         *)
verify_payload_package ==
    /\ Package_step
    /\ verified' =
         IF pkg_manifest.protection # "Open" /\ Signature_verify # "ok" THEN Signature_verify
         ELSE verify_payloads
    /\ UNCHANGED <<pkg_manifest, payloads, signature, authority, allowNative>>

(* The scanner's findings, counted by severity. *)
scan_file_path(path, severity) ==
    IF path = "lib.dll" /\ severity = (IF allowNative THEN "Low" ELSE "Critical") THEN 1 ELSE 0

(* Binary bytes in a script are odd, a call out of the sandbox is grave;   *)
(* a text may hold several.                                                *)
scan_file_content(path, content, severity) ==
    CASE path = "main.lua" /\ content = "binary" /\ severity = "Medium" -> 1
      [] path = "main.lua" /\ content = "breakout" /\ severity = "High" -> 1
      [] path = "main.lua" /\ content = "encoded" /\ severity = "Medium" -> 2
      [] OTHER -> 0

authority_findings(a, severity) ==
    (IF a.revoked /\ severity = "Critical" THEN 1 ELSE 0)
    + (IF \/ a.reputation = "Blacklisted" /\ severity = "Critical"
          \/ a.reputation = "Suspicious" /\ severity = "High" THEN 1 ELSE 0)
    + (IF signature.key \in a.revoked_keys /\ severity = "Critical" THEN 1 ELSE 0)

file_findings(files, severity) ==
    SumOver(DOMAIN files, [p \in DOMAIN files |->
                scan_file_path(p, severity) + scan_file_content(p, files[p], severity)])

findings_for(a, files, severity) == authority_findings(a, severity) + file_findings(files, severity)

has_critical(a, files) == findings_for(a, files, "Critical") > 0

(* Capped at 100 first; the discount needs that nothing is critical.       *)
risk_score(a, files) ==
    LET sum == 5 * findings_for(a, files, "Low") + 15 * findings_for(a, files, "Medium")
               + 35 * findings_for(a, files, "High") + 80 * findings_for(a, files, "Critical")
        capped == IF sum > 100 THEN 100 ELSE sum
        discount == IF has_critical(a, files) THEN 0
                    ELSE CASE a.reputation = "Trusted" -> 15
                           [] a.reputation = "Verified" -> 5
                           [] OTHER -> 0
    IN  IF capped > discount THEN capped - discount ELSE 0

max_risk_score_for_approval == 20
flag_threshold == 40
quarantine_threshold == 75

scan(a, files) ==
    LET score == risk_score(a, files)
    IN  IF has_critical(a, files) \/ score >= quarantine_threshold
        THEN IF a.reputation = "Blacklisted" \/ a.revoked THEN "Rejected" ELSE "Quarantined"
        ELSE IF score >= flag_threshold THEN "FlaggedForReview"
        ELSE IF score <= max_risk_score_for_approval THEN "Approved"
        ELSE "FlaggedForReview"

PackagesNext ==
    \/ publish \/ damage_payload \/ lose_payload \/ damage_manifest
    \/ revoke_trust \/ configure_scanner \/ verify_payload_package

Harsher == <<"Approved", "FlaggedForReview", "Quarantined", "Rejected">>
Rank_of(order, x) == CHOOSE i \in DOMAIN order : order[i] = x

(* A package verified under a signing policy is, manifest and listed       *)
(* files, what the holder of its key signed, whatever happened to it on    *)
(* the way; and the scanner never judges the same files more kindly for a  *)
(* publisher with a worse reputation, nor approves a revoked key.          *)
PackagesTrue ==
    /\ verified = "ok" /\ pkg_manifest.protection # "Open" =>
           /\ signature.over = pkg_manifest
           /\ \A p \in DOMAIN signature.over.file_hashes :
                  p \in DOMAIN payloads /\ payloads[p] = signature.over.file_hashes[p]
    /\ \A worse, better \in DOMAIN Reputations :
           worse < better =>
             LET judged(i) == scan([authority EXCEPT !.reputation = Reputations[i]], payloads)
             IN  Rank_of(Harsher, judged(worse)) >= Rank_of(Harsher, judged(better))
    /\ signature.key \in authority.revoked_keys =>
           scan(authority, payloads) \in {"Quarantined", "Rejected"}

-----------------------------------------------------------------------------
(* Registries.  A raw name is its base in some letter case, with or        *)
(* without directories, a drive or a stray colon.                          *)

VARIABLES registries, registered

registryVars == <<registries, registered>>

EntrySource == {"SpecSeed", "Certified"}
Registry_names == {"formats", "datafiles"}
Bases == {"seeded", "novel"}
Raw_names == [base : Bases \cup {""}, upper : BOOLEAN, prefix : {"none", "dir", "drive", "colon"}]
Bad_name == "bad"

(* Lower case, trimmed, dotted; a separator or colon is refused.           *)
normalize_extension(raw) ==
    IF raw.prefix # "none" \/ raw.base = "" THEN Bad_name ELSE raw.base

(* A data file name keeps its base; only a drive may hold a colon.         *)
normalize_name(raw) ==
    IF raw.prefix = "colon" \/ raw.base = "" THEN Bad_name ELSE raw.base

normalized(reg, raw) == IF reg = "formats" THEN normalize_extension(raw) ELSE normalize_name(raw)

(* Looking up takes paths in both registries.                              *)
recognize(raw) == IF raw.base = "" THEN Bad_name ELSE raw.base
lookup_name(reg, raw) == IF reg = "formats" THEN recognize(raw) ELSE normalize_name(raw)

Seeded == [class |-> 0, source |-> "SpecSeed"]

with_spec_seed == [b \in {"seeded"} |-> Seeded]

RegistriesInit ==
    /\ registries = [reg \in Registry_names |-> with_spec_seed]
    /\ registered = <<>>

(* A new name, or a seeded one by a certified entry; anything else is a    *)
(* duplicate.                                                              *)
register_entry ==
    /\ Len(registered) < MaxRegistered
    /\ \E reg \in Registry_names, raw \in Raw_names, source \in EntrySource :
         LET key == normalized(reg, raw)
             entry == [class |-> Len(registered) + 1, source |-> source]
             entries == registries[reg]
         IN  /\ key # Bad_name
             /\ IF key \in DOMAIN entries
                    /\ ~(entries[key].source = "SpecSeed" /\ source = "Certified")
                THEN UNCHANGED <<registries, registered>>
                ELSE /\ registries' = [registries EXCEPT ![reg] =
                            [k \in DOMAIN entries \cup {key} |->
                                IF k = key THEN entry ELSE entries[k]]]
                     /\ registered' = Append(registered,
                            [reg |-> reg, raw |-> raw, entry |-> entry])

RegistriesNext == register_entry

(* Every entry ever certified is still the one found under each spelling   *)
(* it can be asked for: a later registration, in any letter case or with a *)
(* path before it, neither replaces it nor hides it.                       *)
CertifiedStays ==
    \A i \in DOMAIN registered :
        registered[i].entry.source = "Certified" =>
            \A raw \in Raw_names :
                LET reg == registered[i].reg
                IN  (/\ raw.base = registered[i].raw.base
                     /\ lookup_name(reg, raw) # Bad_name)
                    => registries[reg][lookup_name(reg, raw)] = registered[i].entry

(* The sandbox holds though links appear between check and use, a package  *)
(* verified under a signing policy is what its key's holder signed, and a  *)
(* certified registry entry is never replaced or hidden.                   *)
PackagesSound == SandboxHolds /\ PackagesTrue /\ CertifiedStays

=============================================================================
