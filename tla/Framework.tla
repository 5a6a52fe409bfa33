------------------------------ MODULE Framework ------------------------------
(***************************************************************************)
(* What scripts keep about players: state bags with their owners and       *)
(* change handlers (the strict compatibility layer included), the player   *)
(* and job services, and the access control that guards them.  The         *)
(* machines bags, players, jobs and rights share no state.                 *)
(***************************************************************************)
EXTENDS Integers, SequencesExt

CONSTANTS
    Spellings,      \* ways to write the name of a bag: a kind and a number
    Writers,        \* owner tokens
    NoOwner,
    Keys,           \* keys that pass validate_key
    BadKeys,        \* keys it refuses: empty, too long, with a NUL
    Data,           \* values that pass validate
    BadData,        \* values it refuses: too large, too many, too deep
    MaxSeq,         \* bound: mutations of a bag
    People,         \* player identities
    Names,          \* character names
    MaxCharacters,  \* MAX_CHARACTERS
    MaxGrade,       \* bound: grades of a job
    Grants          \* permissions granted one by one

ASSUME FrameworkAssumption ==
    /\ NoOwner \notin Writers /\ {MaxSeq, MaxCharacters, MaxGrade} \subseteq Nat
    /\ Keys \cap BadKeys = {} /\ Data \cap BadData = {}

-----------------------------------------------------------------------------
(* State bags behind the strict layer.  A bag is its owner, its sequence   *)
(* number and its values; a value is the data and the replication flag.    *)

(* BagScope::parse: the kind in any case, the number in plain digits that  *)
(* fit u32; leading zeros go.  global and localplayer have no number. *)
parse_scope(name) ==
    IF name.kind \in {"global", "localplayer"} /\ name.num = "" THEN <<name.kind>>
    ELSE IF name.kind \in {"entity", "player"} /\ name.num \in {"4", "04"} THEN <<name.kind, 4>>
    ELSE <<>>

(* validate_state_key and validate_key. *)
validate_state_key(key) == key \in Keys

(* Value::validate. *)
validate_value(data) == data \in Data

VARIABLES
    bags,           \* scope -> its bag; a partial function (the registry)
    owners,         \* scope -> owner recorded by the strict layer
    mirror,         \* scope -> what a handler of every key was told (history)
    accepted        \* scope -> last writer whose write was taken (history)

bagVars == <<bags, owners, mirror, accepted>>

Nil == "Nil"

BagsInit == bags = <<>> /\ owners = <<>> /\ mirror = <<>> /\ accepted = <<>>

(* A partial function with one more entry, or with one replaced; and       *)
(* without one. *)
Put(f, k, v) == [x \in DOMAIN f \cup {k} |-> IF x = k THEN v ELSE f[x]]

Dropped(f, key) == [k \in DOMAIN f \ {key} |-> f[k]]

(* create: the same owner may create again, another is refused. *)
create(scope, owner) ==
    /\ scope \notin DOMAIN owners
    /\ bags' = IF scope \in DOMAIN bags THEN [bags EXCEPT ![scope].owner = owner]
               ELSE Put(bags, scope, [owner |-> owner, seq |-> 0, values |-> <<>>])
    /\ owners' = Put(owners, scope, owner)
    /\ mirror' = Put(mirror, scope, <<>>)
    /\ accepted' = Put(accepted, scope, NoOwner)

(* Mutant: the strict layer hands over and the bag is forgotten. *)
hand_over_owner_only(scope, from, to) ==
    /\ scope \in DOMAIN owners /\ owners[scope] = from
    /\ owners' = [owners EXCEPT ![scope] = to]
    /\ UNCHANGED <<bags, mirror, accepted>>

(* StrictBags::transfer. *)
hand_over(scope, from, to) ==
    /\ scope \in DOMAIN owners /\ owners[scope] = from
    /\ bags' = [bags EXCEPT ![scope].owner = to]
    /\ owners' = [owners EXCEPT ![scope] = to]
    /\ UNCHANGED <<mirror, accepted>>

(* check_write under the policy OwnerOnly. *)
check_write(scope, writer) == scope \in DOMAIN bags /\ bags[scope].owner = writer

(* apply: the flag of a key is kept, the sequence moves, handlers hear. *)
set_key(scope, key, data, writer) ==
    LET bag == bags[scope]
        replicated == IF key \in DOMAIN bag.values THEN bag.values[key].replicated ELSE TRUE
    IN  /\ validate_state_key(key) /\ validate_value(data)
        /\ check_write(scope, writer) /\ bag.seq < MaxSeq
        /\ bags' = [bags EXCEPT ![scope].seq = @ + 1,
                                ![scope].values = Put(@, key, [data |-> data, replicated |-> replicated])]
        /\ mirror' = [mirror EXCEPT ![scope] = Put(@, key, data)]
        /\ accepted' = [accepted EXCEPT ![scope] = writer]
        /\ UNCHANGED owners

(* set_replicated: a key that is not there is created as Nil, which moves  *)
(* the sequence and tells no handler. *)
set_replicated(scope, key, flag, writer) ==
    LET bag == bags[scope]
    IN  /\ validate_state_key(key) /\ check_write(scope, writer)
        /\ IF key \in DOMAIN bag.values
           THEN bags' = [bags EXCEPT ![scope].values[key].replicated = flag]
           ELSE /\ bag.seq < MaxSeq
                /\ bags' = [bags EXCEPT ![scope].seq = @ + 1,
                              ![scope].values = Put(@, key, [data |-> Nil, replicated |-> flag])]
        /\ accepted' = [accepted EXCEPT ![scope] = writer]
        /\ UNCHANGED <<owners, mirror>>

delete_key(scope, key, writer) ==
    LET bag == bags[scope]
    IN  /\ validate_state_key(key) /\ check_write(scope, writer)
        /\ key \in DOMAIN bag.values /\ bag.seq < MaxSeq
        /\ bags' = [bags EXCEPT ![scope].seq = @ + 1, ![scope].values = Dropped(@, key)]
        /\ mirror' = [mirror EXCEPT ![scope] = Dropped(@, key)]
        /\ accepted' = [accepted EXCEPT ![scope] = writer]
        /\ UNCHANGED owners

snapshot_replicated(scope) ==
    {<<k, bags[scope].values[k].data>> : k \in {j \in DOMAIN bags[scope].values :
                                                  bags[scope].values[j].replicated}}

BagsNext ==
    \E name \in Spellings, w \in Writers : LET scope == parse_scope(name) IN
        /\ scope # <<>>
        /\ \/ create(scope, w)
           \/ \E to \in Writers : hand_over(scope, w, to)
           \/ \E key \in Keys \cup BadKeys :
                \/ \E data \in Data \cup BadData : set_key(scope, key, data, w)
                \/ \E flag \in BOOLEAN : set_replicated(scope, key, flag, w)
                \/ delete_key(scope, key, w)

(* The owner table of the strict layer and the bags it gates agree, so     *)
(* that a write is only ever taken from the owner of record; and one who   *)
(* knows a bag only through its change events knows its contents, but for  *)
(* keys that set_replicated brought into being as Nil. *)
BagsMirrored ==
    /\ DOMAIN owners = DOMAIN bags
    /\ \A s \in DOMAIN bags :
         /\ bags[s].owner = owners[s]
         /\ \A k \in DOMAIN bags[s].values :
              \/ k \in DOMAIN mirror[s] /\ mirror[s][k] = bags[s].values[k].data
              \/ k \notin DOMAIN mirror[s] /\ bags[s].values[k].data = Nil
         /\ DOMAIN mirror[s] \subseteq DOMAIN bags[s].values
         /\ \A kv \in snapshot_replicated(s) : kv[2] = Nil \/ mirror[s][kv[1]] = kv[2]

-----------------------------------------------------------------------------
(* The player service: characters and the index of their names. *)

VARIABLES
    players,        \* identity -> status, characters (their names in order), active slot
    names           \* character name -> its owner; a partial function

playerVars == <<players, names>>

PlayersInit == players = <<>> /\ names = <<>>

(* join inserts a player that is not known and leaves a known one alone. *)
join_player(p) ==
    /\ p \notin DOMAIN players
    /\ players' = Put(players, p, [status |-> "Online", characters |-> <<>>, active |-> 0])
    /\ UNCHANGED names

leave_player(p) ==
    /\ p \in DOMAIN players
    /\ players' = [players EXCEPT ![p].status = "Offline", ![p].active = 0]
    /\ UNCHANGED names

(* Mutant: only the player's own characters are compared. *)
NameFree_own(p, n) == \A i \in DOMAIN players[p].characters : players[p].characters[i] # n

NameFree(p, n) == n \notin DOMAIN names

create_character(p, n) ==
    /\ p \in DOMAIN players /\ NameFree(p, n)
    /\ Len(players[p].characters) < MaxCharacters
    /\ players' = [players EXCEPT ![p].characters = Append(@, n)]
    /\ names' = Put(names, n, p)

select_character(p, slot) ==
    /\ p \in DOMAIN players /\ slot \in DOMAIN players[p].characters
    /\ players' = [players EXCEPT ![p].active = slot]
    /\ UNCHANGED names

online_count == Cardinality({p \in DOMAIN players : players[p].status = "Online"})

PlayersNext ==
    \E p \in People :
        \/ join_player(p) \/ leave_player(p)
        \/ \E n \in Names : create_character(p, n)
        \/ \E slot \in 1..MaxCharacters : select_character(p, slot)

(* "Names are unique across the server": the index and the characters say  *)
(* the same, and a name is one character of one player. *)
NamesUnique ==
    /\ \A n \in DOMAIN names :
         \E i \in DOMAIN players[names[n]].characters : players[names[n]].characters[i] = n
    /\ \A p, q \in DOMAIN players :
         \A i \in DOMAIN players[p].characters, j \in DOMAIN players[q].characters :
             players[p].characters[i] = players[q].characters[j] =>
                 p = q /\ i = j /\ names[players[p].characters[i]] = p

-----------------------------------------------------------------------------
(* The job service. *)

VARIABLES
    jobs,           \* number of grades of the job, 0 while it is not registered
    employment,     \* identity -> grade and duty; a partial function
    clocked         \* history: identity -> the grade it last went on duty in

jobVars == <<jobs, employment, clocked>>

JobsInit == jobs = 0 /\ employment = <<>> /\ clocked = <<>>

(* register: the grades must be 0, 1, 2 and so on.  A job registered again *)
(* replaces the old one, also by one without grades, and those employed in *)
(* it stay.                                                                *)
register_job(grades) ==
    /\ \E n \in 0..(MaxGrade + 1) : grades = 0..(n - 1) /\ jobs' = n
    /\ UNCHANGED <<employment, clocked>>

HasGrade(g) == g < jobs

(* Mutant: who is promoted on duty stays on duty. *)
employ_on_duty(p, g) ==
    /\ HasGrade(g)
    /\ employment' = Put(employment, p, [grade |-> g, duty |-> p \in DOMAIN employment /\ employment[p].duty])
    /\ clocked' = Dropped(clocked, p)
    /\ UNCHANGED jobs

(* set: whoever gets a grade, also a promotion, starts off duty. *)
employ(p, g) ==
    /\ HasGrade(g)
    /\ employment' = Put(employment, p, [grade |-> g, duty |-> FALSE])
    /\ clocked' = Dropped(clocked, p)
    /\ UNCHANGED jobs

fire(p) ==
    /\ p \in DOMAIN employment
    /\ employment' = Dropped(employment, p)
    /\ clocked' = Dropped(clocked, p)
    /\ UNCHANGED jobs

set_duty(p, on) ==
    /\ p \in DOMAIN employment
    /\ employment' = [employment EXCEPT ![p].duty = on]
    /\ clocked' = IF on THEN Put(clocked, p, employment[p].grade) ELSE Dropped(clocked, p)
    /\ UNCHANGED jobs

(* A grade's salary and rank are one more than the grade here.  Off duty,  *)
(* and when the grade is gone, the salary is zero; duty does not matter    *)
(* for the rank. *)
salary(p) ==
    IF p \in DOMAIN employment /\ employment[p].duty /\ HasGrade(employment[p].grade)
    THEN employment[p].grade + 1 ELSE 0

rank(p) ==
    IF p \in DOMAIN employment /\ HasGrade(employment[p].grade) THEN employment[p].grade + 1 ELSE 0

JobsNext ==
    \/ \E grades \in SUBSET (0..MaxGrade) : register_job(grades)
    \/ \E p \in People :
         \/ fire(p)
         \/ \E g \in 0..MaxGrade : employ(p, g)
         \/ \E on \in BOOLEAN : set_duty(p, on)

(* "an off-duty officer does not accrue salary": whoever is paid went on   *)
(* duty in the very grade it is paid for, through promotions, dismissals   *)
(* and jobs that are registered again with fewer grades. *)
WagesEarned ==
    \A p \in People : salary(p) > 0 => p \in DOMAIN clocked /\ salary(p) = clocked[p] + 1

-----------------------------------------------------------------------------
(* Access control. *)

VARIABLES
    assignments,    \* principal -> role; a partial function
    direct          \* principal -> permissions granted one by one

rightsVars == <<assignments, direct>>

RightsInit == assignments = <<>> /\ direct = [p \in People |-> {}]

Role == {"Owner", "SuperAdmin", "Admin", "Moderator", "Developer", "Support", "ReadOnly"}

(* A permission is its scope, up to the first dot, and the rest; "*" is    *)
(* any. *)
default_permissions(r) ==
    CASE r = "Owner" -> {<<"*", "*">>}
      [] r = "SuperAdmin" ->
           {<<"players", "read">>, <<"players", "kick">>, <<"players", "ban">>, <<"players", "identity.read">>,
            <<"players", "identity.device.read">>, <<"players", "identity.network.read">>, <<"resources", "*">>,
            <<"server", "*">>, <<"console", "execute">>, <<"deployment", "*">>, <<"audit", "read">>, <<"config", "edit">>}
      [] r = "Admin" ->
           {<<"players", "read">>, <<"players", "kick">>, <<"players", "ban">>, <<"players", "identity.read">>,
            <<"resources", "restart">>, <<"resources", "configure">>, <<"server", "restart">>,
            <<"console", "execute">>, <<"audit", "read">>}
      [] r = "Moderator" -> {<<"players", "read">>, <<"players", "kick">>, <<"players", "identity.read">>}
      [] r = "Developer" ->
           {<<"players", "read">>, <<"resources", "restart">>, <<"resources", "configure">>,
            <<"server", "restart">>, <<"console", "execute">>, <<"audit", "read">>}
      [] r = "Support" -> {<<"players", "read">>, <<"players", "identity.read">>, <<"audit", "read">>}
      [] r = "ReadOnly" -> {<<"players", "read">>, <<"audit", "read">>}

(* What is asked for: the names of the table and two that only a wildcard  *)
(* of it covers. *)
Permission ==
    UNION {default_permissions(r) : r \in Role} \cup {<<"server", "stop">>, <<"deployment", "apply">>}

assign(p, r) == assignments' = Put(assignments, p, r) /\ UNCHANGED direct

unassign(p) ==
    /\ p \in DOMAIN assignments
    /\ assignments' = Dropped(assignments, p)
    /\ UNCHANGED direct

(* grant: whether the principal has a role or not. *)
grant_direct(p, perm) == direct' = [direct EXCEPT ![p] = @ \cup {perm}] /\ UNCHANGED assignments

(* Mutant: a grant counts without a role. *)
check_unassigned(p, perm) ==
    \E g \in direct[p] \cup (IF p \in DOMAIN assignments THEN default_permissions(assignments[p]) ELSE {}) :
        g = <<"*", "*">> \/ g = perm \/ g = <<perm[1], "*">>

(* check: without a role nothing is allowed, direct grants included. *)
check(p, perm) ==
    /\ p \in DOMAIN assignments
    /\ \E g \in default_permissions(assignments[p]) \cup direct[p] :
         g = <<"*", "*">> \/ g = perm \/ g = <<perm[1], "*">>

RightsNext ==
    \E p \in People :
        \/ unassign(p)
        \/ \E r \in Role : assign(p, r)
        \/ \E perm \in Grants : grant_direct(p, perm)

(* The roles that include another: there are two ladders below Admin and a *)
(* Moderator is on neither, for it may not read the audit log, which       *)
(* Support and ReadOnly may. *)
Above(r) ==
    CASE r = "Owner" -> Role
      [] r = "SuperAdmin" -> Role \ {"Owner"}
      [] r = "Admin" -> Role \ {"Owner", "SuperAdmin"}
      [] r \in {"Developer", "Support"} -> {r, "ReadOnly"}
      [] OTHER -> {r}

(* Nobody without a role is allowed anything, whatever was granted; and    *)
(* who has a role above another's and no fewer grants is allowed whatever  *)
(* the other is, in whatever order roles and grants came and went. *)
RightsOrdered ==
    \A q \in People, perm \in Permission : check(q, perm) =>
        /\ q \in DOMAIN assignments
        /\ \A p \in DOMAIN assignments :
             direct[q] \subseteq direct[p] /\ assignments[q] \in Above(assignments[p]) => check(p, perm)

(* The framework's tables agree with each other: the strict layer's owners *)
(* with the bags it gates and the events it sent, the name index with the  *)
(* characters, wages with duty, and rights with the roles and the grants.  *)
FrameworkSound == BagsMirrored /\ NamesUnique /\ WagesEarned /\ RightsOrdered
=============================================================================
