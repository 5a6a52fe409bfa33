-------------------------------- MODULE Aegis --------------------------------
(***************************************************************************)
(* The Aegis backend: logins with lockout and a second factor, sessions    *)
(* with two deadlines, alerts and the incident timeline, administrative    *)
(* actions with their audit log, and the profiler's percentiles.  The      *)
(* machines logins, alerts, actions and profiler share no state.  A        *)
(* password is right or wrong and a one-time code is the counter it was    *)
(* made for: hashing is external. *)
(***************************************************************************)
EXTENDS Integers, SequencesExt, Sums

(* A table with the value of one key set. *)
Assigned(f, k, v) == [x \in DOMAIN f \cup {k} |-> IF x = k THEN v ELSE f[x]]

(* The ascending rearrangement of a list of numbers: as many of its        *)
(* elements are at most v as of the list's. *)
Sorted(s) ==
    LET values == {s[i] : i \in DOMAIN s} IN
    CHOOSE r \in [DOMAIN s -> values] :
        /\ \A i, j \in DOMAIN s : i <= j => r[i] <= r[j]
        /\ \A v \in values : Cardinality({i \in DOMAIN s : r[i] <= v}) = Cardinality({i \in DOMAIN s : s[i] <= v})

(* long holds everything that was ever added, short the newest cap of it. *)
NewestOf(short, long, cap) ==
    /\ Len(short) = Min({Len(long), cap})
    /\ \A i \in DOMAIN short : short[i] = long[(Len(long) - Len(short)) + i]

-----------------------------------------------------------------------------
CONSTANTS
    Plain,              \* accounts without a second factor
    Enrolled,           \* accounts with one
    max_attempts, lockout_window,
    absolute_ttl, idle_ttl,
    STEP, SKEW_WINDOWS,
    MaxTokens,          \* bound: sessions created
    MaxAuthTime,        \* bound: the clock of the logins
    NoToken

ASSUME LoginAssumption ==
    /\ {max_attempts, lockout_window, absolute_ttl, idle_ttl, STEP} \subseteq Nat \ {0}
    /\ {SKEW_WINDOWS, MaxTokens, MaxAuthTime} \subseteq Nat /\ lockout_window <= MaxAuthTime
    /\ Plain \cap Enrolled = {}

-----------------------------------------------------------------------------
(* Logins and sessions.  The clock starts past the first window, as the    *)
(* seconds since 1970 do. *)

Users == Plain \cup Enrolled

VARIABLES
    authNow,
    limits,         \* user -> failures and start of their window
    failedAt,       \* user -> time -> its failures then, of the last lockout_window and since a success
    tokens,         \* token -> session; a partial function
    created,        \* tokens created so far: token n is the n-th
    proven,         \* token -> what was proven when it was created
    ended,          \* tokens that were logged out or refused
    accepted        \* the last accepted use: token, age and pause

authVars == <<authNow, limits, failedAt, tokens, created, proven, ended, accepted>>

NoFailures == [t \in 1..MaxAuthTime |-> 0]

LoginsInit ==
    /\ authNow = lockout_window
    /\ limits = [u \in Users |-> [failures |-> 0, window_start |-> 0]]
    /\ failedAt = [u \in Users |-> NoFailures]
    /\ tokens = <<>> /\ created = 0 /\ proven = <<>> /\ ended = {} /\ accepted = NoToken

(* Mutant: one failure more is let through. *)
is_locked_late(u) ==
    limits[u].failures > max_attempts /\ authNow < limits[u].window_start + lockout_window

is_locked(u) ==
    limits[u].failures >= max_attempts /\ authNow < limits[u].window_start + lockout_window

(* record_failure: a window that is over is left for a new one. *)
record_login_failure(u) ==
    /\ limits' = [limits EXCEPT ![u] =
                    IF authNow >= limits[u].window_start + lockout_window
                    THEN [failures |-> 1, window_start |-> authNow]
                    ELSE [limits[u] EXCEPT !.failures = limits[u].failures + 1]]
    /\ failedAt' = [failedAt EXCEPT ![u] = [failedAt[u] EXCEPT ![authNow] = failedAt[u][authNow] + 1]]

record_login_success(u) ==
    /\ limits' = [limits EXCEPT ![u] = [failures |-> 0, window_start |-> 0]]
    /\ failedAt' = [failedAt EXCEPT ![u] = NoFailures]

create(u, fully, what) ==
    /\ created < MaxTokens
    /\ created' = created + 1
    /\ tokens' = Assigned(tokens, created + 1,
                    [user |-> u, issued_at |-> authNow, last_activity |-> authNow,
                     absolute_expires |-> authNow + absolute_ttl, idle_expires |-> authNow + idle_ttl,
                     fully_authenticated |-> fully])
    /\ proven' = Assigned(proven, created + 1, what)

(* The counters verify_totp tries: the subtraction saturates at zero. *)
Windows == LET counter == authNow \div STEP IN
    {counter + o : o \in 0..SKEW_WINDOWS} \cup
    {IF o > counter THEN 0 ELSE counter - o : o \in 0..SKEW_WINDOWS}

verify_totp(code) == code \in Windows

(* login, by its outcome.  A locked account is refused before anything is  *)
(* hashed; that refusal is not a failure of its own. *)
login_refused(u, password, code) ==
    /\ ~is_locked(u)
    /\ ~password \/ (u \in Enrolled /\ code # -1 /\ ~verify_totp(code))
    /\ record_login_failure(u)
    /\ UNCHANGED <<authNow, tokens, created, proven, ended, accepted>>

login_provisional(u) ==
    /\ ~is_locked(u) /\ u \in Enrolled
    /\ create(u, FALSE, {"password"})
    /\ UNCHANGED <<authNow, limits, failedAt, ended, accepted>>

login_complete(u, code) ==
    /\ ~is_locked(u)
    /\ u \in Enrolled => code # -1 /\ verify_totp(code)
    /\ create(u, TRUE, IF u \in Enrolled THEN {"password", "code"} ELSE {"password"})
    /\ record_login_success(u)
    /\ UNCHANGED <<authNow, ended, accepted>>

is_live(t) == authNow < tokens[t].absolute_expires /\ authNow < tokens[t].idle_expires

Without(ts) == [t \in DOMAIN tokens \ ts |-> tokens[t]]

validate(t) ==
    /\ t \in DOMAIN tokens
    /\ IF is_live(t)
       THEN /\ tokens' = [tokens EXCEPT ![t] = [tokens[t] EXCEPT !.last_activity = authNow,
                                                                !.idle_expires = authNow + idle_ttl]]
            /\ accepted' = [token |-> t, age |-> authNow - tokens[t].issued_at,
                            pause |-> authNow - tokens[t].last_activity]
            /\ UNCHANGED ended
       ELSE tokens' = Without({t}) /\ ended' = ended \cup {t} /\ UNCHANGED accepted
    /\ UNCHANGED <<authNow, limits, failedAt, created, proven>>

End_tokens(ts) ==
    /\ ts # {} /\ tokens' = Without(ts) /\ ended' = ended \cup ts
    /\ UNCHANGED <<authNow, limits, failedAt, created, proven, accepted>>

invalidate(t) == t \in DOMAIN tokens /\ End_tokens({t})
invalidate_user(u) == End_tokens({t \in DOMAIN tokens : tokens[t].user = u})
gc_sessions == End_tokens({t \in DOMAIN tokens : ~is_live(t)})

auth_tick ==
    /\ authNow < MaxAuthTime
    /\ authNow' = authNow + 1
    /\ failedAt' = [u \in Users |-> [t \in 1..MaxAuthTime |->
                      IF t > (authNow + 1) - lockout_window THEN failedAt[u][t] ELSE 0]]
    /\ UNCHANGED <<limits, tokens, created, proven, ended, accepted>>

LoginsNext ==
    \/ \E u \in Users, p \in BOOLEAN, code \in -1..(MaxAuthTime \div STEP) : login_refused(u, p, code)
    \/ \E u \in Users : login_provisional(u) \/ invalidate_user(u)
    \/ \E u \in Users, code \in -1..(MaxAuthTime \div STEP) : login_complete(u, code)
    \/ \E t \in 1..MaxTokens : validate(t) \/ invalidate(t)
    \/ gc_sessions \/ auth_tick

(* However wrong attempts and half-finished logins are spread over time,   *)
(* no span as long as the window holds twice the allowed failures; a token *)
(* that was logged out or refused is never accepted again, an accepted one *)
(* was idle and old for less than the deadlines, and one that is fully     *)
(* authenticated was given for all the factors of its account. *)
LoginsSafe ==
    /\ \A u \in Users : SumTo(MaxAuthTime, failedAt[u]) < 2 * max_attempts
    /\ ended \cap DOMAIN tokens = {}
    /\ accepted # NoToken =>
         /\ accepted.age < absolute_ttl /\ accepted.pause < idle_ttl
         /\ accepted.token \in DOMAIN tokens \cup ended
    /\ \A t \in DOMAIN tokens : tokens[t].fully_authenticated =>
         proven[t] = (IF tokens[t].user \in Enrolled THEN {"password", "code"} ELSE {"password"})

-----------------------------------------------------------------------------
(* Alerts and the incident timeline. *)

CONSTANTS
    Conditions,     \* pairs of a subject and a kind of alert
    MaxReports,     \* bound: reports, resolutions and sweeps
    TimelineCapacity

ASSUME AlertAssumption == MaxReports \in Nat /\ TimelineCapacity \in Nat \ {0}

VARIABLES
    open,           \* condition -> alert; a partial function
    closedAlerts,   \* condition -> its closed alerts, in order; one list in the code
    reports,        \* condition -> the reports so far
    incident,       \* timestamps of the timeline, sorted
    recorded,       \* every timestamp recorded
    alertClock

alertVars == <<open, closedAlerts, reports, incident, recorded, alertClock>>

AlertsInit ==
    /\ open = <<>> /\ incident = <<>> /\ recorded = <<>> /\ alertClock = 0
    /\ closedAlerts = [c \in Conditions |-> <<>>] /\ reports = [c \in Conditions |-> 0]

Later_alert == alertClock < MaxReports /\ alertClock' = alertClock + 1

(* Mutant: a report finds the alert of its condition and only dates it. *)
fire_uncounted(c) ==
    /\ Later_alert
    /\ open' = Assigned(open, c,
                  IF c \in DOMAIN open THEN [open[c] EXCEPT !.last_fired = alertClock]
                  ELSE [first_fired |-> alertClock, last_fired |-> alertClock, occurrences |-> 1])
    /\ reports' = [reports EXCEPT ![c] = @ + 1]
    /\ UNCHANGED <<closedAlerts, incident, recorded>>

fire(c) ==
    /\ Later_alert
    /\ open' = Assigned(open, c,
                  IF c \in DOMAIN open
                  THEN [open[c] EXCEPT !.last_fired = alertClock, !.occurrences = @ + 1]
                  ELSE [first_fired |-> alertClock, last_fired |-> alertClock, occurrences |-> 1])
    /\ reports' = [reports EXCEPT ![c] = @ + 1]
    /\ UNCHANGED <<closedAlerts, incident, recorded>>

(* Closes the open alerts among cs. *)
Close(cs) ==
    LET shut == cs \cap DOMAIN open IN
    /\ open' = [c \in DOMAIN open \ shut |-> open[c]]
    /\ closedAlerts' = [c \in Conditions |->
         IF c \in shut
         THEN Append(closedAlerts[c], [first_fired |-> open[c].first_fired, occurrences |-> open[c].occurrences,
                                       resolved_at |-> alertClock])
         ELSE closedAlerts[c]]
    /\ UNCHANGED <<reports, incident, recorded>>

resolve_alert(c) == Later_alert /\ Close({c})

(* reconcile: a condition the probe cannot judge stays open. *)
reconcile(probe) == Later_alert /\ Close({c \in Conditions : probe[c] = "false"})

(* record: the first of the sorted ones goes before the new one is sorted  *)
(* in; a late report may so push out an event that is newer than itself. *)
record_incident(t) ==
    /\ Later_alert
    /\ LET pushed == Append(incident, t)
           kept == IF Len(pushed) > TimelineCapacity THEN Tail(pushed) ELSE pushed
       IN incident' = Sorted(kept)
    /\ recorded' = Append(recorded, t)
    /\ UNCHANGED <<open, closedAlerts, reports>>

immediately_before(t) ==
    LET past == {incident[i] : i \in DOMAIN incident} \cap 0..t
    IN IF past = {} THEN -1 ELSE Max(past)

open_alerts == SetToSortSeq(DOMAIN open, LAMBDA c, d : open[c].last_fired > open[d].last_fired)

AlertsNext ==
    \/ \E c \in Conditions : fire(c) \/ resolve_alert(c)
    \/ \E probe \in [Conditions -> {"true", "false", "unknown"}] : reconcile(probe)
    \/ \E t \in 0..2 : record_incident(t)

(* Every report is counted in exactly one alert, a condition has at most   *)
(* one open alert and it is of reports after its last closing; the alerts  *)
(* of a condition never overlap; the latest event of an incident is always *)
(* on the timeline however late the others are reported, and looking back  *)
(* from it finds it. *)
AlertsSound ==
    /\ \A c \in Conditions :
         LET shut == closedAlerts[c] IN
         /\ reports[c] = SumTo(Len(shut), [i \in 1..Len(shut) |-> shut[i].occurrences])
                         + (IF c \in DOMAIN open THEN open[c].occurrences ELSE 0)
         /\ \A i \in 1..(Len(shut) - 1) : shut[i].resolved_at < shut[i + 1].first_fired
         /\ c \in DOMAIN open /\ shut # <<>> => shut[Len(shut)].resolved_at < open[c].first_fired
    /\ recorded # <<>> =>
         LET latest == Max({recorded[i] : i \in DOMAIN recorded}) IN
         /\ TimelineCapacity > 1 => incident[Len(incident)] = latest
         /\ \A i \in 1..(Len(incident) - 1) : incident[i] <= incident[i + 1]
         /\ Len(incident) = Min({Len(recorded), TimelineCapacity})
         /\ TimelineCapacity > 1 => immediately_before(latest) = latest

-----------------------------------------------------------------------------
(* Administrative actions. *)

CONSTANTS
    Admins, Players,
    AuditCapacity,
    MaxActions          \* bound: actions and changes of rights

ASSUME ActionAssumption == AuditCapacity \in Nat \ {0} /\ MaxActions \in Nat

VARIABLES
    rights,         \* admin -> permissions it holds now
    onlinePlayers,
    bans,           \* the ban records, in order
    auditLog,       \* the last AuditCapacity entries
    happened,       \* every action that was applied or denied
    bannedUntil,    \* player -> the end of the longest ban it was given
    actionClock

actionVars == <<rights, onlinePlayers, bans, auditLog, happened, bannedUntil, actionClock>>

Forever == MaxActions + 1

Permissions == {"message", "warn", "kick", "ban"}

ActionsInit ==
    /\ rights = [a \in Admins |-> {}] /\ onlinePlayers = {} /\ bans = <<>>
    /\ auditLog = <<>> /\ happened = <<>> /\ actionClock = 0
    /\ bannedUntil = [p \in Players |-> 0]

Later_action == actionClock < MaxActions /\ actionClock' = actionClock + 1

Entry(actor, action, target, success) ==
    [actor |-> actor, action |-> action, target |-> target, success |-> success]

(* AuditLog::record. *)
record_audit(e) ==
    /\ auditLog' = Append(IF Len(auditLog) >= AuditCapacity THEN Tail(auditLog) ELSE auditLog, e)
    /\ happened' = Append(happened, e)

(* action_for, and the action an applied one is recorded as. *)
action_for(permission) ==
    CASE permission = "kick" -> "Kick" [] permission = "ban" -> "Ban" [] OTHER -> "PermissionChange"

Applied_as(permission) == IF permission = "message" THEN "ConsoleCommand" ELSE action_for(permission)

(* authorize refuses: the refusal is on record. *)
deny(actor, permission, target) ==
    /\ Later_action /\ permission \notin rights[actor]
    /\ record_audit(Entry(actor, action_for(permission), target, FALSE))
    /\ UNCHANGED <<rights, onlinePlayers, bans, bannedUntil>>

(* message, warn and kick: an absent target ends them without a record. *)
act_online(actor, permission, target) ==
    /\ Later_action /\ permission \in rights[actor]
    /\ IF target \in onlinePlayers
       THEN record_audit(Entry(actor, Applied_as(permission), target, TRUE))
       ELSE UNCHANGED <<auditLog, happened>>
    /\ UNCHANGED <<rights, onlinePlayers, bans, bannedUntil>>

ban(actor, target, expires_at) ==
    /\ Later_action /\ "ban" \in rights[actor]
    /\ bans' = Append(bans, [player |-> target, expires_at |-> expires_at, banned_by |-> actor])
    /\ bannedUntil' = [bannedUntil EXCEPT ![target] = Max({@, expires_at})]
    /\ record_audit(Entry(actor, "Ban", target, TRUE))
    /\ UNCHANGED <<rights, onlinePlayers>>

(* is_banned: Permanent is the end that never comes. *)
is_banned(p) == \E i \in DOMAIN bans : bans[i].player = p /\ actionClock < bans[i].expires_at

change_rights(actor, permission, given) ==
    /\ Later_action
    /\ rights' = [rights EXCEPT ![actor] = IF given THEN @ \cup {permission} ELSE @ \ {permission}]
    /\ UNCHANGED <<onlinePlayers, bans, auditLog, happened, bannedUntil>>

come_and_go(p) ==
    /\ Later_action
    /\ onlinePlayers' = SymDiff(onlinePlayers, {p})
    /\ UNCHANGED <<rights, bans, auditLog, happened, bannedUntil>>

ActionsNext ==
    \/ \E a \in Admins, p \in Players, permission \in Permissions :
         \/ deny(a, permission, p)
         \/ permission # "ban" /\ act_online(a, permission, p)
    \/ \E a \in Admins, p \in Players, e \in {2, Forever} : ban(a, p, e)
    \/ \E a \in Admins, permission \in Permissions, g \in BOOLEAN : change_rights(a, permission, g)
    \/ \E p \in Players : come_and_go(p)

(* The log is the tail of what was applied and denied, whatever rights     *)
(* came and went in between; a player is banned exactly while the longest  *)
(* of the bans lasts, and every ban is one that was put on record. *)
ActionsAudited ==
    /\ NewestOf(auditLog, happened, AuditCapacity)
    /\ \A p \in Players : is_banned(p) <=> actionClock < bannedUntil[p]
    /\ Len(bans) = Cardinality({i \in DOMAIN happened : happened[i].action = "Ban" /\ happened[i].success})

-----------------------------------------------------------------------------
(* The profiler. *)

CONSTANTS
    Durations,          \* times of an execution
    SlowThreshold,
    SAMPLE_WINDOW,
    MaxSamples          \* bound: executions

ASSUME ProfilerAssumption == Durations \subseteq Nat /\ SAMPLE_WINDOW \in Nat \ {0} /\ MaxSamples \in Nat

VARIABLES samples, slow, executions

profilerVars == <<samples, slow, executions>>

ProfilerInit == samples = <<>> /\ slow = 0 /\ executions = <<>>

observe(micros) ==
    /\ Len(executions) < MaxSamples
    /\ samples' = Append(IF Len(samples) >= SAMPLE_WINDOW THEN Tail(samples) ELSE samples, micros)
    /\ slow' = IF micros > SlowThreshold THEN slow + 1 ELSE slow
    /\ executions' = Append(executions, micros)

(* The zero-based nearest rank: ceil(pct / 100 * n) - 1, kept within. *)
Rank(pct, n) == Min({n - 1, Max({0, ((pct * n + 99) \div 100) - 1})})

percentile(pct) == Sorted(samples)[Rank(pct, Len(samples)) + 1]

ProfilerNext == \E d \in Durations : observe(d)

(* A percentile is the least measured value that covers that share of the  *)
(* newest executions; the three are in order and the last one is the       *)
(* largest. *)
PercentilesExact ==
    /\ NewestOf(samples, executions, SAMPLE_WINDOW)
    /\ slow = Cardinality({i \in DOMAIN executions : executions[i] > SlowThreshold})
    /\ samples # <<>> => \A pct \in {50, 95, 99} :
         LET Covers(v) == 100 * Cardinality({i \in DOMAIN samples : samples[i] <= v}) >= pct * Len(samples)
         IN percentile(pct) = Min({v \in {samples[i] : i \in DOMAIN samples} : Covers(v)})

(* The Aegis backend: attempts, lockout and sessions keep their limits     *)
(* however they are spread over time, each report is counted in one alert, *)
(* the audit log is the newest of all administrative actions, and          *)
(* percentiles are those of the newest samples.                            *)
AegisSound == LoginsSafe /\ AlertsSound /\ ActionsAudited /\ PercentilesExact
=============================================================================
