------------------------------- MODULE Defence -------------------------------
(***************************************************************************)
(* What stands between the network and the server: rate limits, address    *)
(* ranges and trusted proxies, fragments, the event firewall, checks of    *)
(* what a client reports, entitlements of packages, redaction of logs,     *)
(* metrics and the crash-loop detector.  The machines share no state.      *)
(***************************************************************************)
EXTENDS Integers, SequencesExt, Bitwise

-----------------------------------------------------------------------------
(* The token bucket of RateLimiter and of DdosRateLimiter, in units of     *)
(* 1/Unit token: the fractions of the code's floating point. *)

CONSTANTS
    Unit,               \* units of a token
    Burst,              \* capacity, in tokens
    RefillPerTick,      \* units a tick adds
    MaxBucketTime       \* bound: the clock of the buckets

ASSUME BucketAssumption ==
    /\ {Unit, Burst, RefillPerTick} \subseteq Nat \ {0} /\ MaxBucketTime \in Nat

VARIABLES bucketNow, level, refilledAt, allowedAt, ingress

bucketVars == <<bucketNow, level, refilledAt, allowedAt, ingress>>

BucketInit == bucketNow = 0 /\ level = Burst * Unit /\ refilledAt = 0 /\ allowedAt = <<>> /\ ingress = <<>>

(* Mutant: a long pause saves up more than the burst. *)
Refilled_uncapped == level + (bucketNow - refilledAt) * RefillPerTick

Refilled == Min({Burst * Unit, level + (bucketNow - refilledAt) * RefillPerTick})

try_consume ==
    /\ refilledAt' = bucketNow
    /\ IF Refilled >= Unit
       THEN level' = Refilled - Unit /\ allowedAt' = Append(allowedAt, bucketNow)
       ELSE level' = Refilled /\ UNCHANGED allowedAt
    /\ UNCHANGED bucketNow

ClientChannels == {"Control", "Auth", "EventReliable", "EventUnreliable", "Heartbeat", "ResourceTransfer"}

channel_allowed_client(channel) == channel \in ClientChannels

(* Mutant: the state of the peer is looked at only where it has one. *)
session_admits_any(channel, state) == state \notin {"Rejected", "Failed"}

(* Unknown peers may only knock, and those turned away are dropped. *)
session_admits(channel, state) ==
    IF state = "unknown" THEN channel = "Auth" ELSE state \notin {"Rejected", "Failed"}

(* The gate every packet of a peer passes: its bucket, which a packet      *)
(* refused later has paid for as well, the channels of clients, and the    *)
(* state of its session (kept by Admission, any state here). *)
admit_packet(channel, state) ==
    /\ try_consume
    /\ ingress' = [channel |-> channel, state |-> state,
                   admitted |-> Refilled >= Unit /\ channel_allowed_client(channel) /\ session_admits(channel, state)]

bucket_tick ==
    bucketNow < MaxBucketTime /\ bucketNow' = bucketNow + 1 /\ UNCHANGED <<level, refilledAt, allowedAt, ingress>>

BucketNext ==
    \/ \E channel \in {"Auth", "Admin", "EventReliable"}, state \in {"unknown", "WaitingAuth", "Ready", "Rejected"} :
         admit_packet(channel, state)
    \/ bucket_tick

(* In any span of time at most the burst and what the span refills gets    *)
(* through, wherever the span begins. *)
RateHolds ==
    \A i, j \in DOMAIN allowedAt : i <= j =>
        (j - i + 1) * Unit <= Burst * Unit + (allowedAt[j] - allowedAt[i]) * RefillPerTick

(* What is admitted was paid for at that instant and came on a channel of  *)
(* clients; of a peer the server does not know only a knock gets in, of    *)
(* one it rejected nothing. *)
GateHolds ==
    ingress # <<>> /\ ingress.admitted =>
        /\ allowedAt # <<>> /\ Last(allowedAt) = refilledAt
        /\ ingress.channel \notin {"Admin", "VoiceMetadata"} /\ ingress.state # "Rejected"
        /\ ingress.state = "unknown" => ingress.channel = "Auth"

-----------------------------------------------------------------------------
(* Address ranges: V4 of four bits, V6 of three groups of two bits, of     *)
(* which those with the first group 3 are mapped V4 addresses. *)

VARIABLES peer, netblock, forwarded, clientIp

addressVars == <<peer, netblock, forwarded, clientIp>>

Address == [v4 : {TRUE}, n : 0..15] \cup [v4 : {FALSE}, n : 0..63]

(* to_ipv4_mapped of the code's library. *)
canonicalize(ip) == IF ~ip.v4 /\ ip.n \div 16 = 3 THEN [v4 |-> TRUE, n |-> ip.n % 16] ELSE ip

(* The complement of the largest number shifted right by the prefix. *)
in_range_v4(a, b, prefix) ==
    LET mask == IF prefix >= 4 THEN 15 ELSE 15 - (15 \div 2^prefix)
    IN prefix = 0 \/ (a & mask) = (b & mask)

(* Group by group, while bits are left. *)
in_range_v6(a, b, prefix) ==
    \A i \in 0..2 :
        LET bits == prefix - 2 * i
            take == Min({bits, 2})
            mask == IF take = 2 THEN 3 ELSE (3 * 2^(2 - take)) % 4
            Octet(x) == (x \div 4^(2 - i)) % 4
        IN bits > 0 => (Octet(a) & mask) = (Octet(b) & mask)

contains(cidr, ip) ==
    /\ cidr.base.v4 = ip.v4
    /\ IF ip.v4 THEN in_range_v4(ip.n, cidr.base.n, cidr.prefix) ELSE in_range_v6(ip.n, cidr.base.n, cidr.prefix)

(* resolve_client_ip: the first hop of the header, in canonical form, if   *)
(* it parses.  The observed address is compared as it is. *)
resolve_client_ip(observed, fwd, cidr) ==
    IF contains(cidr, observed) /\ fwd \in Address THEN canonicalize(fwd) ELSE observed

AddressInit ==
    /\ peer = [v4 |-> TRUE, n |-> 0] /\ forwarded = [kind |-> "unused"] /\ clientIp = peer
    /\ netblock = [base |-> [v4 |-> TRUE, n |-> 0], prefix |-> 4]

(* A peer connects behind one configured range, with or without a header. *)
connect(ip, base, prefix, fwd) ==
    /\ prefix <= (IF base.v4 THEN 4 ELSE 6)
    /\ peer' = ip /\ netblock' = [base |-> base, prefix |-> prefix] /\ forwarded' = fwd
    /\ clientIp' = resolve_client_ip(ip, fwd, netblock')

(* Peers next to both ends of every range: all the peers of one base. *)
AddressNext ==
    /\ forwarded = [kind |-> "unused"]
    /\ \E ip \in Address, n \in {0, 5, 10, 15, 27, 48, 63}, v4 \in BOOLEAN, prefix \in 0..6,
          fwd \in {[kind |-> "none"], [kind |-> "garbage"], [v4 |-> FALSE, n |-> 50], [v4 |-> TRUE, n |-> 7]} :
         /\ v4 => n < 16
         /\ connect(ip, [v4 |-> v4, n |-> n], prefix, fwd)

(* A range holds exactly the addresses of its family that agree in the     *)
(* first bits; a header is believed only of a peer in a trusted range, and *)
(* then never gives an address in two forms. *)
AddressesExact ==
    LET width == IF peer.v4 THEN 4 ELSE 6
        agree == /\ peer.v4 = netblock.base.v4
                 /\ peer.n \div 2^(width - netblock.prefix) = netblock.base.n \div 2^(width - netblock.prefix)
    IN /\ contains(netblock, peer) <=> agree
       /\ clientIp # peer => agree /\ forwarded \in Address /\ clientIp = canonicalize(clientIp)

-----------------------------------------------------------------------------
(* Fragments of a payload. *)

CONSTANT MaxPayload     \* bound: length of a payload

ASSUME FragmentAssumption == MaxPayload \in Nat

VARIABLES payload, fragments, chunkSize

fragmentVars == <<payload, fragments, chunkSize>>

FragmentInit == payload = <<>> /\ fragments = <<>> /\ chunkSize = 0

(* An empty payload is one empty fragment; a chunk of 0 counts as 1. *)
fragment(data, chunk) ==
    LET size == Max({1, chunk})
        count == (Len(data) + size - 1) \div size
    IN IF data = <<>> THEN << <<>> >>
       ELSE [i \in 1..count |-> SubSeq(data, (i - 1) * size + 1, Min({i * size, Len(data)}))]

send_fragments(n, chunk) ==
    /\ payload' = [i \in 1..n |-> i] /\ chunkSize' = chunk
    /\ fragments' = fragment(payload', chunk)

FragmentNext == \E n \in 0..MaxPayload, chunk \in 0..(MaxPayload + 1) : send_fragments(n, chunk)

(* Put together in order the fragments are the payload; none is larger     *)
(* than asked for and only the last may be smaller. *)
FragmentsExact ==
    fragments # <<>> =>
        /\ FlattenSeq(fragments) = payload
        /\ \A i \in DOMAIN fragments :
             /\ Len(fragments[i]) <= Max({1, chunkSize})
             /\ i < Len(fragments) => Len(fragments[i]) = Max({1, chunkSize})

-----------------------------------------------------------------------------
(* The declarations of network events.  No code of the repository outside  *)
(* the tests calls EventFirewall::check or register: a caller may do so in *)
(* any order. *)

VARIABLES rules, verdicts

firewallVars == <<rules, verdicts>>

FirewallInit == rules = <<>> /\ verdicts = <<>>

(* register: the last rule of a name counts. *)
register_rule(event, rule) == rules' = (event :> rule) @@ rules /\ UNCHANGED verdicts

(* The rate of the rule is never looked at. *)
check_event(p) ==
    IF p.event \notin DOMAIN rules THEN "DenyUnknownEvent"
    ELSE LET rule == rules[p.event] IN
         CASE rule.direction # "Both" /\ rule.direction # p.direction -> "DenyDirection"
           [] p.size > rule.max_size -> "DenyOversized"
           [] rule.permission # "none" /\ p.permission # rule.permission -> "DenyPermission"
           [] OTHER -> "Allow"

ask_firewall(p) == verdicts' = [packet |-> p, under |-> rules, verdict |-> check_event(p)] /\ UNCHANGED rules

EventPacket ==
    [event : {"buy", "chat"}, direction : {"ClientToServer", "ServerToClient"}, size : {1, 2}, permission : {"none", "shop"}]

FirewallNext ==
    \/ \E d \in {"ClientToServer", "ServerToClient", "Both"}, s \in {1, 2}, perm \in {"none", "shop"} :
         register_rule("buy", [direction |-> d, max_size |-> s, permission |-> perm])
    \/ \E p \in EventPacket : ask_firewall(p)

(* An event is allowed only as it was declared last: in its direction,     *)
(* with its size and its permission; how often is never asked. *)
FirewallHolds ==
    verdicts # <<>> /\ verdicts.verdict = "Allow" =>
        /\ verdicts.packet.event \in DOMAIN verdicts.under
        /\ LET rule == verdicts.under[verdicts.packet.event] IN
           /\ rule.direction \in {"Both", verdicts.packet.direction} /\ verdicts.packet.size <= rule.max_size
           /\ rule.permission \in {"none", verdicts.packet.permission}

-----------------------------------------------------------------------------
(* Checks of reported positions and health.  Positions are points of a     *)
(* line, times are in seconds, and the slack of five metres is Slack. *)

CONSTANTS MaxSpeed, Slack, WorldEdge, MaxReported    \* bound: reports of a client

ASSUME InspectionAssumption == {MaxSpeed, Slack, WorldEdge, MaxReported} \subseteq Nat

VARIABLES position, reportedCount, travelled, elapsed, instant, health, ceiling

inspectionVars == <<position, reportedCount, travelled, elapsed, instant, health, ceiling>>

InspectionInit ==
    /\ position = 0 /\ reportedCount = 0 /\ travelled = 0 /\ elapsed = 0 /\ instant = 0
    /\ health = 1 /\ ceiling = 1

Distance(x, y) == Max({x - y, y - x})

(* Twice the distance, to keep the factor 1.5 whole.  A report of the same *)
(* time, or of an earlier one, passes whatever it says. *)
verify_movement(x, y, dt) == dt = 0 \/ 2 * Distance(x, y) <= 3 * MaxSpeed * dt + 2 * Slack

verify_world_bounds(x) == x \in -WorldEdge..WorldEdge

move(x, dt) ==
    /\ reportedCount < MaxReported
    /\ verify_movement(position, x, dt) /\ verify_world_bounds(x)
    /\ travelled' = travelled + (IF dt = 0 THEN 0 ELSE Distance(x, position))
    /\ instant' = instant + (IF dt = 0 THEN Distance(x, position) ELSE 0)
    /\ position' = x /\ elapsed' = elapsed + dt /\ reportedCount' = reportedCount + 1
    /\ UNCHANGED <<health, ceiling>>

verify_health_update(incoming, granted) == incoming <= health \/ granted

report_health(incoming, granted) ==
    /\ reportedCount < MaxReported /\ reportedCount' = reportedCount + 1
    /\ verify_health_update(incoming, granted)
    /\ health' = incoming
    /\ ceiling' = IF granted THEN Max({ceiling, incoming}) ELSE ceiling
    /\ UNCHANGED <<position, travelled, elapsed, instant>>

InspectionNext ==
    \/ \E x \in -(WorldEdge + 1)..(WorldEdge + 1), dt \in 0..2 : move(x, dt)
    \/ \E h \in 0..2, granted \in BOOLEAN : report_health(h, granted)

(* Over any sequence of accepted reports the way of those with some time   *)
(* in between stays within the speed, plus the slack once per report;      *)
(* nobody leaves the world, and health never exceeds what was granted. *)
InspectionSound ==
    /\ 2 * travelled <= 3 * MaxSpeed * elapsed + 2 * Slack * reportedCount
    /\ position \in -WorldEdge..WorldEdge /\ health <= ceiling

-----------------------------------------------------------------------------
(* Entitlements of one package, for several servers. *)

CONSTANTS Servers, MaxGrantTime     \* bound: the clock of the grants

ASSUME GrantAssumption == MaxGrantTime \in Nat

VARIABLES package, grants, everRevoked, grantNow

grantVars == <<package, grants, everRevoked, grantNow>>

NoExpiry == MaxGrantTime + 1

GrantsInit ==
    /\ package = <<>> /\ grantNow = 0 /\ grants = <<>>
    /\ everRevoked = [s \in Servers |-> FALSE]

register_package(model, policy, requires) ==
    /\ package' = [model |-> model, policy |-> policy, requires_entitlement |-> requires]
    /\ UNCHANGED <<grants, everRevoked, grantNow>>

grant(s, expires_at) ==
    /\ grants' = (s :> expires_at) @@ grants
    /\ everRevoked' = [everRevoked EXCEPT ![s] = FALSE]
    /\ UNCHANGED <<package, grantNow>>

revoke(s) ==
    /\ grants' = [t \in DOMAIN grants \ {s} |-> grants[t]]
    /\ everRevoked' = [everRevoked EXCEPT ![s] = TRUE]
    /\ UNCHANGED <<package, grantNow>>

check_entitlement(s, signature_ok) ==
    IF package = <<>> THEN "Unknown"
    ELSE IF package.model = "Free" /\ ~package.requires_entitlement
    THEN IF package.policy = "Signed" /\ ~signature_ok THEN "NotAuthorized" ELSE "Free"
    ELSE IF s \notin DOMAIN grants THEN "NotAuthorized"
    ELSE IF grantNow >= grants[s] /\ grants[s] # NoExpiry THEN "Expired"
    ELSE IF package.policy \in {"Signed", "Protected"} /\ ~signature_ok THEN "NotAuthorized"
    ELSE "Authorized"

grant_tick == grantNow < MaxGrantTime /\ grantNow' = grantNow + 1 /\ UNCHANGED <<package, grants, everRevoked>>

GrantsNext ==
    \/ \E m \in {"Free", "Paid"}, p \in {"Open", "Signed", "Protected", "Private"}, r \in BOOLEAN : register_package(m, p, r)
    \/ \E s \in Servers : revoke(s) \/ \E e \in {1, 2, NoExpiry} : grant(s, e)
    \/ grant_tick

(* A package that is not free runs on a server only while its grant lasts, *)
(* never after it was taken back, and signed ones only with their          *)
(* signature; what was once free stops being so when it is registered      *)
(* anew. *)
EntitlementsHold ==
    \A s \in Servers, ok \in BOOLEAN :
        LET answer == check_entitlement(s, ok) IN
        /\ answer = "Authorized" => ~everRevoked[s] /\ s \in DOMAIN grants /\ grantNow < grants[s]
        /\ answer = "Free" => package.model = "Free" /\ ~package.requires_entitlement
        /\ answer \in {"Authorized", "Free"} /\ ~ok => package.policy \notin {"Signed"}

-----------------------------------------------------------------------------
(* Redaction of a log line: a sequence of fields in two forms of quoting.  *)

VARIABLES logLine, printed

redactVars == <<logLine, printed>>

RedactInit == logLine = <<>> /\ printed = <<>>

(* The patterns, in order, and the keys whose text contains them.  Three   *)
(* stand for the eight of the code. *)
Patterns == <<"password", "db_password", "secret">>
Found_in(pattern) == IF pattern = "password" THEN {"password", "db_password"} ELSE {pattern}

(* The first field that a pattern is found in, in one form, is redacted. *)
Redact_once(line, pattern, form) ==
    LET hits == {i \in DOMAIN line : line[i].key \in Found_in(pattern) /\ line[i].form = form}
    IN IF hits = {} THEN line ELSE [line EXCEPT ![Min(hits)].value = "***"]

redact(line) ==
    FoldLeft(LAMBDA l, pattern : Redact_once(Redact_once(l, pattern, "="), pattern, ":"), line, Patterns)

write_log(line) == logLine' = line /\ printed' = redact(line)

LogField == [key : {"password", "db_password", "user"}, form : {"=", ":"}, value : {"v"}]

RedactNext == \E n \in 0..3 : \E line \in [1..n -> LogField] : write_log(line)

Secret_fields == {i \in DOMAIN printed : printed[i].key # "user"}

(* Only secrets are redacted, and a line with one secret of each form has  *)
(* none left.  (With "db_password" before "password", in one form, the     *)
(* second stays readable.) *)
RedactionSound ==
    /\ Len(printed) = Len(logLine)
    /\ \A i \in DOMAIN printed : printed[i].key = "user" => printed[i] = logLine[i]
    /\ (\A i, j \in Secret_fields : i # j => printed[i].form # printed[j].form)
         => \A i \in Secret_fields : printed[i].value = "***"

(* "Replace known secret key occurrences in a log line." *)
NothingReadable == \A i \in Secret_fields : printed[i].value = "***"

-----------------------------------------------------------------------------
(* Metrics: timings with a bounded history, and counters under consent. *)

CONSTANTS
    HistoryMax,         \* 1024 in the code
    HistoryDrop,        \* 512 in the code
    MaxTimings          \* bound: timings recorded

ASSUME MetricAssumption ==
    /\ {HistoryMax, HistoryDrop, MaxTimings} \subseteq Nat /\ 0 < HistoryDrop /\ HistoryDrop <= HistoryMax

VARIABLES timings, timed, consent, counter, consented

metricVars == <<timings, timed, consent, counter, consented>>

MetricsInit == timings = <<>> /\ timed = <<>> /\ consent = {} /\ counter = 0 /\ consented = 0

record_timing(micros) ==
    /\ Len(timed) < MaxTimings
    /\ LET pushed == Append(timings, micros)
       IN timings' = IF Len(pushed) > HistoryMax THEN SubSeq(pushed, HistoryDrop + 1, Len(pushed)) ELSE pushed
    /\ timed' = Append(timed, micros)
    /\ UNCHANGED <<consent, counter, consented>>

(* The rank pct/100 * (n - 1), rounded to the nearest. *)
timing_percentile(pct) ==
    IF timings = <<>> THEN 0 ELSE SortSeq(timings, <)[((pct * (Len(timings) - 1) + 50) \div 100) + 1]

change_consent(categories) == consent' = categories /\ UNCHANGED <<timings, timed, counter, consented>>

allows(category) == category \in consent

incr_with_consent ==
    /\ counter < 2
    /\ counter' = counter + (IF allows("PerformanceMetrics") THEN 1 ELSE 0)
    /\ consented' = consented + (IF "PerformanceMetrics" \in consent THEN 1 ELSE 0)
    /\ UNCHANGED <<timings, timed, consent>>

MetricsNext ==
    \/ \E d \in 0..2 : record_timing(d)
    \/ \E c \in SUBSET {"PerformanceMetrics", "CrashReporting"} : timed = <<>> /\ change_consent(c)
    \/ timed = <<>> /\ incr_with_consent

(* The history is the newest part of what was timed, never longer than its *)
(* bound and, once full, never shorter than what a drop leaves; the        *)
(* percentiles grow with the share, from the least to the largest. *)
MetricsSound ==
    /\ Len(timings) <= HistoryMax
    /\ timings = SubSeq(timed, Len(timed) - Len(timings) + 1, Len(timed))
    /\ Len(timings) >= Min({Len(timed), HistoryMax + 1 - HistoryDrop})
    /\ timings # <<>> =>
         /\ timing_percentile(0) = Min({timings[i] : i \in DOMAIN timings})
         /\ timing_percentile(100) = Max({timings[i] : i \in DOMAIN timings})
         /\ \A p \in {0, 50, 95} : timing_percentile(p) <= timing_percentile(p + 5)
    /\ counter = consented

-----------------------------------------------------------------------------
(* Crash reports: symbols of a build, and the crash-loop detector. *)

CONSTANTS CrashThreshold, CrashWindow, Builds, Suspects, MaxCrashTime     \* bound: crashes

ASSUME CrashAssumption == {CrashThreshold, CrashWindow, MaxCrashTime} \subseteq Nat

VARIABLES tables, crashHistory, allCrashes, crashNow

crashVars == <<tables, crashHistory, allCrashes, crashNow>>

CrashesInit == tables = {} /\ crashHistory = <<>> /\ allCrashes = <<>> /\ crashNow = 0

register_table(b) == tables' = tables \cup {b} /\ UNCHANGED <<crashHistory, allCrashes, crashNow>>

(* symbolicate: every frame stays, named or not; without the table of the  *)
(* build there is no report. *)
symbolicate(dump) == IF dump.build \in tables THEN [dump |-> dump, frames |-> 2] ELSE "BuildNotFound"

record_crash(dump, later) ==
    /\ Len(allCrashes) < MaxCrashTime /\ crashNow' = crashNow + later
    /\ LET entry == [at |-> crashNow', suspect |-> dump.suspect]
           cutoff == Max({0, crashNow' - CrashWindow})
       IN /\ crashHistory' = SelectSeq(Append(crashHistory, entry), LAMBDA c : c.at >= cutoff)
          /\ allCrashes' = Append(allCrashes, entry)
    /\ UNCHANGED tables

Count_of(s, crashes) == Len(SelectSeq(crashes, LAMBDA c : c.suspect = s))

(* evaluate: the resources behind more than half the threshold. *)
evaluate_crashes ==
    IF Len(crashHistory) < CrashThreshold THEN [active |-> FALSE, culprits |-> {}]
    ELSE [active |-> TRUE, culprits |-> {s \in Suspects : Count_of(s, crashHistory) > CrashThreshold \div 2}]

CrashesNext ==
    \/ \E b \in Builds : b \notin tables /\ register_table(b)
    \/ \E b \in Builds, s \in Suspects \cup {"none"}, later \in 0..2 : record_crash([build |-> b, suspect |-> s], later)

(* Safe mode is called for exactly when the threshold falls into one       *)
(* window that ends at the last crash, and names exactly the resources     *)
(* that crashed more than half the threshold in it. *)
SafeModeExact ==
    LET recent == SelectSeq(allCrashes, LAMBDA c : c.at >= Last(allCrashes).at - CrashWindow)
    IN allCrashes # <<>> =>
        /\ evaluate_crashes.active <=> Len(recent) >= CrashThreshold
        /\ evaluate_crashes.active =>
             \A s \in Suspects : s \in evaluate_crashes.culprits <=> 2 * Count_of(s, recent) > CrashThreshold - (CrashThreshold % 2)

(* What stands before the server holds over any sequence of calls: rate    *)
(* limits in every span of time and the gate behind them, address ranges   *)
(* and trusted proxies, fragments, the verdicts of the event firewall, the *)
(* checks of movement and health, entitlements, redaction, metrics and the *)
(* crash-loop window. *)
DefenceSound ==
    /\ RateHolds /\ GateHolds /\ AddressesExact /\ FragmentsExact /\ FirewallHolds /\ InspectionSound
    /\ EntitlementsHold /\ RedactionSound /\ MetricsSound /\ SafeModeExact
=============================================================================
