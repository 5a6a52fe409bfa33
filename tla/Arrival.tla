------------------------------- MODULE Arrival -------------------------------
(***************************************************************************)
(* The way into the game around the wire protocol: the client's join       *)
(* driver, the gates of a deferral session, the negotiation of protocol    *)
(* and features, and the simulated cluster that load tests a server.  The  *)
(* machines joiner, deferral, negotiation and cluster share no state.      *)
(***************************************************************************)
EXTENDS Integers, SequencesExt

CONSTANTS
    StallBudget,    \* ticks without an event before a phase reads stalled
    MaxBytes,       \* bound: bytes a manifest announces
    Gates,          \* gates of a deferral session
    MaxPolls,       \* max_polls of a session, clamped to 1
    MaxProtocol,    \* bound: wire versions
    Features,       \* names of features and capabilities
    MaxVersion,     \* bound: versions of a feature; 0 is "not offered"
    Clients,        \* simulated clients: 1..n
    QueueDepth,     \* queue_depth
    Resources,      \* manifest_resource_count
    RetryTicks      \* ticks a disconnected client waits: 5

ASSUME ArrivalAssumption ==
    /\ {MaxBytes, Gates, MaxProtocol, MaxVersion, Clients, QueueDepth, Resources} \subseteq Nat
    /\ {StallBudget, MaxPolls, RetryTicks} \subseteq Nat \ {0}

-----------------------------------------------------------------------------
(* The join driver. *)

VARIABLES
    phase,          \* JoinPhase without its texts
    received, total,\* bytes of Downloading
    silent,         \* ticks since the last event that was applied, up to StallBudget + 1
    trail           \* milestones that were applied (history)

joinerVars == <<phase, received, total, silent, trail>>

JoinerInit == phase = "Handshake" /\ received = 0 /\ total = 0 /\ silent = 0 /\ trail = <<>>

terminal == phase \in {"Ready", "Failed"}

(* ServerEvent: the texts and the numbers nobody checks are left out. *)
ServerEvent ==
    {[kind |-> k, n |-> 0] : k \in {"DeferralUpdate", "DeferralDone", "QueuePosition", "QueueAdmitted",
        "DownloadComplete", "ResidencyPending", "ResidencyReady", "Rejected", "Kicked"}}
    \cup {[kind |-> k, n |-> n] : k \in {"Manifest", "ChunkArrived"}, n \in 0..MaxBytes}

(* Where an event leads from a phase; <<p, e, p>> keeps the phase. *)
Steps ==
    {<<"Handshake", "DeferralUpdate", "Deferrals">>, <<"Handshake", "DeferralDone", "Deferrals">>,
     <<"Handshake", "QueuePosition", "Queued">>, <<"Deferrals", "DeferralUpdate", "Deferrals">>,
     <<"Deferrals", "DeferralDone", "Deferrals">>, <<"Deferrals", "QueuePosition", "Queued">>,
     <<"Queued", "QueuePosition", "Queued">>, <<"Queued", "QueueAdmitted", "Downloading">>,
     <<"Downloading", "Manifest", "Downloading">>, <<"Downloading", "ChunkArrived", "Downloading">>,
     <<"Downloading", "DownloadComplete", "Residency">>,
     <<"Residency", "ResidencyPending", "Residency">>, <<"Residency", "ResidencyReady", "Ready">>}
    \cup {<<p, e, "Failed">> : p \in {"Handshake", "Deferrals", "Queued", "Downloading", "Residency"},
                               e \in {"Rejected", "Kicked"}}

(* Mutant: the driver believes a download is complete before it was let in. *)
Fits_early(event, next) ==
    <<phase, event.kind, next>> \in Steps \/ (phase = "Queued" /\ event.kind = "DownloadComplete" /\ next = "Residency")

(* A chunk count above a known total is out of order too. *)
Fits(event, next) ==
    /\ <<phase, event.kind, next>> \in Steps
    /\ event.kind = "ChunkArrived" => event.n <= total \/ total = 0

Milestones == <<"QueueAdmitted", "DownloadComplete", "ResidencyReady">>

apply(event) ==
    /\ ~terminal
    /\ \E next \in {s[3] : s \in Steps} :
         /\ Fits(event, next)
         /\ phase' = next
    /\ received' = CASE event.kind = "ChunkArrived" -> event.n [] event.kind = "QueueAdmitted" -> 0 [] OTHER -> received
    /\ total' = CASE event.kind = "Manifest" -> event.n [] event.kind = "QueueAdmitted" -> 0 [] OTHER -> total
    /\ silent' = 0
    /\ trail' = IF event.kind \in ToSet(Milestones) THEN Append(trail, event.kind) ELSE trail

cancel == ~terminal /\ phase' = "Failed" /\ UNCHANGED <<received, total, silent, trail>>

tick_joiner == silent' = Min({silent + 1, StallBudget + 1}) /\ UNCHANGED <<phase, received, total, trail>>

check_stall == ~terminal /\ silent > StallBudget

JoinerNext == (\E event \in ServerEvent : apply(event)) \/ cancel \/ tick_joiner

(* A join that is ready went through admission, download and residency,    *)
(* each once and in this order, and one that waits in a phase has done     *)
(* exactly what comes before it, whatever messages the server sends or     *)
(* repeats; a finished join neither moves nor reads as stalled. *)
JoinInOrder ==
    /\ phase # "Failed" =>
         trail = SubSeq(Milestones, 1, CASE phase = "Ready" -> 3 [] phase = "Residency" -> 2
                                         [] phase = "Downloading" -> 1 [] OTHER -> 0)
    /\ IsPrefix(trail, Milestones)
    /\ terminal => ~check_stall

-----------------------------------------------------------------------------
(* A deferral session.  Gates decide by what is known when they are asked. *)

VARIABLES
    current,        \* gates passed
    polls,
    outcome,        \* of the last poll
    passedGates     \* gates in the order they passed (history)

deferralVars == <<current, polls, outcome, passedGates>>

DeferralInit == current = 0 /\ polls = 0 /\ outcome = "None" /\ passedGates = <<>>

WatchdogFires(p) == p > MaxPolls

(* poll: n more gates pass, then one waits or denies or there is none. *)
poll_deferral(n, decision) ==
    /\ polls <= MaxPolls
    /\ polls' = polls + 1
    /\ IF WatchdogFires(polls + 1)
       THEN outcome' = "Timeout" /\ UNCHANGED <<current, passedGates>>
       ELSE /\ current + n <= Gates /\ (decision = "Admit" <=> current + n = Gates)
            /\ outcome' = decision
            /\ current' = current + n
            /\ passedGates' = passedGates \o [i \in 1..n |-> current + i]

DeferralNext == \E n \in 0..Gates, d \in {"Admit", "Waiting", "Denied"} : poll_deferral(n, d)

(* Once polled, only a session whose gates all passed, in order and each   *)
(* once, is admitted, and no session waits beyond the watchdog, which      *)
(* fires on nobody else. *)
DeferralSound ==
    /\ outcome # "None" =>
         (passedGates = [i \in 1..Gates |-> i] <=> outcome = "Admit" \/ (outcome = "Timeout" /\ current = Gates))
    /\ outcome = "Timeout" <=> polls > MaxPolls
    /\ IsPrefix(passedGates, [i \in 1..Gates |-> i])

-----------------------------------------------------------------------------
(* Negotiation.  A feature list is a function to versions, so each side    *)
(* names a feature once. *)

VARIABLES
    policy,         \* NegotiationPolicy
    hello,          \* what the client says of itself
    older           \* the policy before the last upgrade of the server (history)

negotiationVars == <<policy, hello, older>>

FeatureList == [Features -> 0..MaxVersion]

Hello == {h \in [min : 1..MaxProtocol, max : 1..MaxProtocol, features : FeatureList, caps : SUBSET Features] :
            h.min <= h.max}

Policies == [min : 1..2, max : {2}, features : FeatureList, disabled : {{}, Features}, strict : {{}, Features}]

(* NegotiationPolicy::default: nothing offered, nothing disabled. *)
NegotiationInit ==
    /\ policy = [min |-> 1, max |-> 2, features |-> [f \in Features |-> 0], disabled |-> {}, strict |-> {}]
    /\ older = policy
    /\ hello = [min |-> 1, max |-> 1, features |-> [f \in Features |-> 0], caps |-> {}]

(* The highest version both sides speak, or which side is too old. *)
negotiate_protocol(p, h) ==
    LET common == Min({p.max, h.max}) IN
    IF h.max < p.min THEN [kind |-> "ClientTooOld", version |-> 0]
    ELSE IF h.min > p.max THEN [kind |-> "ServerTooOld", version |-> 0]
    ELSE IF common < Min({p.min, h.max}) THEN [kind |-> "Incompatible", version |-> 0]
    ELSE [kind |-> "Agreed", version |-> common]

FeatureOutcome(p, h, f) ==
    IF h.features[f] = 0 THEN IF p.features[f] # 0 THEN "RequiresClientUpdate" ELSE "Absent"
    ELSE IF f \in p.disabled THEN "DisabledByPolicy"
    ELSE IF p.features[f] = 0 THEN "ClientOnlyUnsupported"
    ELSE IF p.features[f] >= h.features[f] THEN "Selected" ELSE "RequiresServerUpdate"

RequiredFeatureMissing(p, h) ==
    \E f \in p.strict : FeatureOutcome(p, h, f) = "RequiresClientUpdate"

(* negotiate: an error for a missing required feature, else "allowed". *)
Allowed(p, h) ==
    /\ ~RequiredFeatureMissing(p, h)
    /\ negotiate_protocol(p, h).kind = "Agreed"
    /\ \A f \in Features : FeatureOutcome(p, h, f) # "RequiresServerUpdate"

shared_capabilities(p, h) == {c \in h.caps : p.features[c] # 0}

configure(p) == policy' = p /\ older' = p /\ UNCHANGED hello

connect(h) == hello' = h /\ UNCHANGED <<policy, older>>

(* The operator raises the newest protocol or the version of a feature     *)
(* that is already served. *)
upgrade_server ==
    /\ older' = policy
    /\ \/ policy.max < MaxProtocol /\ policy' = [policy EXCEPT !.max = @ + 1]
       \/ \E f \in Features :
            policy.features[f] \in 1..(MaxVersion - 1) /\ policy' = [policy EXCEPT !.features[f] = @ + 1]
    /\ UNCHANGED hello

NegotiationNext == (\E p \in Policies : configure(p)) \/ (\E h \in Hello : connect(h)) \/ upgrade_server

(* Who is allowed speaks the agreed version, as the server does, and gets  *)
(* every feature that is served, enabled and asked for, in the version it  *)
(* asked for; a version gap is told exactly when there is one; and no      *)
(* upgrade of the server shuts out a client it served before. *)
AgreementSound ==
    LET result == negotiate_protocol(policy, hello) IN
    /\ result.kind = "Agreed" <=> (policy.min..policy.max) \cap (hello.min..hello.max) # {}
    /\ result.kind = "Agreed" => result.version \in (policy.min..policy.max) \cap (hello.min..hello.max)
    /\ Allowed(policy, hello) =>
         \A f \in Features \ policy.disabled :
           hello.features[f] # 0 /\ policy.features[f] # 0 => policy.features[f] >= hello.features[f]
    /\ Allowed(older, hello) => Allowed(policy, hello)

-----------------------------------------------------------------------------
(* The simulated cluster: one action is one virtual tick. *)

VARIABLES
    sims,           \* client -> its SimState; n is attempt, position, loaded or ticks to wait
    queue_waitlist,
    even            \* parity of the next tick

clusterVars == <<sims, queue_waitlist, even>>

Sim(kind, n) == [kind |-> kind, n |-> n]

ClusterInit == sims = [c \in 1..Clients |-> Sim("Disconnected", 0)] /\ queue_waitlist = <<>> /\ even = FALSE

(* Every second tick the head of the queue moves on and the others move up. *)
promote(w) ==
    IF w.waitlist = <<>> \/ ~even THEN w
    ELSE [waitlist |-> Tail(w.waitlist),
          sims |-> [c \in 1..Clients |->
                      IF Contains(Tail(w.waitlist), c)
                      THEN Sim("InQueue", CHOOSE i \in DOMAIN Tail(w.waitlist) : Tail(w.waitlist)[i] = c)
                      ELSE IF c = Head(w.waitlist) /\ w.sims[c].kind = "InQueue" THEN Sim("ResourceNegotiation", 0)
                      ELSE w.sims[c]]]

(* One client's part of a tick; lost are those whose connection breaks. *)
step_client(w, c, lost) ==
    LET s == w.sims[c]
        To(kind, n) == [w EXCEPT !.sims[c] = Sim(kind, n)]
    IN CASE s.kind = "Disconnected" -> To("Handshake", 1)
         [] s.kind = "Handshake" /\ Len(w.waitlist) < QueueDepth ->
              [sims |-> [w.sims EXCEPT ![c] = Sim("InQueue", Len(w.waitlist) + 1)], waitlist |-> Append(w.waitlist, c)]
         [] s.kind = "Handshake" /\ Len(w.waitlist) >= QueueDepth ->
              IF s.n >= 2 THEN To("ResourceNegotiation", 0) ELSE To("Handshake", s.n + 1)
         [] s.kind = "ResourceNegotiation" ->
              IF s.n + 1 >= Resources THEN To("InWorld", 0) ELSE To("ResourceNegotiation", s.n + 1)
         [] s.kind = "InWorld" -> IF c \in lost THEN To("Reconnecting", RetryTicks) ELSE w
         [] s.kind = "Reconnecting" -> IF s.n = 1 THEN To("Handshake", 1) ELSE To("Reconnecting", s.n - 1)
         [] OTHER -> w

step_cluster(lost) ==
    LET after[c \in 0..Clients] ==
            IF c = 0 THEN promote([sims |-> sims, waitlist |-> queue_waitlist])
                     ELSE step_client(after[c - 1], c, lost)
    IN sims' = after[Clients].sims /\ queue_waitlist' = after[Clients].waitlist /\ even' = ~even

ClusterNext == \E lost \in SUBSET (1..Clients) : lost \subseteq {c \in 1..Clients : sims[c].kind = "InWorld"} /\ step_cluster(lost)

(* The queue and the clients agree: who waits is in the queue, once, at    *)
(* the position it believes, through promotions, breaks and new joins. *)
SimQueueExact ==
    /\ Len(queue_waitlist) <= QueueDepth
    /\ \A c \in 1..Clients :
         {i \in DOMAIN queue_waitlist : queue_waitlist[i] = c}
           = IF sims[c].kind = "InQueue" THEN {sims[c].n} ELSE {}

(* The way in is walked in order: JoinDriver completes its phases each     *)
(* once, a deferral session is admitted only through all its gates,        *)
(* negotiate agrees only on what both sides speak, and the simulated       *)
(* cluster's queue and clients agree.                                      *)
ArrivalSound == JoinInOrder /\ DeferralSound /\ AgreementSound /\ SimQueueExact
=============================================================================
