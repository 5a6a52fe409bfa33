---------------------------- MODULE ContentProofs ----------------------------
(***************************************************************************)
(* Proofs about content delivery, for any assets, files, versions and      *)
(* datagrams: the gates of streaming open in order and do not close, the   *)
(* resume list of a download is exact, a fetch neither mixes files nor     *)
(* commits an unverified one, no download lane is starved; what a resource *)
(* is made of stays in its sandbox, as signed and as certified; and the    *)
(* hosts its scripts run in keep their timers, events and loads in order.  *)
(***************************************************************************)
EXTENDS ContentCache, Streaming, Transfer, Packages, ScriptHosts, WellFoundedInduction, FiniteSetTheorems, TLAPS

-----------------------------------------------------------------------------
(* Streaming. *)

MountStates == {"none", "Queued", "Verified", "DependenciesReady", "MountPending", "Mounted",
                "Registered", "FailedRetryable"}

ResidencyRequest == [state : {"none", "Resident", "Waiting"} \cup ResidencyTerminal, left : Nat, retries : Nat]

(* The gates need that a download that is good stays so, and the join gate *)
(* that a request that is Ready stays so: reap_terminal is never called by *)
(* the engine, and no poll touches what has ended. *)
StreamingTypeOK ==
    /\ download \in [Assets -> {"none", "partial", "good", "bad"}]
    /\ idle \in [Assets -> Nat]
    /\ mount \in [Assets -> MountStates]
    /\ residency \in [Assets -> ResidencyRequest]

StreamingInv == StreamingTypeOK /\ GatesHold

ReadyStays == \A a \in Assets : residency[a].state = "Ready" => residency'[a].state = "Ready"

AddedStays == \A a \in Assets : Added(a) => Added(a)'

LEMMA MaxType == ASSUME NEW i \in Nat PROVE Max({i - 1, 0}) \in Nat
<1> DEFINE m == IF i >= 1 THEN i - 1 ELSE 0
<1>1. m \in {i - 1, 0} /\ \A y \in {i - 1, 0} : m >= y
  OBVIOUS
<1>2. \A x \in {i - 1, 0} : (\A y \in {i - 1, 0} : x >= y) => x = m
  BY <1>1
<1>3. Max({i - 1, 0}) = m
  <2> HIDE DEF m
  <2> QED BY <1>1, <1>2 DEF Max
<1> QED BY <1>3

LEMMA MinOfTwo == ASSUME NEW i \in Nat, NEW j \in Nat PROVE Min({i, j}) = IF i <= j THEN i ELSE j
<1> DEFINE m == IF i <= j THEN i ELSE j
<1>1. m \in {i, j} /\ \A y \in {i, j} : m =< y
  OBVIOUS
<1>2. \A x \in {i, j} : (\A y \in {i, j} : x =< y) => x = m
  BY <1>1
<1> HIDE DEF m
<1>3. Min({i, j}) = m
  BY <1>1, <1>2 DEF Min
<1> QED BY <1>3 DEF m

(* The residency tracker under the engine. *)
LEMMA ResidencyKeeps ==
    ASSUME residency \in [Assets -> ResidencyRequest], NEW a \in Assets,
           (\E c \in CommitOutcome : request(a, c)) \/ poll(a)
    PROVE  residency' \in [Assets -> ResidencyRequest] /\ ReadyStays
<1> USE ResidencyAssumption
<1>1. ASSUME NEW c \in CommitOutcome, NEW n \in Nat, Asked(a, c, n), residency[a].state # "Ready"
      PROVE  residency' \in [Assets -> ResidencyRequest] /\ ReadyStays
  <2> DEFINE r == [state |-> c.state, left |-> IF c.state = "Failed" THEN 0 ELSE Timeout, retries |-> n]
  <2>1. r \in ResidencyRequest
    BY <1>1 DEF ResidencyRequest, CommitOutcome, ResidencyTerminal
  <2>2. residency' = [residency EXCEPT ![a] = r]
    BY <1>1 DEF Asked
  <2> HIDE DEF r
  <2> QED BY <1>1, <2>1, <2>2 DEF ReadyStays
<1>2. ASSUME NEW s \in ResidencyTerminal, To(a, s), residency[a].state # "Ready"
      PROVE  residency' \in [Assets -> ResidencyRequest] /\ ReadyStays
  <2> DEFINE r == [residency[a] EXCEPT !.state = s, !.left = 0]
  <2>1. r \in ResidencyRequest /\ residency[a] \in ResidencyRequest
    BY <1>2 DEF ResidencyRequest, ResidencyTerminal
  <2>2. residency' = [residency EXCEPT ![a] = r]
    BY <1>2, <2>1 DEF To, ResidencyRequest
  <2> HIDE DEF r
  <2> QED BY <1>2, <2>1, <2>2 DEF ReadyStays
<1>3. ASSUME NEW c \in CommitOutcome, request(a, c) \/ poll_retry(a, c)
      PROVE  residency' \in [Assets -> ResidencyRequest] /\ ReadyStays
  <2>1. residency[a] \in ResidencyRequest
    OBVIOUS
  <2>2. residency[a].retries + 1 \in Nat /\ 0 \in Nat
    BY <2>1 DEF ResidencyRequest
  <2> QED BY <1>1, <1>3, <2>2 DEF request, poll_retry, Tracked
<1>4. CASE poll_exhausted(a) \/ poll_unconfirmed(a)
  BY <1>2, <1>4 DEF poll_exhausted, poll_unconfirmed, ResidencyTerminal
<1>5. CASE poll_confirmed(a)
  BY <1>2, <1>5 DEF poll_confirmed, ResidencyTerminal
<1> QED BY <1>3, <1>4, <1>5 DEF poll, poll_overdue

LEMMA TickKeepsResidency ==
    ASSUME residency \in [Assets -> ResidencyRequest],
           residency' = [a \in Assets |-> [residency[a] EXCEPT !.left = Max({@ - 1, 0})]]
    PROVE  residency' \in [Assets -> ResidencyRequest] /\ ReadyStays
<1>1. ASSUME NEW a \in Assets
      PROVE  residency'[a] \in ResidencyRequest /\ residency'[a].state = residency[a].state
  <2>1. residency[a] \in ResidencyRequest
    OBVIOUS
  <2>2. Max({residency[a].left - 1, 0}) \in Nat
    BY <2>1, MaxType DEF ResidencyRequest
  <2> DEFINE m == Max({residency[a].left - 1, 0})
  <2>3. residency'[a] = [residency[a] EXCEPT !.left = m]
    OBVIOUS
  <2> HIDE DEF m
  <2>4. m \in Nat
    BY <2>2 DEF m
  <2> QED BY <2>1, <2>3, <2>4 DEF ResidencyRequest
<1> QED BY <1>1 DEF ReadyStays

(* What every step of the engine leaves behind. *)
LEMMA StreamingStep ==
    ASSUME StreamingInv, [StreamingNext]_streamVars
    PROVE  StreamingInv' /\ ReadyStays /\ AddedStays
<1>0. /\ download \in [Assets -> {"none", "partial", "good", "bad"}] /\ idle \in [Assets -> Nat]
      /\ mount \in [Assets -> MountStates] /\ residency \in [Assets -> ResidencyRequest]
      /\ GatesHold /\ IdleLimit \in Nat
  BY StreamingAssumption DEF StreamingInv, StreamingTypeOK
<1>q. ASSUME UNCHANGED residency
      PROVE  residency' \in [Assets -> ResidencyRequest] /\ ReadyStays
  BY <1>0, <1>q DEF ReadyStays
<1>1. ASSUME NEW a \in Assets, add_asset(a)
      PROVE  StreamingInv' /\ ReadyStays /\ AddedStays
  BY <1>0, <1>1, <1>q DEF add_asset, StreamingInv, StreamingTypeOK, GatesHold, AddedStays, Added, MountStates, residencyVars
<1>2. ASSUME NEW a \in Assets, NEW got \in {"partial", "good", "bad"}, receive_chunk(a, got)
      PROVE  StreamingInv' /\ ReadyStays /\ AddedStays
  BY <1>0, <1>2, <1>q
  DEF receive_chunk, CanTakeBytes, StreamingInv, StreamingTypeOK, GatesHold, AddedStays, Added, residencyVars
<1>3. ASSUME NEW a \in Assets, finalize_download(a) \/ cache_loses(a, "absent") \/ cache_loses(a, "corrupt")
      PROVE  StreamingInv' /\ ReadyStays /\ AddedStays
  BY <1>0, <1>3, <1>q
  DEF finalize_download, cache_loses, StreamingInv, StreamingTypeOK, GatesHold, AddedStays, Added, residencyVars
<1>4. ASSUME NEW a \in Assets, NEW from, NEW to \in MountStates, MountStep(a, from, to),
             to \in {"DependenciesReady", "MountPending", "Mounted", "Registered"} => Deps(a) \subseteq registry
      PROVE  StreamingInv' /\ ReadyStays /\ AddedStays
  BY <1>0, <1>4, <1>q DEF MountStep, StreamingInv, StreamingTypeOK, GatesHold, AddedStays, Added, residencyVars
<1>5. ASSUME NEW a \in Assets,
             mount_verify(a) \/ mount_check_deps(a) \/ mount_begin(a) \/ complete_mount(a) \/ mount_register(a)
      PROVE  StreamingInv' /\ ReadyStays /\ AddedStays
  <2>1. CASE mount_verify(a)
    BY <1>4, <2>1 DEF mount_verify, MountStates
  <2>2. CASE mount_check_deps(a)
    BY <1>4, <2>2 DEF mount_check_deps, Resolved, MountStates
  <2>3. CASE mount_begin(a) \/ complete_mount(a) \/ mount_register(a)
    <3>1. Deps(a) \subseteq registry
      BY <1>0, <2>3 DEF GatesHold, mount_begin, complete_mount, mount_register, MountStep
    <3> QED BY <1>4, <2>3, <3>1 DEF mount_begin, complete_mount, mount_register, MountStates
  <2> QED BY <1>5, <2>1, <2>2, <2>3
<1>6. ASSUME NEW d \in Datafiles, register_datafile(d)
      PROVE  StreamingInv' /\ ReadyStays /\ AddedStays
  BY <1>0, <1>6, <1>q
  DEF register_datafile, StreamingInv, StreamingTypeOK, GatesHold, AddedStays, Added, residencyVars
<1>7. ASSUME NEW a \in Assets, residency_request(a) \/ residency_poll(a)
      PROVE  StreamingInv' /\ ReadyStays /\ AddedStays
  <2>1. residency' \in [Assets -> ResidencyRequest] /\ ReadyStays
    BY <1>0, <1>7, ResidencyKeeps DEF residency_request, residency_poll
  <2>2. UNCHANGED <<download, idle, cached, object, mount, registry>>
    BY <1>7 DEF residency_request, residency_poll
  <2> QED BY <1>0, <2>1, <2>2 DEF StreamingInv, StreamingTypeOK, GatesHold, AddedStays, Added
<1>8. CASE StreamTick
  <2>1. residency' \in [Assets -> ResidencyRequest] /\ ReadyStays
    BY <1>0, <1>8, TickKeepsResidency DEF StreamTick
  <2>2. \A a \in Assets : Min({idle[a] + 1, IdleLimit + 1}) \in Nat
    <3>1. \A a \in Assets : idle[a] + 1 \in Nat /\ IdleLimit + 1 \in Nat
      BY <1>0
    <3> QED BY <3>1, MinOfTwo
  <2>3. idle' \in [Assets -> Nat]
    BY <1>0, <1>8, <2>2 DEF StreamTick
  <2> QED BY <1>0, <1>8, <2>1, <2>3 DEF StreamTick, StreamingInv, StreamingTypeOK, GatesHold, AddedStays, Added
<1>9. CASE UNCHANGED streamVars
  BY <1>0, <1>9, <1>q DEF streamVars, StreamingInv, StreamingTypeOK, GatesHold, AddedStays, Added
<1> QED BY <1>1, <1>2, <1>3, <1>5, <1>6, <1>7, <1>8, <1>9 DEF StreamingNext

(* An asset is Ready exactly when it was added and its request is Ready. *)
LEMMA ReadyMeans ==
    ASSUME NEW a \in Assets
    PROVE  asset_state(a) = "Ready" <=> Added(a) /\ residency[a].state = "Ready"
  BY DEF asset_state, Tracked, ResidencyTerminal

LEMMA ReadyMeansNext ==
    ASSUME NEW a \in Assets
    PROVE  asset_state(a)' = "Ready" <=> Added(a)' /\ residency'[a].state = "Ready"
  BY DEF asset_state, Tracked, ResidencyTerminal, Added

(* Whatever the order of the engine's calls, an asset is counted as cached *)
(* only with the bytes of its hash and is past the dependency gate only    *)
(* with its datafiles registered, and a join gate that opened stays open.  *)
THEOREM GatesAlwaysSound == StreamingSpec => GatesSound
<1>1. StreamingInit => StreamingInv
  BY DEF StreamingInit, ResidencyInit, StreamingInv, StreamingTypeOK, GatesHold, MountStates, Untracked,
         ResidencyRequest, ResidencyTerminal
<1>2. StreamingInv /\ [StreamingNext]_streamVars => StreamingInv'
  BY StreamingStep
<1>3. StreamingInv /\ [StreamingNext]_streamVars => [GatesHold' /\ JoinGateStays]_streamVars
  <2> SUFFICES ASSUME StreamingInv, [StreamingNext]_streamVars
               PROVE  GatesHold' /\ JoinGateStays
    OBVIOUS
  <2>1. StreamingInv' /\ ReadyStays /\ AddedStays
    BY StreamingStep
  <2>2. \A a \in Assets : asset_state(a) = "Ready" => asset_state(a)' = "Ready"
    BY <2>1, ReadyMeans, ReadyMeansNext DEF ReadyStays, AddedStays
  <2>3. JoinGateStays
    BY <2>2 DEF JoinGateStays, join_ready
  <2> QED BY <2>1, <2>3 DEF StreamingInv
<1> QED BY <1>1, <1>2, <1>3, PTL DEF StreamingSpec, GatesSound

-----------------------------------------------------------------------------
(* Induction over the naturals, set by set. *)

LEMMA SetInduction ==
    ASSUME NEW T, T \subseteq Nat, 0 \in T, \A n \in T : n + 1 \in T
    PROVE  T = Nat
<1> SUFFICES ASSUME Nat \ T # {} PROVE FALSE
  OBVIOUS
<1>1. PICK x \in Nat \ T : \A y \in Nat \ T : x <= y
  BY SmallestOf
<1>2. x # 0 /\ x - 1 \in Nat
  BY <1>1
<1>3. x - 1 \in T
  BY <1>1, <1>2
<1>4. (x - 1) + 1 \in T
  BY <1>3
<1> QED BY <1>1, <1>2, <1>4

-----------------------------------------------------------------------------
(* A download of n bytes. *)
AbsentAt(d, i) == i \in DOMAIN d.bytes /\ d.bytes[i] = Absent

Landed(d) == {i \in DOMAIN d.bytes : d.bytes[i] # Absent}

DownloadOf(d, n) ==
    /\ n \in Nat /\ DOMAIN d.bytes = 0..(n - 1)
    /\ d.received = Cardinality(Landed(d))

IsRun(d, r) ==
    /\ r \in Nat \X Nat /\ r[2] > 0
    /\ \A i \in r[1]..(r[1] + r[2] - 1) : AbsentAt(d, i)
    /\ ~AbsentAt(d, r[1] - 1) /\ ~AbsentAt(d, r[1] + r[2])

RunsBelow(d, out, k) ==
    /\ out \in Seq(Nat \X Nat)
    /\ \A i \in 1..Len(out) : IsRun(d, out[i]) /\ out[i][1] + out[i][2] < k
    /\ \A r : IsRun(d, r) /\ r[1] + r[2] < k => \E i \in 1..Len(out) : out[i] = r
    /\ \A i, j \in 1..Len(out) : i < j => out[i][1] < out[j][1]

ScanInv(d, acc, k) ==
    /\ acc = [out |-> acc.out, start |-> acc.start, len |-> acc.len]
    /\ acc.start \in Nat /\ acc.len \in Nat
    /\ acc.len > 0 => /\ acc.start + acc.len = k /\ ~AbsentAt(d, acc.start - 1)
                      /\ \A i \in acc.start..(k - 1) : AbsentAt(d, i)
    /\ acc.len = 0 => ~AbsentAt(d, k - 1)
    /\ RunsBelow(d, acc.out, k)
    /\ acc.len = 0 /\ acc.out = <<>> => \A i \in 0..(k - 1) : ~AbsentAt(d, i)

NoBytes == [out |-> <<>>, start |-> 0, len |-> 0]

IsScan(g, d, n) ==
    g = [k \in 0..n |-> IF k = 0 THEN NoBytes ELSE Scanned(d, g[k - 1], k - 1)]

LEMMA ScanExists == ASSUME NEW d, NEW n \in Nat PROVE \E g : IsScan(g, d, n)
<1> DEFINE T == {m \in Nat : \E g : IsScan(g, d, m)}
<1>1. 0 \in T
  <2>1. IsScan([k \in 0..0 |-> NoBytes], d, 0)
    BY DEF IsScan
  <2> QED BY <2>1
<1>2. ASSUME NEW m \in T PROVE m + 1 \in T
  <2>1. PICK g : IsScan(g, d, m)
    OBVIOUS
  <2> DEFINE h == [k \in 0..(m + 1) |-> IF k = m + 1 THEN Scanned(d, g[m], m) ELSE g[k]]
  <2>2. ASSUME NEW k \in 0..(m + 1)
        PROVE  h[k] = IF k = 0 THEN NoBytes ELSE Scanned(d, h[k - 1], k - 1)
    <3>1. CASE k = m + 1
      <4>1. h[k - 1] = g[m] /\ k - 1 = m /\ k # 0
        BY <3>1
      <4> QED BY <3>1, <4>1
    <3>2. CASE k # m + 1
      <4>1. h[k] = g[k] /\ k \in 0..m
        BY <3>2
      <4>2. k # 0 => h[k - 1] = g[k - 1]
        BY <4>1
      <4> QED BY <2>1, <4>1, <4>2 DEF IsScan
    <3> QED BY <3>1, <3>2
  <2>3. IsScan(h, d, m + 1)
    BY <2>2 DEF IsScan
  <2> QED BY <2>3
<1> HIDE DEF T
<1>3. T \subseteq Nat
  BY DEF T
<1>4. T = Nat
  BY <1>1, <1>2, <1>3, SetInduction
<1> QED BY <1>4 DEF T

LEMMA ScanIs ==
    ASSUME NEW d, Cardinality(DOMAIN d.bytes) \in Nat
    PROVE  IsScan(Scan(d), d, Cardinality(DOMAIN d.bytes))
<1> DEFINE n == Cardinality(DOMAIN d.bytes)
<1>1. Scan(d) = CHOOSE g : g = [k \in 0..n |-> IF k = 0 THEN NoBytes ELSE Scanned(d, g[k - 1], k - 1)]
  BY DEF Scan, NoBytes
<1> QED BY <1>1, ScanExists DEF IsScan

LEMMA CloseRun ==
    ASSUME NEW d, NEW acc, NEW k \in Nat, ScanInv(d, acc, k), ~AbsentAt(d, k)
    PROVE  /\ RunsBelow(d, Closed(acc), k + 1)
           /\ Closed(acc) = <<>> => \A i \in 0..k : ~AbsentAt(d, i)
<1>1. CASE acc.len = 0
  <2>1. Closed(acc) = acc.out
    BY <1>1 DEF Closed
  <2>2. ASSUME NEW r, IsRun(d, r), r[1] + r[2] < k + 1
        PROVE  r[1] + r[2] < k
    <3>1. SUFFICES ASSUME r[1] + r[2] = k PROVE FALSE
      BY <2>2 DEF IsRun
    <3>2. k - 1 \in r[1]..(r[1] + r[2] - 1)
      BY <2>2, <3>1 DEF IsRun
    <3> QED BY <1>1, <2>2, <3>2 DEF IsRun, ScanInv
  <2>3. RunsBelow(d, acc.out, k + 1)
    <3>1. RunsBelow(d, acc.out, k)
      BY DEF ScanInv
    <3>2. \A i \in 1..Len(acc.out) : acc.out[i][1] + acc.out[i][2] < k + 1
      BY SMTT(60), <3>1 DEF RunsBelow, IsRun
    <3> QED BY <2>2, <3>1, <3>2 DEF RunsBelow
  <2>4. acc.out = <<>> => \A i \in 0..k : ~AbsentAt(d, i)
    BY <1>1 DEF ScanInv
  <2> QED BY <2>1, <2>3, <2>4
<1>2. CASE acc.len > 0
  <2> DEFINE run == <<acc.start, acc.len>>
  <2>1. Closed(acc) = Append(acc.out, run)
    BY <1>2 DEF Closed
  <2>2. IsRun(d, run) /\ run[1] + run[2] = k
    BY <1>2 DEF IsRun, ScanInv
  <2>3. ASSUME NEW r, IsRun(d, r), r[1] + r[2] = k
        PROVE  r = run
    <3>1. r[1] \in Nat /\ r[2] \in Nat /\ r[2] > 0 /\ r = <<r[1], r[2]>>
      BY <2>3 DEF IsRun
    <3>2. acc.start \in Nat /\ acc.len \in Nat /\ acc.start + acc.len = k
      BY <1>2 DEF ScanInv
    <3>3. ~(r[1] < acc.start)
      <4>1. r[1] < acc.start => acc.start - 1 \in r[1]..(r[1] + r[2] - 1)
        BY <1>2, <2>3, <3>1, <3>2
      <4> QED BY <4>1, <1>2, <2>3 DEF ScanInv, IsRun
    <3>4. ~(acc.start < r[1])
      <4>1. acc.start < r[1] => r[1] - 1 \in acc.start..(k - 1)
        BY <1>2, <2>3, <3>1, <3>2
      <4> QED BY <4>1, <1>2, <2>3 DEF ScanInv, IsRun
    <3> QED BY <2>3, <3>1, <3>2, <3>3, <3>4
  <2>4. RunsBelow(d, acc.out, k)
    BY DEF ScanInv
  <2>5. \A i \in 1..Len(acc.out) : acc.out[i][1] < run[1]
    <3> SUFFICES ASSUME NEW i \in 1..Len(acc.out) PROVE acc.out[i][1] < run[1]
      OBVIOUS
    <3> DEFINE r == acc.out[i]
    <3>1. IsRun(d, r) /\ r[1] + r[2] < k
      BY <2>4 DEF RunsBelow
    <3>2. r[1] \in Nat /\ r[2] \in Nat /\ r[2] > 0 /\ ~AbsentAt(d, r[1] + r[2])
      BY <3>1 DEF IsRun
    <3>3. acc.start \in Nat /\ (r[1] + r[2]) \notin acc.start..(k - 1)
      BY <1>2, <3>2 DEF ScanInv
    <3> HIDE DEF r
    <3> QED BY <3>1, <3>2, <3>3 DEF r
  <2> DEFINE new == Append(acc.out, run)
  <2>6. /\ new \in Seq(Nat \X Nat) /\ Len(new) = Len(acc.out) + 1 /\ Len(acc.out) \in Nat
        /\ \A i \in 1..Len(acc.out) : new[i] = acc.out[i]
        /\ new[Len(acc.out) + 1] = run
    BY <2>2, <2>4 DEF RunsBelow, IsRun
  <2> HIDE DEF new, run
  <2>a. \A i : i \in 1..Len(new) <=> i \in 1..Len(acc.out) \/ i = Len(acc.out) + 1
    <3>1. \A m \in Nat : \A i : i \in 1..(m + 1) <=> i \in 1..m \/ i = m + 1
      OBVIOUS
    <3> QED BY <2>6, <3>1
  <2>7. \A i \in 1..Len(new) : IsRun(d, new[i]) /\ new[i][1] + new[i][2] < k + 1
    <3> SUFFICES ASSUME NEW i \in 1..Len(new)
                 PROVE  IsRun(d, new[i]) /\ new[i][1] + new[i][2] < k + 1
      OBVIOUS
    <3>1. CASE i = Len(acc.out) + 1
      BY <2>2, <2>6, <3>1
    <3>2. CASE i \in 1..Len(acc.out)
      <4>1. IsRun(d, new[i]) /\ new[i][1] + new[i][2] < k
        BY <2>4, <2>6, <3>2 DEF RunsBelow
      <4> QED BY <4>1 DEF IsRun
    <3> QED BY SMTT(60), <2>6, <3>1, <3>2
  <2>8. \A r : IsRun(d, r) /\ r[1] + r[2] < k + 1 => \E i \in 1..Len(new) : new[i] = r
    <3> SUFFICES ASSUME NEW r, IsRun(d, r), r[1] + r[2] < k + 1
                 PROVE  \E i \in 1..Len(new) : new[i] = r
      OBVIOUS
    <3>1. CASE r[1] + r[2] = k
      BY SMTT(60), <2>3, <2>6, <3>1
    <3>2. CASE r[1] + r[2] < k
      <4>1. PICK i \in 1..Len(acc.out) : acc.out[i] = r
        BY <2>4, <3>2 DEF RunsBelow
      <4>2. i \in 1..Len(new) /\ new[i] = r
        BY <2>6, <2>a, <4>1
      <4> QED BY <4>2
    <3>3. r[1] + r[2] \in Nat
      BY DEF IsRun
    <3> QED BY <3>1, <3>2, <3>3
  <2>9. \A i, j \in 1..Len(new) : i < j => new[i][1] < new[j][1]
    <3> SUFFICES ASSUME NEW i \in 1..Len(new), NEW j \in 1..Len(new), i < j
                 PROVE  new[i][1] < new[j][1]
      OBVIOUS
    <3>1. i \in 1..Len(acc.out)
      BY <2>6
    <3>2. CASE j = Len(acc.out) + 1
      BY <2>5, <2>6, <3>1, <3>2
    <3>3. CASE j \in 1..Len(acc.out)
      BY <2>4, <2>6, <3>1, <3>3 DEF RunsBelow
    <3>4. j = Len(acc.out) + 1 \/ j \in 1..Len(acc.out)
      BY <2>a
    <3> QED BY <3>2, <3>3, <3>4
  <2>10. new # <<>>
    BY <2>6
  <2> QED BY <2>1, <2>6, <2>7, <2>8, <2>9, <2>10 DEF RunsBelow, new
<1> QED BY <1>1, <1>2 DEF ScanInv

LEMMA ScanStep ==
    ASSUME NEW d, NEW acc, NEW n, NEW k \in Nat, DownloadOf(d, n), k < n, ScanInv(d, acc, k)
    PROVE  ScanInv(d, Scanned(d, acc, k), k + 1)
<1> DEFINE new == Scanned(d, acc, k)
<1>1. k \in DOMAIN d.bytes /\ n \in Nat
  BY DEF DownloadOf
<1>2. CASE d.bytes[k] # Absent
  <2>1. new = [out |-> Closed(acc), start |-> 0, len |-> 0]
    BY <1>2 DEF Scanned
  <2>2. ~AbsentAt(d, k)
    BY <1>2 DEF AbsentAt
  <2>3. RunsBelow(d, Closed(acc), k + 1) /\ (Closed(acc) = <<>> => \A i \in 0..k : ~AbsentAt(d, i))
    BY <2>2, CloseRun
  <2> HIDE DEF new
  <2>4. new.out = Closed(acc) /\ new.start = 0 /\ new.len = 0
        /\ new = [out |-> new.out, start |-> new.start, len |-> new.len]
    BY <2>1
  <2> QED BY <2>2, <2>3, <2>4 DEF ScanInv, new
<1>3. CASE d.bytes[k] = Absent
  <2> DEFINE s == IF acc.len > 0 THEN acc.start ELSE k
  <2>1. new = [out |-> acc.out, start |-> s, len |-> acc.len + 1]
    BY <1>3 DEF Scanned
  <2>2. AbsentAt(d, k)
    BY <1>1, <1>3 DEF AbsentAt
  <2>3. acc.len \in Nat /\ acc.start \in Nat
    BY DEF ScanInv
  <2>4. s \in Nat /\ s + (acc.len + 1) = k + 1 /\ ~AbsentAt(d, s - 1)
        /\ \A i \in s..k : AbsentAt(d, i)
    BY <2>2, <2>3 DEF ScanInv
  <2>5. RunsBelow(d, acc.out, k + 1)
    <3>1. RunsBelow(d, acc.out, k)
      BY DEF ScanInv
    <3>2. \A r : IsRun(d, r) /\ r[1] + r[2] < k + 1 => r[1] + r[2] < k
      BY <2>2 DEF IsRun
    <3>3. \A i \in 1..Len(acc.out) : acc.out[i][1] + acc.out[i][2] < k + 1
      <4>1. ASSUME NEW i \in 1..Len(acc.out) PROVE acc.out[i][1] + acc.out[i][2] < k + 1
        <5>1. IsRun(d, acc.out[i]) /\ acc.out[i][1] + acc.out[i][2] < k
          BY <3>1 DEF RunsBelow
        <5>2. acc.out[i][1] \in Nat /\ acc.out[i][2] \in Nat
          BY <5>1 DEF IsRun
        <5> QED BY <5>1, <5>2
      <4> QED BY <4>1
    <3> QED BY <3>1, <3>2, <3>3 DEF RunsBelow
  <2> HIDE DEF new
  <2>6. new.out = acc.out /\ new.start = s /\ new.len = acc.len + 1
        /\ new = [out |-> new.out, start |-> new.start, len |-> new.len]
    BY <2>1
  <2> HIDE DEF s
  <2>7. (k + 1) - 1 = k
    OBVIOUS
  <2> QED BY SMTT(60), <2>3, <2>4, <2>5, <2>6, <2>7 DEF ScanInv, new
<1> QED BY <1>2, <1>3

(* The positions of a file of n bytes. *)
LEMMA Positions == ASSUME NEW n \in Nat PROVE IsFiniteSet(0..(n - 1)) /\ Cardinality(0..(n - 1)) = n
<1>1. 0 \in Int /\ n - 1 \in Int
  OBVIOUS
<1>2. IsFiniteSet(0..(n - 1)) /\ Cardinality(0..(n - 1)) = IF 0 > n - 1 THEN 0 ELSE (n - 1) - 0 + 1
  BY ONLY <1>1, FS_Interval
<1>3. (IF 0 > n - 1 THEN 0 ELSE (n - 1) - 0 + 1) = n
  OBVIOUS
<1> QED BY <1>2, <1>3

LEMMA ScanHolds ==
    ASSUME NEW d, NEW n, DownloadOf(d, n)
    PROVE  /\ Cardinality(DOMAIN d.bytes) = n
           /\ ScanInv(d, Scan(d)[n], n)
<1>1. n \in Nat /\ Cardinality(DOMAIN d.bytes) = n
  BY Positions DEF DownloadOf
<1> DEFINE g == Scan(d)
           T == {k \in Nat : k <= n => ScanInv(d, g[k], k)}
<1>2. IsScan(g, d, n)
  BY <1>1, ScanIs
<1> HIDE DEF g
<1>3. g[0] = NoBytes /\ \A k \in 0..n : k # 0 => g[k] = Scanned(d, g[k - 1], k - 1)
  BY <1>1, <1>2 DEF IsScan
<1>4. 0 \in T
  <2>1. ScanInv(d, NoBytes, 0)
    <3>1. ~AbsentAt(d, -1)
      BY DEF DownloadOf, AbsentAt
    <3>2. RunsBelow(d, <<>>, 0)
      <4>1. \A r : IsRun(d, r) => r[1] + r[2] >= 0
        BY DEF IsRun
      <4> QED BY <4>1 DEF RunsBelow, IsRun
    <3> QED BY <3>1, <3>2 DEF ScanInv, NoBytes
  <2> QED BY <1>3, <2>1
<1>5. ASSUME NEW k \in T PROVE k + 1 \in T
  <2> SUFFICES ASSUME k + 1 <= n PROVE ScanInv(d, g[k + 1], k + 1)
    OBVIOUS
  <2>1. g[k + 1] = Scanned(d, g[k], k)
    BY <1>1, <1>3
  <2>2. k \in Nat /\ k < n /\ ScanInv(d, g[k], k)
    BY <1>1
  <2> QED BY <2>1, <2>2, ScanStep
<1> HIDE DEF T
<1>6. T = Nat
  BY <1>4, <1>5, SetInduction DEF T
<1> QED BY <1>1, <1>6 DEF T, g

LEMMA MissingRanges ==
    ASSUME NEW d, NEW n, DownloadOf(d, n)
    PROVE  /\ RunsBelow(d, missing_ranges(d), n + 1)
           /\ missing_ranges(d) = <<>> => \A i \in 0..(n - 1) : ~AbsentAt(d, i)
<1>1. n \in Nat /\ ~AbsentAt(d, n)
  BY DEF DownloadOf, AbsentAt
<1>2. missing_ranges(d) = Closed(Scan(d)[n]) /\ ScanInv(d, Scan(d)[n], n)
  BY ScanHolds DEF missing_ranges
<1> QED BY <1>1, <1>2, CloseRun

(* The counter says all bytes landed exactly when they did. *)
LEMMA CompleteMeans ==
    ASSUME NEW d, NEW n, DownloadOf(d, n)
    PROVE  /\ is_complete(d) <=> \A i \in 0..(n - 1) : ~AbsentAt(d, i)
           /\ (missing_ranges(d) = <<>>) <=> is_complete(d)
<1>1. n \in Nat /\ DOMAIN d.bytes = 0..(n - 1) /\ IsFiniteSet(0..(n - 1)) /\ Cardinality(0..(n - 1)) = n
  BY Positions DEF DownloadOf
<1>2. Landed(d) \subseteq 0..(n - 1)
  BY <1>1 DEF Landed
<1>3. Cardinality(Landed(d)) = n <=> Landed(d) = 0..(n - 1)
  BY <1>1, <1>2, FS_Subset
<1>4. Landed(d) = 0..(n - 1) <=> \A i \in 0..(n - 1) : ~AbsentAt(d, i)
  BY <1>1 DEF Landed, AbsentAt
<1>5. is_complete(d) <=> Cardinality(Landed(d)) = n
  BY <1>1 DEF is_complete, DownloadOf
<1>6. missing_ranges(d) = <<>> => \A i \in 0..(n - 1) : ~AbsentAt(d, i)
  BY MissingRanges
<1>7. ASSUME \A i \in 0..(n - 1) : ~AbsentAt(d, i) PROVE missing_ranges(d) = <<>>
  <2> DEFINE out == missing_ranges(d)
  <2>1. RunsBelow(d, out, n + 1)
    BY MissingRanges
  <2> HIDE DEF out
  <2>2. SUFFICES ASSUME out # <<>> PROVE FALSE
    BY DEF out
  <2>3. out \in Seq(Nat \X Nat) /\ 1 \in 1..Len(out)
    BY <2>1, <2>2 DEF RunsBelow
  <2>4. IsRun(d, out[1])
    BY <2>1, <2>3 DEF RunsBelow
  <2>5. AbsentAt(d, out[1][1])
    BY <2>4 DEF IsRun
  <2> QED BY <1>1, <1>7, <2>5 DEF AbsentAt
<1> QED BY <1>3, <1>4, <1>5, <1>6, <1>7

LEMMA NewDownload ==
    ASSUME NEW n \in Nat, NEW now PROVE DownloadOf(Download_new(n, now), n)
<1> DEFINE d == Download_new(n, now)
<1>1. DOMAIN d.bytes = 0..(n - 1) /\ d.received = 0 /\ Landed(d) = {}
  BY DEF Download_new, Landed
<1> QED BY <1>1, FS_EmptySet DEF DownloadOf

LEMMA ReceivedKeeps ==
    ASSUME NEW d, NEW n, DownloadOf(d, n), NEW offset \in Nat, NEW data, NEW now,
           data \in Seq(Range(data)), Absent \notin Range(data), CanReceive(d, offset, Len(data))
    PROVE  /\ DownloadOf(Received(d, offset, data, now), n)
           /\ \A i \in 0..(n - 1) :
                \/ Received(d, offset, data, now).bytes[i] = d.bytes[i]
                \/ Received(d, offset, data, now).bytes[i] \in Range(data)
<1> DEFINE landed == offset..(offset + Len(data) - 1)
           fresh == {i \in landed : d.bytes[i] = Absent}
           e == Received(d, offset, data, now)
<1>1. n \in Nat /\ DOMAIN d.bytes = 0..(n - 1) /\ IsFiniteSet(0..(n - 1)) /\ Cardinality(0..(n - 1)) = n
  BY Positions DEF DownloadOf
<1>2. Len(data) \in Nat /\ offset + Len(data) <= n
  BY <1>1 DEF CanReceive
<1>3. /\ e.bytes = [i \in DOMAIN d.bytes |-> IF i \in landed THEN data[i - offset + 1] ELSE d.bytes[i]]
      /\ e.received = d.received + Cardinality(fresh)
  BY DEF Received
<1>4. \A i \in landed : data[i - offset + 1] \in Range(data)
  <2> SUFFICES ASSUME NEW i \in landed PROVE data[i - offset + 1] \in Range(data)
    OBVIOUS
  <2>1. i - offset + 1 \in 1..Len(data)
    BY <1>2
  <2> QED BY <2>1
<1> HIDE DEF e
<1>5. \A i \in 0..(n - 1) : e.bytes[i] = d.bytes[i] \/ e.bytes[i] \in Range(data)
  BY <1>1, <1>3, <1>4
<1>6. landed \subseteq 0..(n - 1)
  BY <1>1, <1>2
<1>7. Landed(e) = Landed(d) \cup fresh
  <2> SUFFICES ASSUME NEW i \in 0..(n - 1)
               PROVE  e.bytes[i] # Absent <=> d.bytes[i] # Absent \/ i \in fresh
    BY <1>1, <1>3, <1>6 DEF Landed
  <2> QED BY <1>1, <1>3, <1>4
<1>8. Landed(d) \cap fresh = {}
  BY DEF Landed
<1>9. IsFiniteSet(Landed(d)) /\ IsFiniteSet(fresh)
  <2>1. Landed(d) \subseteq 0..(n - 1) /\ fresh \subseteq 0..(n - 1)
    BY <1>1, <1>6 DEF Landed
  <2> QED BY <1>1, <2>1, FS_Subset
<1> HIDE DEF fresh, landed
<1>10. Cardinality(Landed(e)) = Cardinality(Landed(d)) + Cardinality(fresh)
  <2>1. Cardinality(Landed(d) \cap fresh) = 0
    BY <1>8, FS_EmptySet
  <2>2. Cardinality(Landed(d)) \in Nat /\ Cardinality(fresh) \in Nat
    BY <1>9, FS_CardinalityType
  <2>3. Cardinality(Landed(d) \cup fresh)
            = Cardinality(Landed(d)) + Cardinality(fresh) - Cardinality(Landed(d) \cap fresh)
    BY <1>9, FS_Union
  <2> QED BY <1>7, <2>1, <2>2, <2>3
<1>11. DownloadOf(e, n)
  BY <1>1, <1>3, <1>10 DEF DownloadOf
<1> QED BY <1>5, <1>11 DEF e

(* What a list of runs below the end of the file is, and with it the       *)
(* property of the download. *)
LEMMA ExactFrom == ASSUME DownloadOf(dl, FileLen) PROVE MissingIsExact
<1> DEFINE ranges == missing_ranges(dl)
<1>1. FileLen \in Nat /\ DOMAIN dl.bytes = 0..(FileLen - 1)
  BY DEF DownloadOf
<1>2. RunsBelow(dl, ranges, FileLen + 1)
  BY MissingRanges
<1>3. (ranges = <<>>) <=> is_complete(dl)
  BY CompleteMeans
<1>4. dl.received = Cardinality({i \in DOMAIN dl.bytes : dl.bytes[i] # Absent})
  BY DEF DownloadOf, Landed
<1> HIDE DEF ranges
<1>5. ranges \in Seq(Nat \X Nat) /\ DOMAIN ranges = 1..Len(ranges)
  BY <1>2 DEF RunsBelow
<1>6. \A r : r \in AbsentRuns(dl) <=> IsRun(dl, r)
  <2>1. ASSUME NEW r, IsRun(dl, r) PROVE r \in (0..(FileLen - 1)) \X (1..FileLen)
    <3>1. r[1] \in Nat /\ r[2] \in Nat /\ r[2] > 0 /\ r = <<r[1], r[2]>>
      BY <2>1 DEF IsRun
    <3>2. r[1] \in 0..(FileLen - 1) /\ (r[1] + r[2] - 1) \in 0..(FileLen - 1)
      BY <1>1, <2>1, <3>1 DEF IsRun, AbsentAt
    <3>3. r[2] \in 1..FileLen
      BY <1>1, <3>1, <3>2
    <3> QED BY <3>1, <3>2, <3>3
  <2>2. ASSUME NEW r \in (0..(FileLen - 1)) \X (1..FileLen) PROVE r \in Nat \X Nat /\ r[2] > 0
    BY <1>1
  <2> QED BY <2>1, <2>2 DEF AbsentRuns, IsRun, AbsentAt
<1>7. \A r : IsRun(dl, r) => r[1] + r[2] < FileLen + 1
  BY <1>1 DEF IsRun, AbsentAt
<1>8. ToSet(ranges) = AbsentRuns(dl)
  <2>1. \A r : r \in ToSet(ranges) <=> \E i \in 1..Len(ranges) : ranges[i] = r
    BY <1>5 DEF ToSet
  <2>2. \A r : IsRun(dl, r) <=> \E i \in 1..Len(ranges) : ranges[i] = r
    BY <1>2, <1>7 DEF RunsBelow
  <2> QED BY <1>6, <2>1, <2>2
<1>9. \A i, j \in DOMAIN ranges : i < j => ranges[i][1] < ranges[j][1]
  BY <1>2, <1>5 DEF RunsBelow
<1> QED BY <1>3, <1>4, <1>8, <1>9 DEF MissingIsExact, ranges

(* What missing_ranges returns, after any chunks in any order with any overlaps, is exactly the maximal runs  *)
(* of missing bytes in ascending order: a resumed download asks for all it lacks and for nothing it has.      *)
THEOREM ResumeListExact == DownloadSpec => []MissingIsExact
<1> DEFINE Inv == DownloadOf(dl, FileLen)
<1>1. DownloadInit => Inv
  BY NewDownload, DownloadAssumption DEF DownloadInit
<1>2. Inv /\ [DownloadNext]_dlVars => Inv'
  <2> SUFFICES ASSUME Inv, [DownloadNext]_dlVars PROVE Inv'
    OBVIOUS
  <2>1. ASSUME NEW offset \in 0..FileLen, NEW data \in BoundedSeq(Versions, FileLen), receive(offset, data)
        PROVE  Inv'
    <3>1. data \in Seq(Versions)
      BY DownloadAssumption DEF BoundedSeq, SeqOf
    <3>2. data \in Seq(Range(data)) /\ Range(data) \subseteq Versions
      BY <3>1 DEF Range
    <3>3. DownloadOf(Received(dl, offset, data, tick), FileLen)
      BY <2>1, <3>2, ReceivedKeeps, DownloadAssumption DEF receive
    <3> QED BY <2>1, <3>3 DEF receive
  <2>2. ASSUME dl' = dl PROVE Inv'
    BY <2>2
  <2> QED BY <2>1, <2>2 DEF DownloadNext, Tick, dlVars
<1>3. Inv => MissingIsExact
  BY ExactFrom
<1> QED BY <1>1, <1>2, <1>3, PTL DEF DownloadSpec

-----------------------------------------------------------------------------
(* The fetch of a file. *)

(* Datagrams in flight: what the client asked for and what the server cut  *)
(* from a file, of whatever version. *)
DatagramsOK ==
    /\ \A q \in requests : q.name \in Files /\ q.offset \in Nat /\ q.len \in Nat
    /\ \A r \in replies : r.name \in Files /\ r.offset \in Nat /\ r.data \in Seq({r.name} \X Versions)

FetchOK ==
    cur # NoFile =>
        /\ DownloadOf(dl, FileSize(cur, Negotiated)) /\ ~is_complete(dl)
        /\ FileSize(cur, Negotiated) > 0

FetchTypeOK ==
    /\ cur \in Files \cup {NoFile}
    /\ content \in [Files -> Versions]
    /\ DOMAIN cache = Files /\ DOMAIN result = Files

TransferInv == FetchTypeOK /\ DatagramsOK /\ FetchOK /\ OnlyVerifiedCached /\ NoForeignBytes

LEMMA EndsKeeps ==
    ASSUME TransferInv, cur # NoFile, NEW how, Ends(how), UNCHANGED <<content, requests, replies>>,
           \/ UNCHANGED cache /\ how # "ok"
           \/ cache' = [cache EXCEPT ![cur] = [i \in 0..(FileSize(cur, Negotiated) - 1) |-> <<cur, Negotiated>>]]
    PROVE  TransferInv'
<1>1. FetchTypeOK' /\ FetchOK' /\ NoForeignBytes' /\ DatagramsOK'
  BY DEF TransferInv, FetchTypeOK, FetchOK, DatagramsOK, NoForeignBytes, Ends
<1>2. OnlyVerifiedCached'
  <2> SUFFICES ASSUME NEW f \in Files
               PROVE  /\ cache'[f] # <<>> => cache'[f] = [i \in 0..(FileSize(f, Negotiated) - 1) |-> <<f, Negotiated>>]
                      /\ result'[f] = "ok" => cache'[f] # <<>>
    BY DEF OnlyVerifiedCached
  <2>1. /\ cache[f] # <<>> => cache[f] = [i \in 0..(FileSize(f, Negotiated) - 1) |-> <<f, Negotiated>>]
        /\ result[f] = "ok" => cache[f] # <<>>
    BY DEF TransferInv, OnlyVerifiedCached
  <2>2. CASE f # cur
    BY <2>1, <2>2 DEF TransferInv, FetchTypeOK, Ends
  <2>3. CASE f = cur /\ UNCHANGED cache /\ how # "ok"
    BY <2>1, <2>3 DEF TransferInv, FetchTypeOK, Ends
  <2>4. CASE /\ f = cur
             /\ cache' = [cache EXCEPT ![cur] = [i \in 0..(FileSize(cur, Negotiated) - 1) |-> <<cur, Negotiated>>]]
    <3> DEFINE whole == [i \in 0..(FileSize(f, Negotiated) - 1) |-> <<f, Negotiated>>]
    <3>1. cache'[f] = whole
      BY <2>4 DEF TransferInv, FetchTypeOK
    <3>2. 0 \in DOMAIN whole
      BY <2>4, TransferAssumption DEF TransferInv, FetchOK, FetchTypeOK
    <3>3. whole # <<>>
      BY <3>2
    <3> QED BY <3>1, <3>3
  <2> QED BY <2>2, <2>3, <2>4
<1> QED BY <1>1, <1>2 DEF TransferInv

LEMMA WantedIsRange ==
    ASSUME TransferInv, cur # NoFile PROVE Wanted[1] \in Nat /\ Wanted[2] \in Nat
<1> DEFINE out == missing_ranges(dl)
<1>1. DownloadOf(dl, FileSize(cur, Negotiated)) /\ ~is_complete(dl)
  BY DEF TransferInv, FetchOK
<1>2. out # <<>> /\ out \in Seq(Nat \X Nat)
  BY <1>1, CompleteMeans, MissingRanges DEF RunsBelow
<1> HIDE DEF out
<1>3. out[1] \in Nat \X Nat
  BY <1>2
<1> QED BY <1>3 DEF out, Wanted

LEMMA ChunkKeeps ==
    ASSUME TransferInv, NEW r \in replies, recv_chunk(r) PROVE TransferInv'
<1> DEFINE d == Received(dl, r.offset, r.data, tick)
           n == FileSize(cur, Negotiated)
<1>1. cur # NoFile /\ cur \in Files /\ r.name = cur /\ CanReceive(dl, r.offset, Len(r.data))
  BY DEF recv_chunk, Expected, TransferInv, FetchTypeOK
<1>2. r.offset \in Nat /\ r.data \in Seq({cur} \X Versions)
  BY <1>1 DEF TransferInv, DatagramsOK
<1>3. r.data \in Seq(Range(r.data)) /\ Range(r.data) \subseteq {cur} \X Versions
  BY SMTT(60), <1>2 DEF Range
<1>4. \A x \in {cur} \X Versions : x # Absent /\ x[1] = cur
  BY <1>1, TransferAssumption
<1>5. DownloadOf(dl, n)
  BY <1>1 DEF TransferInv, FetchOK
<1>6. /\ DownloadOf(d, n)
      /\ \A i \in 0..(n - 1) : d.bytes[i] = dl.bytes[i] \/ d.bytes[i] \in Range(r.data)
  BY <1>1, <1>2, <1>3, <1>4, <1>5, ReceivedKeeps
<1>7. DOMAIN d.bytes = 0..(n - 1) /\ DOMAIN dl.bytes = 0..(n - 1) /\ n \in Nat
  BY <1>5, <1>6 DEF DownloadOf
<1>8. d.bytes = [i \in 0..(n - 1) |-> d.bytes[i]]
  BY <1>7 DEF Received
<1>9. \A i \in DOMAIN d.bytes : d.bytes[i] # Absent => d.bytes[i][1] = cur
  BY <1>1, <1>3, <1>4, <1>6, <1>7 DEF TransferInv, NoForeignBytes
<1>10. CASE ~is_complete(d)
  <2>1. dl' = d /\ UNCHANGED <<cur, result, cache, content, requests, replies>>
    BY <1>10 DEF recv_chunk
  <2> HIDE DEF d
  <2>2. NoForeignBytes'
    BY <1>9, <2>1 DEF NoForeignBytes
  <2>3. FetchOK'
    BY <1>6, <1>10, <2>1 DEF FetchOK, TransferInv
  <2>4. FetchTypeOK' /\ DatagramsOK' /\ OnlyVerifiedCached'
    BY <2>1 DEF TransferInv, FetchTypeOK, DatagramsOK, OnlyVerifiedCached
  <2> QED BY <2>2, <2>3, <2>4 DEF TransferInv
<1>11. CASE is_complete(d) /\ HashMatches(d, cur)
  <2>1. Ends("ok") /\ cache' = [cache EXCEPT ![cur] = d.bytes] /\ UNCHANGED <<content, requests, replies>>
    BY <1>11 DEF recv_chunk
  <2> HIDE DEF d
  <2>2. d.bytes = [i \in 0..(n - 1) |-> <<cur, Negotiated>>]
    BY <1>7, <1>8, <1>11 DEF HashMatches
  <2> QED BY <1>1, <2>1, <2>2, EndsKeeps
<1>12. CASE is_complete(d) /\ ~HashMatches(d, cur)
  <2>1. Ends("hash mismatch") /\ UNCHANGED cache /\ UNCHANGED <<content, requests, replies>>
    BY <1>12 DEF recv_chunk
  <2> QED BY <1>1, <2>1, EndsKeeps
<1> QED BY <1>10, <1>11, <1>12

LEMMA ServeKeeps ==
    ASSUME TransferInv, NEW q \in requests, serve_chunk(q) PROVE TransferInv'
<1> DEFINE total == FileSize(q.name, content[q.name])
           end == Min({q.offset + Min({q.len, ChunkCap}), total})
           data == [i \in 1..(end - q.offset) |-> <<q.name, content[q.name]>>]
<1>1. q.name \in Files /\ q.offset \in Nat /\ q.len \in Nat /\ content[q.name] \in Versions
  BY DEF TransferInv, DatagramsOK, FetchTypeOK
<1>2. total \in Nat /\ ChunkCap \in Nat /\ q.offset <= total
  BY <1>1, TransferAssumption DEF serve_chunk
<1>3. end - q.offset \in Nat
  <2> HIDE DEF total
  <2>1. Min({q.len, ChunkCap}) \in Nat
    BY <1>1, <1>2, MinOfTwo
  <2>2. q.offset + Min({q.len, ChunkCap}) \in Nat
    BY <1>1, <2>1
  <2>3. end = IF q.offset + Min({q.len, ChunkCap}) <= total THEN q.offset + Min({q.len, ChunkCap}) ELSE total
    BY <1>2, <2>2, MinOfTwo
  <2> HIDE DEF end
  <2> QED BY <1>1, <1>2, <2>1, <2>3
<1>4. data \in Seq({q.name} \X Versions)
  <2>1. <<q.name, content[q.name]>> \in {q.name} \X Versions
    BY <1>1
  <2> HIDE DEF end
  <2> QED BY <1>3, <2>1
<1>5. replies' = replies \cup {[name |-> q.name, offset |-> q.offset, total |-> total, data |-> data]}
  BY DEF serve_chunk
<1> HIDE DEF data, total
<1>6. UNCHANGED <<dl, cur, result, cache, content, requests>>
  BY DEF serve_chunk, fetchVars
<1>7. DatagramsOK'
  BY SMTT(60), <1>1, <1>4, <1>5, <1>6 DEF TransferInv, DatagramsOK
<1>8. FetchTypeOK' /\ FetchOK' /\ OnlyVerifiedCached' /\ NoForeignBytes'
  BY <1>6 DEF TransferInv, FetchTypeOK, FetchOK, OnlyVerifiedCached, NoForeignBytes
<1> QED BY <1>7, <1>8 DEF TransferInv

LEMMA TransferStep == TransferInv /\ [TransferNext]_transferVars => TransferInv'
<1> SUFFICES ASSUME TransferInv, [TransferNext]_transferVars PROVE TransferInv'
  OBVIOUS
<1> USE DEF TransferInv
<1>1. ASSUME NEW f \in Files, fetch_resource_file(f) PROVE TransferInv'
  <2>1. DatagramsOK' /\ FetchTypeOK'
    BY <1>1 DEF fetch_resource_file, DatagramsOK, FetchTypeOK
  <2>2. OnlyVerifiedCached'
    BY <1>1 DEF fetch_resource_file, OnlyVerifiedCached, FetchTypeOK
  <2>3. FetchOK'
    <3>1. CASE FileSize(f, Negotiated) = 0
      BY <1>1, <3>1 DEF fetch_resource_file, FetchOK
    <3>2. CASE FileSize(f, Negotiated) # 0
      <4> DEFINE n == FileSize(f, Negotiated)
      <4>1. n \in Nat /\ n > 0 /\ cur' = f /\ dl' = Download_new(n, 0)
        BY <1>1, <3>2, TransferAssumption DEF fetch_resource_file
      <4> HIDE DEF n
      <4>2. DownloadOf(dl', n)
        BY <4>1, NewDownload
      <4>3. ~is_complete(dl')
        <5>1. dl'.received = 0 /\ DOMAIN dl'.bytes = 0..(n - 1)
          BY <4>1 DEF Download_new
        <5>2. Cardinality(0..(n - 1)) = n
          BY <4>1, FS_Interval
        <5> QED BY <4>1, <5>1, <5>2 DEF is_complete
      <4> QED BY <4>1, <4>2, <4>3 DEF FetchOK, n
    <3> QED BY <3>1, <3>2
  <2>4. NoForeignBytes'
    <3>1. CASE FileSize(f, Negotiated) = 0
      BY <1>1, <3>1 DEF fetch_resource_file, NoForeignBytes
    <3>2. CASE FileSize(f, Negotiated) # 0
      <4>1. dl' = Download_new(FileSize(f, Negotiated), 0)
        BY <1>1, <3>2 DEF fetch_resource_file
      <4>2. \A i \in DOMAIN dl'.bytes : dl'.bytes[i] = Absent
        BY <4>1 DEF Download_new
      <4> QED BY <4>2 DEF NoForeignBytes
    <3> QED BY <3>1, <3>2
  <2> QED BY <2>1, <2>2, <2>3, <2>4
<1>2. CASE stall
  BY <1>2, EndsKeeps DEF stall
<1>3. CASE encode_refused
  BY <1>3, EndsKeeps DEF encode_refused
<1>4. CASE send_request
  <2>1. Wanted[1] \in Nat /\ Wanted[2] \in Nat /\ cur \in Files
    BY <1>4, WantedIsRange DEF send_request, FetchTypeOK
  <2>2. DatagramsOK'
    BY SMTT(60), <1>4, <2>1 DEF send_request, DatagramsOK
  <2> QED BY <1>4, <2>2 DEF send_request, FetchTypeOK, FetchOK, OnlyVerifiedCached, NoForeignBytes
<1>5. CASE recv_nothing
  BY <1>5 DEF recv_nothing, FetchTypeOK, DatagramsOK, FetchOK, OnlyVerifiedCached, NoForeignBytes
<1>6. ASSUME NEW r \in replies, recv_truncated(r) PROVE TransferInv'
  BY <1>6 DEF recv_truncated, FetchTypeOK, DatagramsOK, FetchOK, OnlyVerifiedCached, NoForeignBytes
<1>7. ASSUME NEW r \in replies, recv_wrong(r) PROVE TransferInv'
  BY <1>7, EndsKeeps DEF recv_wrong
<1>8. ASSUME NEW r \in replies, recv_chunk(r) PROVE TransferInv'
  BY <1>8, ChunkKeeps
<1>9. ASSUME NEW f \in Files, NEW v \in Versions, edit(f, v) PROVE TransferInv'
  BY <1>9 DEF edit, fetchVars, FetchTypeOK, DatagramsOK, FetchOK, OnlyVerifiedCached, NoForeignBytes
<1>10. ASSUME NEW q \in requests, serve_chunk(q) PROVE TransferInv'
  BY <1>10, ServeKeeps
<1>11. ASSUME NEW q, lose_request(q) \/ lose_reply(q) PROVE TransferInv'
  BY <1>11 DEF lose_request, lose_reply, fetchVars, FetchTypeOK, DatagramsOK, FetchOK, OnlyVerifiedCached,
               NoForeignBytes
<1>12. CASE UNCHANGED transferVars
  BY <1>12 DEF transferVars, fetchVars, FetchTypeOK, DatagramsOK, FetchOK, OnlyVerifiedCached, NoForeignBytes
<1> QED BY <1>1, <1>2, <1>3, <1>4, <1>5, <1>6, <1>7, <1>8, <1>9, <1>10, <1>11, <1>12
        DEF TransferNext, ClientStep

(* For any files, versions and chunks, however late, lost, repeated or     *)
(* stale the datagrams are: what is committed under a file's hash is that  *)
(* file, and no chunk lands in another file's download. *)
THEOREM FetchesAlwaysSound == TransferSpec => []TransferSound
<1>1. TransferInit => TransferInv
  BY TransferAssumption
  DEF TransferInit, DownloadInit, TransferInv, FetchTypeOK, DatagramsOK, FetchOK, OnlyVerifiedCached, NoForeignBytes
<1>2. TransferInv /\ [TransferNext]_transferVars => TransferInv'
  BY TransferStep
<1>3. TransferInv => TransferSound
  BY DEF TransferInv, TransferSound
<1> QED BY <1>1, <1>2, <1>3, PTL DEF TransferSpec

-----------------------------------------------------------------------------
(* The lanes. *)

(* The distance in a rotation of n places. *)
Gap(x, p, n) == IF x >= p THEN x - p ELSE x - p + n

LEMMA ModGap ==
    ASSUME NEW n \in Nat \ {0}, NEW x \in 0..(n - 1), NEW p \in 0..(n - 1)
    PROVE  (x - p) % n = Gap(x, p, n)
<1>1. CASE x >= p
  <2>1. x - p \in 0..(n - 1)
    BY <1>1
  <2> QED BY <1>1, <2>1 DEF Gap
<1>2. CASE x < p
  <2>1. x - p + n \in 0..(n - 1)
    BY <1>2
  <2>2. \E k \in Int : x - p = k * n + (x - p + n)
    <3>1. x - p = (0 - 1) * n + (x - p + n)
      OBVIOUS
    <3> QED BY <3>1
  <2> QED BY <1>2, <2>1, <2>2 DEF Gap
<1> QED BY <1>1, <1>2

LEMMA NextPlace ==
    ASSUME NEW n \in Nat \ {0}, NEW x \in 0..(n - 1)
    PROVE  (x + 1) % n = IF x = n - 1 THEN 0 ELSE x + 1
<1>1. CASE x = n - 1
  BY <1>1
<1>2. CASE x # n - 1
  BY <1>2
<1> QED BY <1>1, <1>2

(* What is left of the turn of lane m. *)
Turn(m) == IF m = pos /\ remaining[m] > 0 THEN remaining[m] ELSE Weight(m)

(* The jobs that may be served before lane l is. *)
Ahead(l) == UNION {{m} \X (1..Turn(m)) : m \in {x \in Lanes : Gap(x, pos, NLanes) < Gap(l, pos, NLanes)}}

LaneInv ==
    /\ queues \in [Lanes -> Nat] /\ bypassed \in [Lanes -> Nat]
    /\ remaining \in [Lanes -> Nat] /\ pos \in Lanes
    /\ \A l \in Lanes : remaining[l] <= Weight(l)
    /\ \A l \in Lanes : l # pos => remaining[l] = 0
    /\ \A l \in Lanes : queues[l] = 0 => bypassed[l] = 0
    /\ \A l \in Lanes : bypassed[l] + Cardinality(Ahead(l)) <= Cardinality(OthersTurns(l))

LEMMA TurnsFinite == 
    ASSUME NEW l \in Lanes
    PROVE  IsFiniteSet(OthersTurns(l)) /\ Cardinality(OthersTurns(l)) \in Nat
<1> DEFINE F == {{m} \X (1..Weight(m)) : m \in Lanes \ {l}}
<1>1. IsFiniteSet(Lanes)
  BY LaneAssumption, FS_Interval DEF Lanes
<1>2. IsFiniteSet(Lanes \ {l})
  BY <1>1, FS_Subset
<1>3. IsFiniteSet(F)
  <2> DEFINE f == [m \in Lanes \ {l} |-> {m} \X (1..Weight(m))]
  <2>1. f \in Surjection(Lanes \ {l}, F)
    BY DEF Surjection
  <2> HIDE DEF f, F
  <2> QED BY <1>2, <2>1, FS_Surjection
<1>4. \A m \in Lanes : IsFiniteSet({m} \X (1..Weight(m)))
  <2> TAKE m \in Lanes
  <2>1. IsFiniteSet({m}) /\ IsFiniteSet(1..Weight(m))
    <3>1. 1 \in Int /\ Weight(m) \in Int
      BY LaneAssumption
    <3>2. IsFiniteSet(1..Weight(m))
      BY <3>1, FS_Interval
    <3> QED BY <3>2, FS_Singleton
  <2> QED BY <2>1, FS_Product
<1>5. \A S \in F : IsFiniteSet(S)
  BY <1>4
<1>6. IsFiniteSet(UNION F)
  <2> HIDE DEF F
  <2> QED BY <1>3, <1>5, FS_UNION
<1> QED BY <1>6, FS_CardinalityType DEF OthersTurns

LEMMA AheadIs ==
    ASSUME NEW l \in Lanes, NEW p
    PROVE  p \in Ahead(l) <=> \E m \in Lanes : /\ Gap(m, pos, NLanes) < Gap(l, pos, NLanes)
                                               /\ \E j \in 1..Turn(m) : p = <<m, j>>
  BY DEF Ahead

LEMMA OthersIs ==
    ASSUME NEW l \in Lanes, NEW p
    PROVE  p \in OthersTurns(l) <=> \E m \in Lanes \ {l} : \E j \in 1..Weight(m) : p = <<m, j>>
  BY DEF OthersTurns

LEMMA GapType ==
    ASSUME NEW x \in Lanes, NEW p \in Lanes
    PROVE  Gap(x, p, NLanes) \in 0..(NLanes - 1)
  BY LaneAssumption DEF Lanes, Gap

(* A lane waits at most for a turn of each other lane. *)
LEMMA AheadBounded ==
    ASSUME pos \in Lanes, remaining \in [Lanes -> Nat], \A l \in Lanes : remaining[l] <= Weight(l), NEW l \in Lanes
    PROVE  /\ IsFiniteSet(Ahead(l)) /\ Cardinality(Ahead(l)) \in Nat
           /\ Cardinality(Ahead(l)) <= Cardinality(OthersTurns(l))
<1>1. \A m \in Lanes : Turn(m) \in Nat /\ Turn(m) <= Weight(m)
  BY LaneAssumption DEF Turn
<1>2. ASSUME NEW p \in Ahead(l) PROVE p \in OthersTurns(l)
  <2>1. PICK m \in Lanes : Gap(m, pos, NLanes) < Gap(l, pos, NLanes) /\ \E j \in 1..Turn(m) : p = <<m, j>>
    BY AheadIs
  <2>2. PICK j \in 1..Turn(m) : p = <<m, j>>
    BY <2>1
  <2>3. m # l
    BY <2>1, GapType
  <2>4. j \in 1..Weight(m)
    BY <1>1, <2>2, LaneAssumption
  <2> QED BY <2>2, <2>3, <2>4, OthersIs
<1>3. Ahead(l) \subseteq OthersTurns(l)
  BY <1>2
<1> QED BY <1>3, TurnsFinite, FS_Subset, FS_CardinalityType

TurnsFit == pos \in Lanes /\ remaining \in [Lanes -> Nat] /\ \A l \in Lanes : remaining[l] <= Weight(l)

AheadFits == \A l \in Lanes : /\ IsFiniteSet(Ahead(l)) /\ Cardinality(Ahead(l)) \in Nat
                              /\ Cardinality(Ahead(l)) <= Cardinality(OthersTurns(l))

LEMMA FitsAhead == TurnsFit => AheadFits
  BY AheadBounded DEF TurnsFit, AheadFits

LEMMA LaneStart == LaneInit => LaneInv
<1> SUFFICES ASSUME LaneInit PROVE LaneInv
  OBVIOUS
<1>1. /\ queues \in [Lanes -> Nat] /\ bypassed \in [Lanes -> Nat]
      /\ remaining \in [Lanes -> Nat] /\ pos \in Lanes
      /\ \A l \in Lanes : remaining[l] = 0 /\ bypassed[l] = 0
  BY LaneAssumption DEF LaneInit, Lanes
<1>2. \A l \in Lanes : remaining[l] <= Weight(l)
  BY <1>1, LaneAssumption
<1>3. \A l \in Lanes : bypassed[l] + Cardinality(Ahead(l)) <= Cardinality(OthersTurns(l))
  BY <1>1, <1>2, AheadBounded
<1> QED BY <1>1, <1>2, <1>3 DEF LaneInv

LEMMA ServeStep == ASSUME LaneInv, NEW lane \in Lanes, pop_next(lane) PROVE LaneInv'
<1> DEFINE rem == (IF remaining[lane] = 0 THEN Weight(lane) ELSE remaining[lane]) - 1
           over == TurnOver(queues[lane] - 1, rem)
           d(x) == Gap(x, pos, NLanes)
           e(x) == Gap(x, pos', NLanes)
<1>0. NLanes \in Nat \ {0} /\ \A m \in Lanes : Weight(m) \in Nat \ {0}
  BY LaneAssumption
<1>1. /\ queues \in [Lanes -> Nat] /\ bypassed \in [Lanes -> Nat]
      /\ remaining \in [Lanes -> Nat] /\ pos \in Lanes
      /\ \A l \in Lanes : remaining[l] <= Weight(l)
      /\ \A l \in Lanes : l # pos => remaining[l] = 0
      /\ \A l \in Lanes : queues[l] = 0 => bypassed[l] = 0
  BY DEF LaneInv
<1>2. \A m \in Lanes : Distance(m) = d(m) /\ d(m) \in 0..(NLanes - 1)
  BY <1>0, <1>1, ModGap, GapType DEF Distance, Lanes
<1>3. /\ queues[lane] > 0
      /\ \A l \in Lanes : d(l) < d(lane) => queues[l] = 0
      /\ queues' = [queues EXCEPT ![lane] = @ - 1]
      /\ pos' = IF over THEN (lane + 1) % NLanes ELSE lane
      /\ remaining' = [l \in Lanes |-> IF l = lane THEN IF over THEN 0 ELSE rem ELSE AfterSkip(l, lane)]
      /\ bypassed' = [l \in Lanes |-> IF l = lane \/ queues[l] = 0 THEN 0 ELSE bypassed[l] + 1]
  BY <1>2 DEF pop_next
<1>4. rem \in Nat /\ rem < Weight(lane) /\ (over <=> queues[lane] - 1 = 0 \/ rem = 0)
  BY <1>0, <1>1 DEF TurnOver
<1>5. rem + 1 = Turn(lane)
  BY <1>0, <1>1 DEF Turn
<1> HIDE DEF rem, over
<1>6. pos' \in Lanes /\ pos' = IF over THEN (IF lane = NLanes - 1 THEN 0 ELSE lane + 1) ELSE lane
  <2>1. lane \in 0..(NLanes - 1)
    BY DEF Lanes
  <2>2. (lane + 1) % NLanes = IF lane = NLanes - 1 THEN 0 ELSE lane + 1
    BY <1>0, <2>1, NextPlace
  <2>3. (IF lane = NLanes - 1 THEN 0 ELSE lane + 1) \in Lanes
    BY <1>0, <2>1 DEF Lanes
  <2> QED BY <1>3, <2>2, <2>3
<1>7. queues' \in [Lanes -> Nat] /\ bypassed' \in [Lanes -> Nat]
  BY <1>1, <1>3
<1>8. \A l \in Lanes : AfterSkip(l, lane) = IF d(l) < d(lane) THEN 0 ELSE remaining[l]
  BY <1>2 DEF AfterSkip
<1>9. \A l \in Lanes : l # lane => AfterSkip(l, lane) = 0
  <2> TAKE l \in Lanes
  <2> HAVE l # lane
  <2>1. CASE l = pos
    <3>1. d(l) = 0
      BY <1>0, <2>1 DEF Gap, Lanes
    <3>2. d(lane) # 0
      BY <1>0, <1>1, <2>1 DEF Gap, Lanes
    <3>3. d(l) < d(lane)
      BY <1>2, <3>1, <3>2
    <3> QED BY <1>8, <3>3
  <2>2. CASE l # pos
    BY <1>1, <1>8, <2>2
  <2> QED BY <2>1, <2>2
<1>10. \A l \in Lanes : remaining'[l] = IF l = lane /\ ~over THEN rem ELSE 0
  BY <1>3, <1>9
<1>11. /\ remaining' \in [Lanes -> Nat] /\ \A l \in Lanes : remaining'[l] <= Weight(l)
       /\ \A l \in Lanes : l # pos' => remaining'[l] = 0
  <2>1. \A l \in Lanes : remaining'[l] \in Nat /\ remaining'[l] <= Weight(l)
    BY <1>0, <1>4, <1>10
  <2>2. remaining' \in [Lanes -> Nat]
    BY <1>3, <2>1
  <2>3. \A l \in Lanes : l # pos' => remaining'[l] = 0
    BY <1>3, <1>10
  <2> QED BY <2>1, <2>2, <2>3
<1>12. \A l \in Lanes : queues'[l] = 0 => bypassed'[l] = 0
  BY <1>1, <1>3
<1>13. \A l \in Lanes : Cardinality(Ahead(l)') \in Nat /\ Cardinality(Ahead(l)') <= Cardinality(OthersTurns(l)) /\ IsFiniteSet(Ahead(l)')
  <2>1. TurnsFit'
    BY <1>6, <1>11 DEF TurnsFit
  <2>2. TurnsFit' => AheadFits'
    BY FitsAhead, PTL
  <2>3. AheadFits'
    BY <2>1, <2>2
  <2> QED BY <2>3 DEF AheadFits
<1>14. ASSUME NEW l \in Lanes PROVE bypassed'[l] + Cardinality(Ahead(l)') <= Cardinality(OthersTurns(l))
  <2>1. CASE l = lane \/ queues[l] = 0
    <3>1. bypassed'[l] = 0
      BY <1>3, <2>1
    <3> QED BY <1>13, <3>1, TurnsFinite
  <2>2. CASE l # lane /\ queues[l] # 0
    <3>1. bypassed'[l] = bypassed[l] + 1
      BY <1>3, <2>2
    <3>2. d(lane) < d(l)
      <4>1. d(lane) # d(l)
        <5>1. lane \in 0..(NLanes - 1) /\ l \in 0..(NLanes - 1) /\ pos \in 0..(NLanes - 1) /\ NLanes \in Nat
          BY <1>0, <1>1 DEF Lanes
        <5>2. lane # l
          BY <2>2
        <5> QED BY <5>1, <5>2 DEF Gap
      <4>2. ~(d(l) < d(lane))
        BY <1>3, <2>2
      <4> QED BY <1>2, <4>1, <4>2
    <3>3. <<lane, Turn(lane)>> \in Ahead(l)
      <4>1. Turn(lane) \in 1..Turn(lane)
        BY <1>4, <1>5
      <4> QED BY <3>2, <4>1, AheadIs
    <3>4. \A m \in Lanes : e(m) < e(l) => /\ d(m) < d(l) /\ (m = lane => ~over)
      <4>1. CASE over
        BY <1>0, <1>1, <1>6, <3>2, <4>1 DEF Gap, Lanes
      <4>2. CASE ~over
        BY <1>0, <1>1, <1>6, <3>2, <4>2 DEF Gap, Lanes
      <4> QED BY <4>1, <4>2
    <3>5. \A m \in Lanes : m # lane => Turn(m)' = Weight(m)
      BY <1>10 DEF Turn
    <3>6. \A m \in Lanes : e(m) < e(l) /\ m # lane => Turn(m) = Weight(m)
      <4>1. \A m \in Lanes : e(m) < e(l) /\ m # lane => d(lane) < d(m)
        <5>1. CASE over
          BY <1>0, <1>1, <1>6, <3>2, <5>1 DEF Gap, Lanes
        <5>2. CASE ~over
          BY <1>0, <1>1, <1>6, <3>2, <5>2 DEF Gap, Lanes
        <5> QED BY <5>1, <5>2
      <4>2. d(pos) = 0
        BY <1>0, <1>1 DEF Gap, Lanes
      <4>3. \A m \in Lanes : e(m) < e(l) /\ m # lane => m # pos
        BY <1>2, <4>1, <4>2
      <4> QED BY <4>3 DEF Turn
    <3>7. ~over => Turn(lane)' = rem
      BY <1>4, <1>6, <1>10 DEF Turn
    <3>8. ASSUME NEW p \in Ahead(l)' PROVE p \in Ahead(l) \ {<<lane, Turn(lane)>>}
      <4>1. PICK m \in Lanes : e(m) < e(l) /\ \E j \in 1..Turn(m)' : p = <<m, j>>
        BY <3>8 DEF Ahead
      <4>2. PICK j \in 1..Turn(m)' : p = <<m, j>>
        BY <4>1
      <4>3. d(m) < d(l)
        BY <3>4, <4>1
      <4>4. CASE m = lane
        <5>1. j \in 1..rem
          BY <3>4, <3>7, <4>1, <4>2, <4>4
        <5>2. j \in 1..Turn(lane) /\ j # Turn(lane)
          BY <1>4, <1>5, <5>1
        <5>3. p \in Ahead(l)
          BY <4>2, <4>3, <4>4, <5>2, AheadIs
        <5> QED BY <4>2, <4>4, <5>2, <5>3
      <4>5. CASE m # lane
        <5>1. j \in 1..Turn(m)
          BY <3>5, <3>6, <4>1, <4>2, <4>5
        <5>2. p \in Ahead(l)
          BY <4>2, <4>3, <5>1, AheadIs
        <5> QED BY <4>2, <4>5, <5>2
      <4> QED BY <4>4, <4>5
    <3>9. Ahead(l)' \subseteq Ahead(l) \ {<<lane, Turn(lane)>>}
      BY <3>8
    <3>10. IsFiniteSet(Ahead(l)) /\ Cardinality(Ahead(l)) \in Nat
      BY <1>1, AheadBounded
    <3>11. /\ IsFiniteSet(Ahead(l) \ {<<lane, Turn(lane)>>})
           /\ Cardinality(Ahead(l) \ {<<lane, Turn(lane)>>}) = Cardinality(Ahead(l)) - 1
      BY <3>3, <3>10, FS_RemoveElement
    <3>12. Cardinality(Ahead(l)') <= Cardinality(Ahead(l)) - 1
      BY <3>9, <3>11, FS_Subset
    <3>13. bypassed[l] + Cardinality(Ahead(l)) <= Cardinality(OthersTurns(l)) /\ bypassed[l] \in Nat
      BY <1>1 DEF LaneInv
    <3> QED BY <1>13, <3>1, <3>10, <3>12, <3>13, TurnsFinite
  <2> QED BY <2>1, <2>2
<1> QED BY <1>6, <1>7, <1>11, <1>12, <1>14 DEF LaneInv

LEMMA LaneStep == LaneInv /\ [LaneNext]_laneVars => LaneInv'
<1> SUFFICES ASSUME LaneInv, [LaneNext]_laneVars PROVE LaneInv'
  OBVIOUS
<1>1. CASE UNCHANGED laneVars
  BY <1>1 DEF laneVars, LaneInv, Ahead, Turn
<1>2. ASSUME NEW l \in Lanes, enqueue(l) PROVE LaneInv'
  <2>1. UNCHANGED <<pos, remaining, bypassed>> /\ queues' = [queues EXCEPT ![l] = @ + 1]
    BY <1>2 DEF enqueue
  <2>2. queues' \in [Lanes -> Nat] /\ \A m \in Lanes : queues'[m] = 0 => queues[m] = 0
    BY <2>1 DEF LaneInv
  <2>3. \A m \in Lanes : Ahead(m)' = Ahead(m)
    BY <2>1 DEF Ahead, Turn
  <2> QED BY <2>1, <2>2, <2>3 DEF LaneInv
<1>3. ASSUME pop_none PROVE LaneInv'
  <2>1. /\ pos' = 0 /\ remaining' = [l \in Lanes |-> 0] /\ UNCHANGED <<queues, bypassed>>
        /\ \A l \in Lanes : queues[l] = 0
    BY <1>3 DEF pop_none
  <2>2. pos' \in Lanes /\ remaining' \in [Lanes -> Nat] /\ \A l \in Lanes : remaining'[l] = 0 /\ remaining'[l] <= Weight(l)
    BY <2>1, LaneAssumption DEF Lanes
  <2>3. \A l \in Lanes : Cardinality(Ahead(l)') \in Nat /\ Cardinality(Ahead(l)') <= Cardinality(OthersTurns(l))
    <3>1. TurnsFit'
      BY <2>2 DEF TurnsFit
    <3>2. TurnsFit' => AheadFits'
      BY FitsAhead, PTL
    <3>3. AheadFits'
      BY <3>1, <3>2
    <3> QED BY <3>3 DEF AheadFits
  <2>4. \A l \in Lanes : bypassed'[l] = 0
    BY <2>1 DEF LaneInv
  <2> QED BY <2>1, <2>2, <2>3, <2>4, TurnsFinite DEF LaneInv
<1> QED BY <1>1, <1>2, <1>3, ServeStep DEF LaneNext

(* However the jobs arrive, a lane with a job is passed over at most once for
   each job of one turn of the other lanes. *)
THEOREM NoLaneMonopoly == LaneSpec => []BoundedBypass
<1>1. LaneInv => BoundedBypass
  <2> SUFFICES ASSUME LaneInv, NEW l \in Lanes PROVE bypassed[l] <= Cardinality(OthersTurns(l))
    BY DEF BoundedBypass
  <2>1. Cardinality(Ahead(l)) \in Nat /\ Cardinality(OthersTurns(l)) \in Nat
    BY AheadBounded, TurnsFinite DEF LaneInv
  <2> QED BY <2>1 DEF LaneInv
<1> QED BY <1>1, LaneStart, LaneStep, PTL DEF LaneSpec

(* The download crate keeps its promises together: the resume list is exact
   and no lane is starved, for files of any length, any chunks, any lanes and
   weights. *)
THEOREM DownloadsAlwaysSound == DownloadSpec /\ LaneSpec => []DownloadSound
  BY ResumeListExact, NoLaneMonopoly, PTL DEF DownloadSound

-----------------------------------------------------------------------------
(* The cache: the recency list names every tracked object once. *)

(* The list names the members of S, each once. *)
Lists(list, S) ==
    /\ list \in Seq(S)
    /\ \A a, b \in 1..Len(list) : list[a] = list[b] => a = b
    /\ \A x \in S : \E a \in 1..Len(list) : list[a] = x

(* Its length is then how many they are. *)
LEMMA ListsCount ==
    ASSUME NEW list, NEW S, Lists(list, S)
    PROVE  /\ IsFiniteSet(S) /\ Len(list) = Cardinality(S) /\ ToSet(list) = S
<1>1. list \in [1..Len(list) -> S] /\ Len(list) \in Nat /\ DOMAIN list = 1..Len(list)
  BY DEF Lists
<1>2. list \in Bijection(1..Len(list), S)
  BY <1>1 DEF Lists, Bijection, Injection, Surjection, IsInjective
<1>3. ExistsBijection(1..Len(list), S)
  BY <1>2 DEF ExistsBijection
<1>4. IsFiniteSet(1..Len(list))
  BY <1>1, FS_Interval
<1>5. IsFiniteSet(S)
  BY <1>3, <1>4, FS_Bijection
<1>6. Cardinality(S) = Len(list)
  BY <1>1, <1>3, FS_CountingElements
<1>7. ToSet(list) = S
  BY <1>1 DEF ToSet, Lists
<1> QED BY <1>5, <1>6, <1>7

(* As many entries as members, none twice: every member is there. *)
LEMMA AllListed ==
    ASSUME NEW S, IsFiniteSet(S), NEW f \in [1..Cardinality(S) -> S],
           \A a, b \in 1..Cardinality(S) : f[a] = f[b] => a = b
    PROVE  Lists(f, S)
<1> DEFINE n == Cardinality(S)
<1>1. n \in Nat
  BY FS_CardinalityType
<1>2. Cardinality(1..n) = n
  <2>1. Cardinality(1..n) = IF 1 > n THEN 0 ELSE n - 1 + 1
    BY <1>1, FS_Interval
  <2> QED BY <1>1, <2>1
<1>3. f \in Injection(1..n, S)
  BY DEF Injection, IsInjective
<1>4. f \in Surjection(1..n, S)
  BY <1>2, <1>3, FS_Injection
<1>5. f \in Seq(S) /\ Len(f) = n
  BY <1>1
<1> QED BY <1>4, <1>5 DEF Lists, Surjection

(* retain keeps each of the wanted objects once. *)
LEMMA RetainLists ==
    ASSUME NEW list, NEW S, NEW T, Lists(list, S), NEW r \in retain(list, T)
    PROVE  Lists(r, S \cap T)
<1> DEFINE kept == {i \in DOMAIN list : list[i] \in T}
           n == Cardinality(kept)
<1>1. list \in Seq(S) /\ DOMAIN list = 1..Len(list) /\ Len(list) \in Nat
  BY DEF Lists
<1>2. IsFiniteSet(kept) /\ n \in Nat
  <2>1. IsFiniteSet(1..Len(list))
    BY <1>1, FS_Interval
  <2>2. kept \in SUBSET (1..Len(list))
    BY <1>1
  <2> QED BY <2>1, <2>2, FS_Subset, FS_CardinalityType
<1>3. PICK f \in InOrder(kept) : r = [k \in 1..n |-> list[f[k]]]
  BY DEF retain
<1>4. f \in [1..n -> kept] /\ \A a, b \in 1..n : a < b => f[a] < f[b]
  BY <1>3 DEF InOrder
<1>5. \A a, b \in 1..n : f[a] = f[b] => a = b
  <2>1. \A a \in 1..n : f[a] \in 1..Len(list)
    BY <1>1, <1>4
  <2>2. ASSUME NEW a \in 1..n, NEW b \in 1..n, f[a] = f[b] PROVE a = b
    <3>1. f[a] \in Nat /\ f[b] \in Nat /\ ~(f[a] < f[b]) /\ ~(f[b] < f[a])
      BY <1>1, <2>1, <2>2
    <3>2. ~(a < b) /\ ~(b < a)
      BY <1>4, <3>1
    <3> QED BY <1>2, <3>2
  <2> QED BY <2>2
<1>6. Lists(f, kept)
  BY <1>2, <1>4, <1>5, AllListed
<1>7. Len(f) = n
  BY <1>2, <1>4
<1> HIDE DEF n
<1>8. \A k \in 1..n : f[k] \in 1..Len(list) /\ list[f[k]] \in S \cap T
  BY <1>1, <1>4
<1>9. r \in Seq(S \cap T) /\ Len(r) = n
  BY <1>2, <1>3, <1>8
<1>10. \A a, b \in 1..n : r[a] = r[b] => a = b
  BY <1>3, <1>5, <1>8 DEF Lists
<1>11. ASSUME NEW x \in S \cap T PROVE \E a \in 1..n : r[a] = x
  <2>1. PICK i \in 1..Len(list) : list[i] = x
    BY DEF Lists
  <2>2. i \in kept
    BY <1>1, <2>1, <1>11
  <2>3. PICK k \in 1..n : f[k] = i
    BY <1>6, <1>7, <2>2 DEF Lists
  <2> QED BY <1>3, <2>1, <2>3
<1> QED BY <1>9, <1>10, <1>11 DEF Lists

(* touch adds an object, or moves it, to the end. *)
LEMMA TouchLists ==
    ASSUME NEW list, NEW S, S \subseteq Hashes, NEW h \in Hashes, Lists(list, S), NEW r \in touch(list, h)
    PROVE  Lists(r, S \cup {h})
<1>1. PICK rest \in retain(list, Hashes \ {h}) : r = Append(rest, h)
  BY DEF touch
<1>2. Lists(rest, S \cap (Hashes \ {h}))
  BY <1>1, RetainLists
<1>3. S \cap (Hashes \ {h}) = S \ {h}
  OBVIOUS
<1>4. rest \in Seq(S \ {h}) /\ Len(rest) \in Nat
  BY <1>2, <1>3 DEF Lists
<1>5. \A a \in 1..Len(rest) : rest[a] \in S \ {h}
  BY <1>4
<1>6. Len(r) = Len(rest) + 1 /\ r[Len(rest) + 1] = h /\ \A a \in 1..Len(rest) : r[a] = rest[a]
  BY <1>1, <1>4
<1>7. r \in Seq(S \cup {h})
  <2>1. rest \in Seq(S \cup {h})
    BY <1>4
  <2> QED BY <1>1, <2>1
<1>8. \A a, b \in 1..Len(r) : r[a] = r[b] => a = b
  <2>1. \A a, b \in 1..Len(rest) : rest[a] = rest[b] => a = b
    BY <1>2 DEF Lists
  <2> QED BY <1>4, <1>5, <1>6, <2>1
<1>9. ASSUME NEW x \in S \cup {h} PROVE \E a \in 1..Len(r) : r[a] = x
  <2>1. CASE x = h
    BY <1>4, <1>6, <2>1
  <2>2. CASE x # h
    <3>1. PICK a \in 1..Len(rest) : rest[a] = x
      BY <1>2, <2>2, <1>3 DEF Lists
    <3> QED BY <1>4, <1>6, <3>1
  <2> QED BY <2>1, <2>2
<1> QED BY <1>7, <1>8, <1>9 DEF Lists

CacheInv ==
    /\ disk \in [Hashes -> {"absent", "good", "corrupt"}]
    /\ staged \subseteq Hashes /\ damage \in 0..MaxDamage
    /\ tracked \subseteq Hashes /\ Stored \subseteq tracked
    /\ Lists(lru, tracked)

(* Dropping objects from disk, table and list together. *)
LEMMA DropKeeps ==
    ASSUME CacheInv, NEW gone \in SUBSET Hashes,
           disk' = [h \in Hashes |-> IF h \in gone THEN "absent" ELSE disk[h]],
           tracked' = tracked \ gone, lru' \in retain(lru, Hashes \ gone), UNCHANGED <<staged, damage>>
    PROVE  CacheInv'
<1>1. Lists(lru', tracked \cap (Hashes \ gone))
  BY RetainLists DEF CacheInv
<1>2. tracked \cap (Hashes \ gone) = tracked'
  BY DEF CacheInv
<1>3. disk' \in [Hashes -> {"absent", "good", "corrupt"}]
  BY DEF CacheInv
<1>4. Stored' \subseteq tracked'
  BY DEF CacheInv, Stored
<1> QED BY <1>1, <1>2, <1>3, <1>4 DEF CacheInv

(* How far evict_to_fit goes: as far as is enough, or to the end. *)
LEMMA OldestAre ==
    ASSUME CacheInv, NEW protected
    PROVE  \E n \in 0..Len(lru) :
              /\ Victims(protected) = Oldest(protected, n)
              /\ Size(tracked \ Oldest(protected, n)) <= Quota \/ n = Len(lru)
<1> DEFINE enough == Enough(protected, Quota)
<1>1. Len(lru) \in Nat
  BY DEF CacheInv, Lists
<1>2. CASE enough = {}
  <2>1. Victims(protected) = Oldest(protected, Len(lru))
    BY <1>2 DEF Victims
  <2> QED BY <1>1, <2>1
<1>3. CASE enough # {}
  <2>1. enough \subseteq Nat
    BY <1>1 DEF Enough
  <2>2. PICK m \in enough : \A y \in enough : m <= y
    BY <1>3, <2>1, SmallestOf
  <2>3. Min(enough) \in enough
    BY <2>2 DEF Min
  <2>4. Victims(protected) = Oldest(protected, Min(enough))
    BY <1>3 DEF Victims
  <2>5. \A n \in enough : n \in 0..Len(lru) /\ Size(tracked \ Oldest(protected, n)) <= Quota
    BY DEF Enough
  <2> QED BY <2>3, <2>4, <2>5
<1> QED BY <1>2, <1>3

LEMMA CacheStart == CacheInit => CacheInv
<1> SUFFICES ASSUME CacheInit PROVE CacheInv
  OBVIOUS
<1>1. Lists(<<>>, {})
  BY DEF Lists
<1>2. damage \in 0..MaxDamage
  BY CacheAssumption DEF CacheInit
<1> QED BY <1>1, <1>2 DEF CacheInit, CacheInv, Stored

LEMMA CacheStep == CacheInv /\ [CacheNext]_cacheVars => CacheInv'
<1> SUFFICES ASSUME CacheInv, [CacheNext]_cacheVars PROVE CacheInv'
  OBVIOUS
<1>1. ASSUME NEW b \in Hashes, stage(b) PROVE CacheInv'
  BY <1>1 DEF CacheInv, stage, Stored
<1>2. ASSUME NEW b \in Hashes, commit(b) PROVE CacheInv'
  <2>1. CASE disk[b] = "corrupt"
    BY <1>2, <2>1 DEF CacheInv, commit, Stored
  <2>2. CASE disk[b] # "corrupt"
    <3>1. Lists(lru', tracked')
      BY <1>2, <2>2, TouchLists DEF commit, CacheInv
    <3>2. disk' = [disk EXCEPT ![b] = "good"] /\ tracked' = tracked \cup {b}
      BY <1>2, <2>2 DEF commit
    <3>3. Stored' \subseteq tracked'
      BY <3>2 DEF CacheInv, Stored
    <3> QED BY <1>2, <3>1, <3>2, <3>3 DEF CacheInv, commit
  <2> QED BY <2>1, <2>2
<1>3. ASSUME NEW h \in Hashes, get(h) PROVE CacheInv'
  <2>1. tracked \cup {h} = tracked
    BY <1>3 DEF CacheInv, get
  <2>2. Lists(lru', tracked)
    BY <1>3, <2>1, TouchLists DEF get, CacheInv
  <2> QED BY <1>3, <2>2 DEF CacheInv, get, Stored
<1>4. ASSUME NEW h \in Hashes, disk_damage(h) PROVE CacheInv'
  <2>1. damage' \in 0..MaxDamage
    BY <1>4, CacheAssumption DEF CacheInv, disk_damage
  <2>2. disk' \in [Hashes -> {"absent", "good", "corrupt"}] /\ Stored' = Stored
    BY <1>4 DEF CacheInv, disk_damage, Stored
  <2> QED BY <1>4, <2>1, <2>2 DEF CacheInv, disk_damage
<1>5. ASSUME NEW b \in Hashes, NEW h \in Hashes, commit_mismatch(b, h) PROVE CacheInv'
  BY <1>5 DEF CacheInv, commit_mismatch, Stored
<1>6. ASSUME NEW protected \in SUBSET Hashes, evict_to_fit(protected) PROVE CacheInv'
  <2> DEFINE gone == Victims(protected) \cap Hashes
  <2>1. Victims(protected) \subseteq Hashes
    <3>1. \A n \in 0..Len(lru) : Oldest(protected, n) \subseteq Hashes
      <4>1. \A i \in 1..Len(lru) : lru[i] \in Hashes
        BY DEF CacheInv, Lists
      <4> QED BY <4>1 DEF Oldest
    <3>2. PICK n : Victims(protected) = Oldest(protected, n) /\ n \in 0..Len(lru)
      BY OldestAre
    <3> QED BY <3>1, <3>2
  <2> QED BY <1>6, <2>1, DropKeeps DEF evict_to_fit
<1>7. ASSUME repair PROVE CacheInv'
  <2> DEFINE bad == {h \in tracked : disk[h] # "good"}
  <2>1. bad \in SUBSET Hashes
    BY DEF CacheInv
  <2> QED BY <1>7, <2>1, DropKeeps DEF repair
<1>8. ASSUME reopen PROVE CacheInv'
  <2>1. IsFiniteSet(Stored)
    <3>1. IsFiniteSet(tracked) /\ Stored \in SUBSET tracked
      BY ListsCount DEF CacheInv
    <3> QED BY <3>1, FS_Subset
  <2>2. lru' \in [1..Cardinality(Stored) -> Stored]
        /\ \A a, b \in 1..Cardinality(Stored) : a # b => lru'[a] # lru'[b]
    BY <1>8 DEF reopen, SetToSeqs
  <2>3. Lists(lru', Stored)
    BY <2>1, <2>2, AllListed
  <2> QED BY <1>8, <2>3 DEF CacheInv, reopen, Stored
<1>9. CASE UNCHANGED cacheVars
  BY <1>9 DEF CacheInv, cacheVars, Stored
<1> QED BY <1>1, <1>2, <1>3, <1>4, <1>5, <1>6, <1>7, <1>8, <1>9 DEF CacheNext
(* Whoever stays after an eviction fits or is protected. *)
LEMMA EvictionEnds ==
    ASSUME CacheInv, NEW protected \in SUBSET Hashes, evict_to_fit(protected)
    PROVE  /\ Size(tracked') <= Quota \/ tracked' \subseteq protected
           /\ \A h \in protected : disk'[h] = disk[h]
<1>1. PICK n \in 0..Len(lru) :
              /\ Victims(protected) = Oldest(protected, n)
              /\ Size(tracked \ Oldest(protected, n)) <= Quota \/ n = Len(lru)
  BY OldestAre
<1>2. tracked' = tracked \ Oldest(protected, n)
  BY <1>1 DEF evict_to_fit
<1>3. Size(tracked') <= Quota \/ tracked' \subseteq protected
  <2>1. CASE n = Len(lru)
    <3>1. \A h \in tracked : \E i \in 1..Len(lru) : lru[i] = h
      BY DEF CacheInv, Lists
    <3> QED BY <1>2, <2>1, <3>1 DEF Oldest
  <2>2. CASE Size(tracked \ Oldest(protected, n)) <= Quota
    BY <1>2, <2>2
  <2> QED BY <1>1, <2>1, <2>2
<1>4. \A h \in protected : disk'[h] = disk[h]
  <2>1. \A h \in protected : h \in Hashes /\ h \notin Victims(protected)
    BY <1>1 DEF Oldest
  <2>2. disk' = [h \in Hashes |-> IF h \in Victims(protected) THEN "absent" ELSE disk[h]]
    BY DEF evict_to_fit
  <2> QED BY <2>1, <2>2
<1> QED BY <1>3, <1>4

(* For any payloads, of size one or two, and any quota, after any crashes, *)
(* failed commits and damage: an object is the payload of its name or      *)
(* damaged, the recency list names every object of the size table once,    *)
(* the table misses no object on disk, and an eviction ends within the     *)
(* quota or with protected objects only.                                   *)
THEOREM CacheAlwaysSound == CacheSpec => CacheSound
<1>1. CacheInv /\ [CacheNext]_cacheVars => [CacheConsistent' /\ EvictionFits]_cacheVars
  <2>1. CacheInv => CacheConsistent
    BY ListsCount DEF CacheInv, CacheConsistent
  <2>2. CacheInv' => CacheConsistent'
    BY <2>1, PTL
  <2>3. CacheInv => EvictionFits
    BY EvictionEnds DEF EvictionFits
  <2> QED BY <2>2, <2>3, CacheStep
<1> QED BY <1>1, CacheStart, CacheStep, PTL DEF CacheSpec, CacheSound

-----------------------------------------------------------------------------
(* The virtual file system. *)

(* What a path is made of. *)
Names == Resources \cup {Subdir, "f"} \cup {rel[i] : rel \in Relatives, i \in Nat}

Paths == Seq(Names)

LinkTypes ==
    /\ DOMAIN link \subseteq DirLinks \cup FileLinks
    /\ \A l \in DOMAIN link : link[l] = IF l \in DirLinks THEN <<Outside>> ELSE <<Outside, "f">>

Allowed(owner, caller) == owner = caller \/ <<owner, caller>> \in granted

MountsShare ==
    /\ DOMAIN mounts \subseteq Resources
    /\ \A r \in DOMAIN mounts : \A c \in mounts[r].shared_with : <<r, c>> \in granted

FilesOwned == \A p \in DOMAIN tree : p \in strayed \/ tree[p] = p[1]

StagedOwned == \A t \in staging : (t.dir # <<>> /\ t.dir[1] = t.by) \/ t.raced

(* The directory a write was let into is the writer's, by its name. *)
OwnDirectory ==
    /\ pending.parent \in Paths /\ Len(pending.parent) >= 1
    /\ pending.parent[1] = pending.caller

PendingMay ==
    /\ pending.op = "read" =>
         pending.target \in Paths /\ Len(pending.target) >= 1 /\ Allowed(pending.target[1], pending.caller)
    /\ pending.op \in {"checked", "staged"} => OwnDirectory

AnswerMay ==
    answer.what = "read" => answer.via \/ Allowed(answer.owner, answer.caller)

VfsInv == MountsShare /\ FilesOwned /\ StagedOwned /\ LinkTypes /\ PendingMay /\ AnswerMay

(* What an operation leaves alone stays as it should be. *)
LEMMA VfsSame ==
    /\ MountsShare /\ UNCHANGED <<mounts, granted>> => MountsShare'
    /\ FilesOwned /\ UNCHANGED <<tree, strayed>> => FilesOwned'
    /\ StagedOwned /\ UNCHANGED staging => StagedOwned'
    /\ LinkTypes /\ UNCHANGED link => LinkTypes'
    /\ pending'.op = "none" => PendingMay'
    /\ PendingMay /\ UNCHANGED <<pending, granted>> => PendingMay'
    /\ answer'.what # "read" => AnswerMay'
    /\ AnswerMay /\ UNCHANGED <<answer, granted>> => AnswerMay'
<1>1. MountsShare /\ UNCHANGED <<mounts, granted>> => MountsShare'
  BY DEF MountsShare
<1>2. FilesOwned /\ UNCHANGED <<tree, strayed>> => FilesOwned'
  BY DEF FilesOwned
<1>3. StagedOwned /\ UNCHANGED staging => StagedOwned'
  BY DEF StagedOwned
<1>4. LinkTypes /\ UNCHANGED link => LinkTypes'
  BY DEF LinkTypes
<1>5. pending'.op = "none" => PendingMay'
  BY DEF PendingMay
<1>6. PendingMay /\ UNCHANGED <<pending, granted>> => PendingMay'
  BY DEF PendingMay, OwnDirectory, Allowed
<1>7. answer'.what # "read" => AnswerMay'
  BY DEF AnswerMay
<1>8. AnswerMay /\ UNCHANGED <<answer, granted>> => AnswerMay'
  BY DEF AnswerMay, Allowed
<1> QED BY <1>1, <1>2, <1>3, <1>4, <1>5, <1>6, <1>7, <1>8

LEMMA OutsideIs ==
    /\ Outside \in Resources /\ Outside \in Names
    /\ \A l \in DirLinks \cup FileLinks : l[1] # Outside
<1>1. \E r \in Resources : \A l \in DirLinks \cup FileLinks : l[1] # r
  BY VfsAssumption
<1>2. Outside \in Resources /\ \A l \in DirLinks \cup FileLinks : l[1] # Outside
  BY <1>1 DEF Outside
<1> QED BY <1>2 DEF Names

(* Links are below a resource's directory. *)
LEMMA LinkShape ==
    ASSUME NEW l \in DirLinks \cup FileLinks
    PROVE  l \in Paths /\ Len(l) >= 2 /\ l[1] # Outside
<1>1. l \in {<<r, Subdir>> : r \in Resources} \cup {<<r, "f">> : r \in Resources} \cup {<<r, Subdir, "f">> : r \in Resources}
  BY VfsAssumption
<1>2. \A r \in Resources : r \in Names
  BY DEF Names
<1>3. \A a, b, c \in Names : /\ <<a, b>> \in Seq(Names) /\ Len(<<a, b>>) >= 2
                              /\ <<a, b, c>> \in Seq(Names) /\ Len(<<a, b, c>>) >= 2
  OBVIOUS
<1>4. Subdir \in Names /\ "f" \in Names
  BY DEF Names
<1>5. l \in Paths /\ Len(l) >= 2
  BY <1>1, <1>2, <1>3, <1>4 DEF Paths
<1> QED BY <1>5, OutsideIs

(* Following leaves a path that no link is on; the first link on it else   *)
(* decides. *)
LEMMA FollowedIs ==
    ASSUME LinkTypes, NEW p \in Paths
    PROVE  \/ /\ Followed(p) = p
              /\ \A k \in 1..Len(p) : SubSeq(p, 1, k) \notin DOMAIN link
           \/ \E k \in 1..Len(p) :
                /\ SubSeq(p, 1, k) \in DOMAIN link
                /\ \A j \in 1..(k - 1) : SubSeq(p, 1, j) \notin DOMAIN link
                /\ Followed(p) = link[SubSeq(p, 1, k)] \o SubSeq(p, k + 1, Len(p))
<1> DEFINE at == {k \in DOMAIN p : SubSeq(p, 1, k) \in DOMAIN link}
<1>1. DOMAIN p = 1..Len(p) /\ Len(p) \in Nat
  BY DEF Paths
<1>2. CASE at = {}
  <2>1. Followed(p) = p
    BY <1>2 DEF Followed
  <2> QED BY <1>1, <1>2, <2>1
<1>3. CASE at # {}
  <2>1. at \subseteq Nat
    BY <1>1
  <2>2. PICK m \in at : \A k \in at : m <= k
    BY <1>3, <2>1, SmallestOf
  <2>3. Min(at) \in at /\ \A k \in at : Min(at) <= k
    BY <2>2 DEF Min
  <2>4. Followed(p) = link[SubSeq(p, 1, Min(at))] \o SubSeq(p, Min(at) + 1, Len(p))
    BY <1>3 DEF Followed
  <2> DEFINE k == Min(at)
  <2> HIDE DEF k
  <2>5. k \in 1..Len(p) /\ SubSeq(p, 1, k) \in DOMAIN link
    BY <1>1, <2>3 DEF k
  <2>6. \A j \in 1..(k - 1) : j \in 1..Len(p) /\ ~(k <= j)
    BY <1>1, <2>5
  <2>7. \A j \in 1..(k - 1) : SubSeq(p, 1, j) \notin DOMAIN link
    BY <1>1, <2>3, <2>6 DEF k
  <2> QED BY <2>4, <2>5, <2>7 DEF k
<1> QED BY <1>2, <1>3

(* A path in Outside has no link on it. *)
LEMMA OutsideUnlinked ==
    ASSUME LinkTypes, NEW p \in Paths, Len(p) >= 1, p[1] = Outside
    PROVE  Followed(p) = p /\ canonicalize_or(p) = p
<1>1. \A k \in 1..Len(p) : SubSeq(p, 1, k) \notin DOMAIN link
  <2> SUFFICES ASSUME NEW k \in 1..Len(p), SubSeq(p, 1, k) \in DOMAIN link PROVE FALSE
    OBVIOUS
  <2>1. SubSeq(p, 1, k)[1] = p[1]
    BY DEF Paths
  <2>2. SubSeq(p, 1, k)[1] # Outside
    BY LinkShape DEF LinkTypes
  <2> QED BY <2>1, <2>2
<1>2. Followed(p) = p
  BY <1>1, FollowedIs
<1> QED BY <1>2 DEF canonicalize_or

(* A short path has none either. *)
LEMMA ShortUnlinked ==
    ASSUME LinkTypes, NEW p \in Paths, Len(p) < 2
    PROVE  Followed(p) = p /\ canonicalize_or(p) = p
<1>1. \A k \in 1..Len(p) : SubSeq(p, 1, k) \notin DOMAIN link
  <2> SUFFICES ASSUME NEW k \in 1..Len(p), SubSeq(p, 1, k) \in DOMAIN link PROVE FALSE
    OBVIOUS
  <2>1. Len(SubSeq(p, 1, k)) = k /\ k < 2 /\ k \in Nat
    BY DEF Paths
  <2>2. Len(SubSeq(p, 1, k)) >= 2
    BY LinkShape DEF LinkTypes
  <2> QED BY <2>1, <2>2
<1>2. Followed(p) = p
  BY <1>1, FollowedIs
<1> QED BY <1>2 DEF canonicalize_or

(* Following a path leads to Outside or nowhere else. *)
LEMMA FollowedStart ==
    ASSUME LinkTypes, NEW p \in Paths, Len(p) >= 1
    PROVE  /\ Followed(p) \in Paths /\ Len(Followed(p)) >= 1
           /\ Followed(p) = p \/ Followed(p)[1] = Outside
<1>1. CASE Followed(p) = p
  BY <1>1
<1>2. CASE Followed(p) # p
  <2>1. PICK k \in 1..Len(p) : /\ SubSeq(p, 1, k) \in DOMAIN link
                               /\ Followed(p) = link[SubSeq(p, 1, k)] \o SubSeq(p, k + 1, Len(p))
    BY <1>2, FollowedIs
  <2> DEFINE to == link[SubSeq(p, 1, k)]
             rest == SubSeq(p, k + 1, Len(p))
  <2>2. to = <<Outside>> \/ to = <<Outside, "f">>
    BY <2>1 DEF LinkTypes
  <2>3. to \in Paths /\ Len(to) \in Nat /\ Len(to) >= 1 /\ to[1] = Outside
    <3>1. \A a, b \in Names : /\ <<a>> \in Seq(Names) /\ Len(<<a>>) = 1 /\ <<a>>[1] = a
                               /\ <<a, b>> \in Seq(Names) /\ Len(<<a, b>>) = 2 /\ <<a, b>>[1] = a
      OBVIOUS
    <3>2. "f" \in Names
      BY DEF Names
    <3>3. Outside \in Names
      BY OutsideIs
    <3> HIDE DEF to
    <3>4. CASE to = <<Outside>>
      BY <3>1, <3>3, <3>4 DEF Paths
    <3>5. CASE to = <<Outside, "f">>
      BY <3>1, <3>2, <3>3, <3>5 DEF Paths
    <3> QED BY <2>2, <3>4, <3>5
  <2>4. rest \in Paths /\ Len(rest) \in Nat
    BY DEF Paths
  <2>5. Followed(p) = to \o rest
    BY <2>1
  <2> HIDE DEF to, rest
  <2>6. to \o rest \in Paths /\ Len(to \o rest) >= 1 /\ (to \o rest)[1] = to[1]
    BY <2>3, <2>4 DEF Paths
  <2> QED BY <2>3, <2>5, <2>6
<1> QED BY <1>1, <1>2

(* Canonical paths do not change by being made canonical again. *)
LEMMA CanonicalStart ==
    ASSUME LinkTypes, NEW p \in Paths, Len(p) >= 1
    PROVE  /\ canonicalize_or(p) \in Paths /\ Len(canonicalize_or(p)) >= 1
           /\ canonicalize_or(p) = p \/ (canonicalize_or(p)[1] = Outside /\ canonicalize_or(canonicalize_or(p)) = canonicalize_or(p))
<1>1. canonicalize_or(p) = p \/ canonicalize_or(p) = Followed(p)
  BY DEF canonicalize_or
<1>2. Followed(p) \in Paths /\ Len(Followed(p)) >= 1 /\ (Followed(p) = p \/ Followed(p)[1] = Outside)
  BY FollowedStart
<1>3. Followed(p)[1] = Outside => canonicalize_or(Followed(p)) = Followed(p)
  BY <1>2, OutsideUnlinked
<1> QED BY <1>1, <1>2, <1>3

LEMMA RootCanonical ==
    ASSUME LinkTypes, NEW r \in Names
    PROVE  canonicalize_or(<<r>>) = <<r>> /\ <<r>> \in Paths /\ Len(<<r>>) = 1 /\ <<r>>[1] = r
<1>1. <<r>> \in Paths /\ Len(<<r>>) = 1 /\ <<r>>[1] = r
  BY DEF Paths
<1> DEFINE p == <<r>>
<1> HIDE DEF p
<1>2. p \in Paths /\ Len(p) < 2
  BY <1>1 DEF p
<1>3. canonicalize_or(p) = p
  BY <1>2, ShortUnlinked
<1> QED BY <1>1, <1>3 DEF p

LEMMA PrefixStart ==
    ASSUME NEW a \in Paths, NEW b \in Paths, Len(a) >= 1, IsPrefix(a, b)
    PROVE  Len(b) >= 1 /\ b[1] = a[1]
<1>1. Len(a) \in Nat /\ Len(b) \in Nat /\ Len(a) <= Len(b) /\ SubSeq(a, 1, Len(a)) = SubSeq(b, 1, Len(a))
  BY DEF IsPrefix, Paths
<1>2. SubSeq(a, 1, Len(a))[1] = a[1] /\ SubSeq(b, 1, Len(a))[1] = b[1]
  BY <1>1 DEF Paths
<1> QED BY <1>1, <1>2

(* What the path of a call looks like. *)
LEMMA JoinIs ==
    ASSUME NEW r \in Resources, NEW rel \in Relatives
    PROVE  Join(r, rel) \in Paths /\ Len(Join(r, rel)) >= 1 /\ Join(r, rel)[1] = r
<1> DEFINE K == {i \in DOMAIN rel : rel[i] \notin {"", "."}}
           t == Selected(rel, K)
<1>1. rel \in Paths
  <2>1. rel \in Seq(STRING)
    BY VfsAssumption
  <2>2. Len(rel) \in Nat /\ DOMAIN rel = 1..Len(rel) /\ rel = [i \in 1..Len(rel) |-> rel[i]]
    BY <2>1
  <2>3. \A i \in 1..Len(rel) : rel[i] \in Names
    BY <2>2 DEF Names
  <2>4. rel \in [1..Len(rel) -> Names]
    BY <2>2, <2>3
  <2> QED BY <2>2, <2>4 DEF Paths
<1> HIDE DEF K
<1>2. t \in Seq(Names)
  BY <1>1, SelectedIs DEF Paths
<1>3. Join(r, rel) = <<r>> \o t
  BY DEF Join, K
<1> HIDE DEF t
<1>4. r \in Names /\ <<r>> \in Seq(Names) /\ Len(<<r>>) = 1 /\ <<r>>[1] = r
  BY DEF Names
<1>5. <<r>> \o t \in Seq(Names) /\ Len(<<r>> \o t) = 1 + Len(t) /\ Len(t) \in Nat /\ (<<r>> \o t)[1] = r
  BY <1>2, <1>4
<1> QED BY <1>3, <1>5 DEF Paths

(* A read that passes the check of read_resolved stays in the directory of *)
(* its path unless a directory on the way is a link. *)
LEMMA ReadStays ==
    ASSUME LinkTypes, NEW p \in Paths, Len(p) >= 1, ~Through_link(p),
           verify_canonical_within(Front(p), Followed(p))
    PROVE  Followed(p)[1] = p[1]
<1> SUFFICES ASSUME Followed(p)[1] # p[1] PROVE FALSE
  OBVIOUS
<1> DEFINE q == Followed(p)
           n == Len(p)
           f == Front(p)
<1>0. n \in Nat /\ n >= 1
  BY DEF Paths
<1>1. q # p /\ q \in Paths /\ q[1] = Outside /\ Len(q) >= 1
  BY FollowedStart
<1>2. PICK k \in 1..n : SubSeq(p, 1, k) \in DOMAIN link
  BY <1>1, FollowedIs
<1>3. \A j \in 1..(n - 1) : SubSeq(p, 1, j) \notin DOMAIN link
  BY DEF Through_link
<1>4. k >= 2
  <2>1. Len(SubSeq(p, 1, k)) = k
    BY <1>0 DEF Paths
  <2>2. Len(SubSeq(p, 1, k)) >= 2
    BY <1>2, LinkShape DEF LinkTypes
  <2> QED BY <2>1, <2>2
<1>5. n >= 2
  BY <1>0, <1>4
<1>6. f \in Paths /\ Len(f) = n - 1 /\ Len(f) >= 1 /\ f[1] = p[1]
  BY <1>0, <1>5 DEF Front, Paths
<1>7. \A j \in 1..(n - 1) : SubSeq(f, 1, j) = SubSeq(p, 1, j)
  BY <1>0, <1>6 DEF Front, Paths
<1> HIDE DEF f
<1>8. \A j \in 1..Len(f) : SubSeq(f, 1, j) \notin DOMAIN link
  BY <1>3, <1>6, <1>7
<1>9. Followed(f) = f
  BY <1>6, <1>8, FollowedIs
<1>10. canonicalize_or(f) = f
  BY <1>9 DEF canonicalize_or
<1> HIDE DEF q
<1>11. canonicalize_or(q) = q
  BY <1>1, OutsideUnlinked
<1>12. IsPrefix(f, q)
  BY <1>10, <1>11 DEF verify_canonical_within, f, q
<1>13. q[1] = f[1]
  BY <1>1, <1>6, <1>12, PrefixStart
<1> QED BY <1>6, <1>13 DEF q

-----------------------------------------------------------------------------

(* A write is let in only into its own directories. *)
LEMMA WriteStays ==
    ASSUME LinkTypes, NEW r \in Resources, NEW rel \in Relatives,
           verify_canonical_within(<<r>>, canonicalize_or(Front(Join(r, rel))))
    PROVE  /\ canonicalize_or(Front(Join(r, rel))) \in Paths
           /\ Len(canonicalize_or(Front(Join(r, rel)))) >= 1
           /\ canonicalize_or(Front(Join(r, rel)))[1] = r
<1> DEFINE t == Join(r, rel)
           f == Front(t)
           d == canonicalize_or(f)
<1>1. t \in Paths /\ Len(t) >= 1 /\ t[1] = r /\ Len(t) \in Nat
  BY JoinIs DEF Paths
<1> HIDE DEF t
<1>2. f \in Paths /\ Len(f) = Len(t) - 1 /\ (Len(f) >= 1 => f[1] = r)
  BY <1>1 DEF Front, Paths
<1> HIDE DEF f
<1>3. r \in Names
  BY DEF Names
<1>4. IsPrefix(<<r>>, canonicalize_or(d))
  BY <1>3, RootCanonical DEF verify_canonical_within, t, f
<1>11. <<r>> \in Paths /\ Len(<<r>>) = 1 /\ <<r>>[1] = r
  BY <1>3, RootCanonical
<1>5. Len(f) >= 1
  <2> SUFFICES ASSUME Len(f) < 1 PROVE FALSE
    BY <1>1, <1>2
  <2>1. d = f
    BY <1>1, <1>2, ShortUnlinked
  <2>2. canonicalize_or(d) = f
    BY <1>1, <1>2, <2>1, ShortUnlinked
  <2>3. Len(<<r>>) <= Len(f)
    BY <1>4, <2>2 DEF IsPrefix
  <2> QED BY <1>1, <1>2, <1>11, <2>3
<1>6. /\ d \in Paths /\ Len(d) >= 1
      /\ d = f \/ canonicalize_or(d) = d
  BY <1>2, <1>5, CanonicalStart
<1> HIDE DEF d
<1>7. d[1] = r
  <2>1. CASE d = f
    BY <1>2, <1>5, <2>1
  <2>2. CASE canonicalize_or(d) = d
    <3> DEFINE root == <<r>>
    <3>1. root \in Paths /\ Len(root) >= 1 /\ IsPrefix(root, d) /\ root[1] = r
      BY <1>4, <1>11, <2>2
    <3> HIDE DEF root
    <3> QED BY <1>6, <3>1, PrefixStart
  <2> QED BY <1>6, <2>1, <2>2
<1> QED BY <1>6, <1>7 DEF d, f, t

LEMMA VfsStart == VfsInit => VfsInv
<1> SUFFICES ASSUME VfsInit PROVE VfsInv
  OBVIOUS
<1>1. FilesOwned /\ StagedOwned
  BY DEF VfsInit, FilesOwned, StagedOwned
<1>2. DOMAIN mounts = {} /\ DOMAIN link = {} /\ pending.op = "none" /\ answer.what = "none"
  BY DEF VfsInit, Idle_call, Refused_with, Said
<1> QED BY <1>1, <1>2 DEF VfsInv, LinkTypes, MountsShare, PendingMay, AnswerMay

LEMMA MountKeeps == ASSUME VfsInv, mount_resource PROVE VfsInv'
<1>1. PICK r \in Resources, w \in BOOLEAN :
        mounts' = [q \in DOMAIN mounts \cup {r} |-> IF q = r THEN [shared_with |-> {}, writable |-> w] ELSE mounts[q]]
  BY DEF mount_resource
<1>2. UNCHANGED <<tree, link, staging, pending, answer, granted, strayed>> /\ pending'.op = "none"
  BY DEF mount_resource, Idle_call
<1>3. MountsShare'
  BY <1>1, <1>2 DEF VfsInv, MountsShare
<1> QED BY <1>2, <1>3, VfsSame DEF VfsInv

LEMMA ShareKeeps == ASSUME VfsInv, share PROVE VfsInv'
<1>1. PICK r \in DOMAIN mounts, other \in Resources :
        /\ mounts' = [mounts EXCEPT ![r] = [shared_with |-> mounts[r].shared_with \cup {other},
                                             writable |-> mounts[r].writable]]
        /\ granted' = granted \cup {<<r, other>>}
  BY DEF share
<1>2. MountsShare'
  <2>1. DOMAIN mounts' = DOMAIN mounts
    BY <1>1
  <2>2. ASSUME NEW q \in DOMAIN mounts, NEW c \in mounts'[q].shared_with PROVE <<q, c>> \in granted'
    <3>1. CASE q = r
      <4>1. mounts'[q].shared_with = mounts[r].shared_with \cup {other}
        BY <1>1, <3>1
      <4> QED BY <1>1, <3>1, <4>1, <2>2 DEF VfsInv, MountsShare
    <3>2. CASE q # r
      <4>1. mounts'[q] = mounts[q]
        BY <1>1, <3>2
      <4> QED BY <1>1, <4>1, <2>2 DEF VfsInv, MountsShare
    <3> QED BY <3>1, <3>2
  <2> QED BY <2>1, <2>2 DEF VfsInv, MountsShare
<1>3. UNCHANGED <<tree, link, staging, answer, strayed>> /\ pending'.op = "none"
  BY DEF share, Idle_call
<1>4. AnswerMay'
  BY <1>1, <1>3 DEF VfsInv, AnswerMay, Allowed
<1> QED BY <1>2, <1>3, <1>4, VfsSame DEF VfsInv

LEMMA SwapKeeps == ASSUME VfsInv, swap_in_link PROVE VfsInv'
<1>1. PICK p \in (DirLinks \cup FileLinks) \ DOMAIN link :
        link' = [q \in DOMAIN link \cup {p} |->
                   IF q # p THEN link[q] ELSE IF p \in DirLinks THEN <<Outside>> ELSE <<Outside, "f">>]
  BY DEF swap_in_link
<1>2. UNCHANGED <<mounts, tree, staging, pending, answer, granted, strayed>>
  BY DEF swap_in_link
<1>3. LinkTypes'
  BY <1>1 DEF VfsInv, LinkTypes
<1> QED BY <1>2, <1>3, VfsSame DEF VfsInv

LEMMA ReadBeginKeeps == ASSUME VfsInv, read_begin PROVE VfsInv'
<1>1. PICK r \in Resources, c \in Resources, rel \in Relatives :
        IF resolve_path(r, rel, c) = "ok"
        THEN /\ pending' = [op |-> "read", caller |-> c, target |-> Join(r, rel)]
             /\ UNCHANGED answer
        ELSE answer' = Refused_with(c, resolve_path(r, rel, c)) /\ UNCHANGED pending
  BY DEF read_begin
<1>2. UNCHANGED <<mounts, tree, link, staging, granted, strayed>> /\ pending.op = "none"
  BY DEF read_begin, Idle_call
<1>3. CASE resolve_path(r, rel, c) = "ok"
  <2>1. r \in DOMAIN mounts /\ check_access(r, c)
    BY <1>3 DEF resolve_path
  <2>2. Allowed(r, c)
    BY <2>1 DEF check_access, VfsInv, MountsShare, Allowed
  <2>3. Join(r, rel) \in Paths /\ Len(Join(r, rel)) >= 1 /\ Join(r, rel)[1] = r
    BY JoinIs
  <2>4. pending'.op = "read" /\ pending'.target = Join(r, rel) /\ pending'.caller = c /\ answer' = answer
    BY <1>1, <1>3
  <2>5. PendingMay'
    BY <1>2, <2>2, <2>3, <2>4 DEF PendingMay, Allowed
  <2> QED BY <1>2, <2>4, <2>5, VfsSame DEF VfsInv
<1>4. CASE resolve_path(r, rel, c) # "ok"
  <2>1. pending' = pending /\ answer'.what = resolve_path(r, rel, c)
    BY <1>1, <1>4 DEF Refused_with, Said
  <2>2. resolve_path(r, rel, c) # "read"
    BY DEF resolve_path, sanitize_relative, verify_within
  <2>3. answer'.what # "read" /\ pending'.op = "none"
    BY <1>2, <2>1, <2>2
  <2> QED BY <1>2, <2>3, VfsSame DEF VfsInv
<1> QED BY <1>3, <1>4

LEMMA ReadResolvedKeeps == ASSUME VfsInv, read_resolved PROVE VfsInv'
<1> DEFINE t == pending.target
           real == Followed(t)
           c == pending.caller
<1>1. pending.op = "read" /\ t \in Paths /\ Len(t) >= 1 /\ Allowed(t[1], c) /\ LinkTypes
  BY DEF read_resolved, VfsInv, PendingMay
<1>2. answer' = IF ~Exists(real) THEN Refused_with(c, "NotFound")
                ELSE IF ~verify_canonical_within(Front(t), real) THEN Refused_with(c, "PathEscape")
                ELSE IF real \notin DOMAIN tree THEN Refused_with(c, "Io")
                ELSE Said(c, "read", real[1], Through_link(t))
  BY DEF read_resolved
<1>3. UNCHANGED <<mounts, tree, link, staging, granted, strayed>> /\ pending'.op = "none"
  BY DEF read_resolved, Idle_call
<1> HIDE DEF t, real, c
<1>4. ASSUME answer'.what = "read" PROVE answer'.via \/ Allowed(answer'.owner, answer'.caller)
  <2>1. verify_canonical_within(Front(t), real) /\ answer' = Said(c, "read", real[1], Through_link(t))
    BY <1>2, <1>4 DEF Refused_with, Said
  <2>2. ~Through_link(t) => real[1] = t[1]
    BY <1>1, <2>1, ReadStays DEF real
  <2>3. answer'.owner = real[1] /\ answer'.caller = c
    BY <2>1 DEF Said
  <2>4. answer'.via = Through_link(t)
    BY <2>1 DEF Said
  <2>5. ~Through_link(t) => Allowed(answer'.owner, answer'.caller)
    BY <1>1, <2>2, <2>3
  <2> HIDE DEF Allowed
  <2> QED BY <2>4, <2>5, Zenon
<1>5. AnswerMay'
  BY <1>3, <1>4 DEF AnswerMay, Allowed
<1> QED BY <1>3, <1>5, VfsSame DEF VfsInv

LEMMA WriteBeginKeeps == ASSUME VfsInv, write_begin PROVE VfsInv'
<1>1. PICK r \in Resources, c \in Resources, rel \in Relatives :
        LET target == Join(r, rel)
            parent == canonicalize_or(Front(target))
            fails == write_fails(r, c, rel, parent)
        IN  IF fails = "ok"
            THEN /\ pending' = [op |-> "checked", caller |-> c, parent |-> parent,
                                target |-> Append(parent, Last(target))]
                 /\ UNCHANGED answer
            ELSE answer' = Refused_with(c, fails) /\ UNCHANGED pending
  BY DEF write_begin
<1> DEFINE target == Join(r, rel)
           parent == canonicalize_or(Front(target))
           fails == write_fails(r, c, rel, parent)
<1>2. UNCHANGED <<mounts, tree, link, staging, granted, strayed>> /\ pending.op = "none" /\ LinkTypes
  BY DEF write_begin, Idle_call, VfsInv
<1>3. CASE fails = "ok"
  <2>1. r = c /\ verify_canonical_within(<<r>>, parent)
    BY <1>3 DEF write_fails
  <2>2. pending' = [op |-> "checked", caller |-> c, parent |-> parent, target |-> Append(parent, Last(target))] /\ answer' = answer
    BY <1>1, <1>3
  <2>3. parent \in Paths /\ Len(parent) >= 1 /\ parent[1] = r
    BY <1>2, <2>1, WriteStays
  <2> HIDE DEF parent, target, fails
  <2>4. pending'.op = "checked" /\ pending'.caller = c /\ pending'.parent = parent
    BY <2>2
  <2>5. PendingMay'
    BY <2>1, <2>3, <2>4 DEF PendingMay, OwnDirectory
  <2> QED BY <1>2, <2>2, <2>5, VfsSame DEF VfsInv
<1>4. CASE fails # "ok"
  <2>1. pending' = pending /\ answer' = Refused_with(c, fails)
    BY <1>1, <1>4
  <2>2. fails # "read"
    BY DEF write_fails, sanitize_relative, verify_within
  <2> HIDE DEF fails
  <2>3. answer'.what # "read" /\ pending'.op = "none"
    BY <1>2, <2>1, <2>2 DEF Refused_with, Said
  <2> QED BY <1>2, <2>3, VfsSame DEF VfsInv
<1> QED BY <1>3, <1>4

LEMMA WriteTempKeeps == ASSUME VfsInv, write_temp PROVE VfsInv'
<1> DEFINE dir == Followed(pending.parent)
           temp == [dir |-> dir, by |-> pending.caller, raced |-> dir # pending.parent]
<1>1. pending.op = "checked" /\ OwnDirectory /\ LinkTypes
  BY DEF write_temp, VfsInv, PendingMay
<1>2. UNCHANGED <<mounts, tree, link, granted, strayed>>
  BY DEF write_temp
<1>3. dir \in Paths /\ Len(dir) >= 1
  BY <1>1, FollowedStart DEF OwnDirectory
<1>4. \/ /\ staging' = staging \cup {temp}
         /\ pending' = [op |-> "staged", caller |-> pending.caller, parent |-> pending.parent,
                        target |-> pending.target, dir |-> dir]
         /\ answer' = answer
      \/ answer' = Refused_with(pending.caller, "Io") /\ pending' = Idle_call /\ staging' = staging
  BY DEF write_temp
<1> HIDE DEF dir
<1>5. CASE /\ staging' = staging \cup {temp}
           /\ pending' = [op |-> "staged", caller |-> pending.caller, parent |-> pending.parent,
                          target |-> pending.target, dir |-> dir]
           /\ answer' = answer
  <2>1. temp.dir = dir /\ temp.by = pending.caller
    OBVIOUS
  <2>2. temp.raced = (dir # pending.parent)
    OBVIOUS
  <2>3. dir = pending.parent => dir # <<>> /\ dir[1] = pending.caller
    BY <1>1, <1>3 DEF OwnDirectory
  <2> HIDE DEF temp
  <2>4. (temp.dir # <<>> /\ temp.dir[1] = temp.by) \/ temp.raced
    BY <2>1, <2>2, <2>3, Zenon
  <2>5. StagedOwned'
    BY <1>5, <2>4 DEF VfsInv, StagedOwned
  <2>6. pending'.op = "staged" /\ pending'.parent = pending.parent /\ pending'.caller = pending.caller
    BY <1>5
  <2>7. PendingMay'
    BY <1>1, <2>6 DEF PendingMay, OwnDirectory
  <2> QED BY <1>2, <1>5, <2>5, <2>7, VfsSame DEF VfsInv
<1>6. CASE answer' = Refused_with(pending.caller, "Io") /\ pending' = Idle_call /\ staging' = staging
  <2>1. answer'.what # "read" /\ pending'.op = "none"
    BY <1>6 DEF Refused_with, Said, Idle_call
  <2> QED BY <1>2, <1>6, <2>1, VfsSame DEF VfsInv
<1> QED BY <1>4, <1>5, <1>6

LEMMA WritePromoteKeeps == ASSUME VfsInv, write_promote PROVE VfsInv'
<1> DEFINE c == pending.caller
           dir == Followed(pending.parent)
           raced == pending.dir # pending.parent
           landed == Append(dir, Last(pending.target))
<1>1. pending.op = "staged" /\ OwnDirectory /\ LinkTypes
  BY DEF write_promote, VfsInv, PendingMay
<1>2. UNCHANGED <<mounts, granted>> /\ pending'.op = "none"
  BY DEF write_promote, Idle_call
<1>3. answer'.what # "read"
  BY DEF write_promote, Refused_with, Said
<1>4. staging' \subseteq staging
  BY DEF write_promote
<1>5. \/ UNCHANGED <<tree, link, strayed>>
      \/ /\ dir = pending.dir
         /\ tree' = [p \in DOMAIN tree \cup {landed} |-> IF p = landed THEN c ELSE tree[p]]
         /\ link' = [p \in DOMAIN link \ {landed} |-> link[p]]
         /\ strayed' = IF raced THEN strayed \cup {landed} ELSE strayed
  BY DEF write_promote
<1>6. dir = pending.dir /\ ~raced => landed[1] = c
  <2> SUFFICES ASSUME dir = pending.parent PROVE landed[1] = c
    OBVIOUS
  <2>1. dir \in Paths /\ Len(dir) >= 1 /\ dir[1] = c
    BY <1>1 DEF OwnDirectory
  <2> HIDE DEF dir
  <2>2. \A x : Append(dir, x)[1] = dir[1]
    BY <2>1 DEF Paths
  <2> QED BY <2>1, <2>2
<1> HIDE DEF c, dir, raced, landed
<1>7. FilesOwned'
  BY <1>5, <1>6 DEF VfsInv, FilesOwned
<1>8. DOMAIN link' \subseteq DOMAIN link /\ \A l \in DOMAIN link' : link'[l] = link[l]
  BY <1>5
<1>9. LinkTypes'
  BY <1>1, <1>8 DEF LinkTypes
<1>10. StagedOwned'
  BY <1>4 DEF VfsInv, StagedOwned
<1> QED BY <1>2, <1>3, <1>7, <1>9, <1>10, VfsSame DEF VfsInv

LEMMA VfsStep == VfsInv /\ [VfsNext]_vfsVars => VfsInv'
<1> SUFFICES ASSUME VfsInv, [VfsNext]_vfsVars PROVE VfsInv'
  OBVIOUS
<1>1. CASE UNCHANGED vfsVars
  <2>1. UNCHANGED <<mounts, tree, link, staging, pending, answer, granted, strayed>>
    BY <1>1 DEF vfsVars
  <2> QED BY <2>1, VfsSame DEF VfsInv
<1> QED BY <1>1, MountKeeps, ShareKeeps, SwapKeeps, ReadBeginKeeps, ReadResolvedKeeps, WriteBeginKeeps, WriteTempKeeps, WritePromoteKeeps
        DEF VfsNext

LEMMA VfsInvGives == VfsInv => SandboxHolds
BY DEF VfsInv, FilesOwned, StagedOwned, AnswerMay, SandboxHolds, Allowed

-----------------------------------------------------------------------------
(* Packages and the scanner. *)

Verified_signed ==
    verified = "ok" /\ pkg_manifest.protection # "Open" =>
        /\ signature.over = pkg_manifest
        /\ \A p \in DOMAIN pkg_manifest.file_hashes :
               p \in DOMAIN payloads /\ payloads[p] = pkg_manifest.file_hashes[p]

PackagesInv ==
    /\ authority \in [reputation : ToSet(Reputations), revoked : BOOLEAN, revoked_keys : SUBSET Keys]
    /\ DOMAIN payloads \subseteq PayloadPaths
    /\ Verified_signed

LEMMA PackagesStart == PackagesInit => PackagesInv
<1> SUFFICES ASSUME PackagesInit PROVE PackagesInv
  OBVIOUS
<1>1. Reputations[3] = "Standard" /\ 3 \in DOMAIN Reputations
  BY DEF Reputations
<1>2. "Standard" \in ToSet(Reputations)
  BY <1>1 DEF ToSet
<1>3. authority \in [reputation : ToSet(Reputations), revoked : BOOLEAN, revoked_keys : SUBSET Keys]
  BY <1>2 DEF PackagesInit
<1> QED BY <1>3 DEF PackagesInit, PackagesInv, Verified_signed

LEMMA PackagesStep == PackagesInv /\ [PackagesNext]_packageVars => PackagesInv'
<1> SUFFICES ASSUME PackagesInv, [PackagesNext]_packageVars PROVE PackagesInv'
  OBVIOUS
<1> DEFINE Authorities == [reputation : ToSet(Reputations), revoked : BOOLEAN, revoked_keys : SUBSET Keys]
<1>1. CASE publish
  <2>1. PICK some \in SUBSET PayloadPaths : \E files \in [some -> Bytes] : payloads' = files
    BY <1>1 DEF publish
  <2> QED BY <1>1, <2>1 DEF publish, PackagesInv, Verified_signed
<1>2. CASE damage_payload
  <2>1. DOMAIN payloads' = DOMAIN payloads
    BY <1>2 DEF damage_payload
  <2> QED BY <1>2, <2>1 DEF damage_payload, PackagesInv, Verified_signed
<1>3. CASE lose_payload
  <2>1. DOMAIN payloads' \subseteq DOMAIN payloads
    BY <1>3 DEF lose_payload
  <2> QED BY <1>3, <2>1 DEF lose_payload, PackagesInv, Verified_signed
<1>4. CASE damage_manifest
  <2>1. verified' = "none" /\ UNCHANGED <<payloads, authority>>
    BY <1>4 DEF damage_manifest
  <2> QED BY <2>1 DEF PackagesInv, Verified_signed
<1>5. CASE revoke_trust
  <2>1. UNCHANGED <<pkg_manifest, payloads, signature, verified>>
    BY <1>5 DEF revoke_trust
  <2>2. authority' \in Authorities
    <3>1. authority \in Authorities
      BY DEF PackagesInv
    <3> QED BY <1>5, <3>1 DEF revoke_trust
  <2> QED BY <2>1, <2>2 DEF PackagesInv, Verified_signed
<1>6. CASE configure_scanner
  BY <1>6 DEF configure_scanner, PackagesInv, Verified_signed
<1>7. CASE verify_payload_package
  <2>1. UNCHANGED <<pkg_manifest, payloads, signature, authority>>
    BY <1>7 DEF verify_payload_package
  <2>2. verified' = "ok" /\ pkg_manifest.protection # "Open" => Signature_verify = "ok" /\ verify_payloads = "ok"
    BY <1>7 DEF verify_payload_package
  <2>3. Signature_verify = "ok" => signature.over = pkg_manifest
    BY DEF Signature_verify
  <2>4. verify_payloads = "ok" => \A p \in DOMAIN pkg_manifest.file_hashes :
                                    p \in DOMAIN payloads /\ payloads[p] = pkg_manifest.file_hashes[p]
    BY DEF verify_payloads
  <2>5. Verified_signed'
    BY <2>1, <2>2, <2>3, <2>4 DEF Verified_signed
  <2> QED BY <2>1, <2>5 DEF PackagesInv
<1>8. CASE UNCHANGED packageVars
  BY <1>8 DEF packageVars, PackagesInv, Verified_signed
<1> QED BY <1>1, <1>2, <1>3, <1>4, <1>5, <1>6, <1>7, <1>8 DEF PackagesNext

(* A verdict's place among the verdicts. *)
LEMMA Ranks ==
    /\ Rank_of(Harsher, "Approved") = 1
    /\ Rank_of(Harsher, "FlaggedForReview") = 2
    /\ Rank_of(Harsher, "Quarantined") = 3
    /\ Rank_of(Harsher, "Rejected") = 4
<1>1. DOMAIN Harsher = {1, 2, 3, 4}
  BY DEF Harsher
<1>2. Harsher[1] = "Approved" /\ Harsher[2] = "FlaggedForReview" /\ Harsher[3] = "Quarantined" /\ Harsher[4] = "Rejected"
  BY DEF Harsher
<1>3. /\ "Approved" # "FlaggedForReview" /\ "Approved" # "Quarantined" /\ "Approved" # "Rejected"
      /\ "FlaggedForReview" # "Quarantined" /\ "FlaggedForReview" # "Rejected" /\ "Quarantined" # "Rejected"
  OBVIOUS
<1> HIDE DEF Harsher
<1>4. Rank_of(Harsher, "Approved") \in DOMAIN Harsher /\ Harsher[Rank_of(Harsher, "Approved")] = "Approved"
  BY <1>1, <1>2 DEF Rank_of
<1>5. Rank_of(Harsher, "FlaggedForReview") \in DOMAIN Harsher /\ Harsher[Rank_of(Harsher, "FlaggedForReview")] = "FlaggedForReview"
  BY <1>1, <1>2 DEF Rank_of
<1>6. Rank_of(Harsher, "Quarantined") \in DOMAIN Harsher /\ Harsher[Rank_of(Harsher, "Quarantined")] = "Quarantined"
  BY <1>1, <1>2 DEF Rank_of
<1>7. Rank_of(Harsher, "Rejected") \in DOMAIN Harsher /\ Harsher[Rank_of(Harsher, "Rejected")] = "Rejected"
  BY <1>1, <1>2 DEF Rank_of
<1> QED BY <1>1, <1>2, <1>3, <1>4, <1>5, <1>6, <1>7

(* What the files add to each severity does not depend on who published. *)
LEMMA FileFindings ==
    ASSUME PackagesInv, NEW severity
    PROVE  file_findings(payloads, severity) \in Nat
<1> DEFINE f == [p \in DOMAIN payloads |-> scan_file_path(p, severity) + scan_file_content(p, payloads[p], severity)]
<1>1. IsFiniteSet(PayloadPaths)
  <2>1. IsFiniteSet({"main.lua"}) /\ IsFiniteSet({"lib.dll"})
    BY FS_Singleton
  <2>2. PayloadPaths = {"main.lua"} \cup {"lib.dll"}
    BY DEF PayloadPaths
  <2> QED BY <2>1, <2>2, FS_Union
<1>2. IsFiniteSet(DOMAIN payloads)
  BY <1>1, FS_Subset DEF PackagesInv
<1>3. ASSUME NEW p \in DOMAIN payloads PROVE f[p] \in Nat
  <2>1. scan_file_path(p, severity) \in Nat
    BY DEF scan_file_path
  <2>2. scan_file_content(p, payloads[p], severity) \in Nat
    BY DEF scan_file_content
  <2> QED BY <2>1, <2>2
<1> HIDE DEF f
<1>4. SumOver(DOMAIN payloads, f) \in Nat
  BY <1>2, <1>3, SumOverNat
<1> QED BY <1>4 DEF file_findings, f

(* The scanner's verdict in terms of what the files and the authority add. *)
Verdict(rejects, critical, score) ==
    IF critical > 0 \/ score >= 75 THEN IF rejects THEN "Rejected" ELSE "Quarantined"
    ELSE IF score >= 40 THEN "FlaggedForReview" ELSE IF score <= 20 THEN "Approved" ELSE "FlaggedForReview"

Score(sum, discount) ==
    LET capped == IF sum > 100 THEN 100 ELSE sum
    IN  IF capped > discount THEN capped - discount ELSE 0

LEMMA ScoreFalls ==
    ASSUME NEW s \in Nat, NEW t \in Nat, s >= t, NEW d \in Nat, NEW e \in Nat, d <= e
    PROVE  Score(s, d) \in Nat /\ Score(t, e) \in Nat /\ Score(s, d) >= Score(t, e)
BY DEF Score

LEMMA VerdictFalls ==
    ASSUME NEW r \in BOOLEAN, NEW c \in Nat, NEW s \in Nat, NEW t \in Nat, s >= t
    PROVE  Rank_of(Harsher, Verdict(r, c, s)) >= Rank_of(Harsher, Verdict(r, c, t))
BY Ranks DEF Verdict

LEMMA VerdictRank ==
    ASSUME NEW r \in BOOLEAN, NEW c \in Nat, NEW s \in Nat
    PROVE  Rank_of(Harsher, Verdict(r, c, s)) \in 1..4
BY Ranks DEF Verdict

Authority_of(reputation) == [authority EXCEPT !.reputation = reputation]

LEMMA JudgedIs ==
    ASSUME PackagesInv, NEW reputation
    PROVE  LET a == Authority_of(reputation)
               critical == findings_for(a, payloads, "Critical")
               sum == 5 * file_findings(payloads, "Low") + 15 * file_findings(payloads, "Medium")
                      + 35 * ((IF reputation = "Suspicious" THEN 1 ELSE 0) + file_findings(payloads, "High")) + 80 * critical
               discount == IF critical > 0 THEN 0
                           ELSE IF reputation = "Trusted" THEN 15 ELSE IF reputation = "Verified" THEN 5 ELSE 0
           IN  /\ critical = (IF authority.revoked THEN 1 ELSE 0) + (IF reputation = "Blacklisted" THEN 1 ELSE 0)
                             + (IF signature.key \in authority.revoked_keys THEN 1 ELSE 0) + file_findings(payloads, "Critical")
               /\ critical \in Nat
               /\ scan(a, payloads) = Verdict(reputation = "Blacklisted" \/ authority.revoked, critical, Score(sum, discount))
<1> DEFINE a == Authority_of(reputation)
           low == file_findings(payloads, "Low")
           medium == file_findings(payloads, "Medium")
           high == file_findings(payloads, "High")
           grave == file_findings(payloads, "Critical")
           critical == findings_for(a, payloads, "Critical")
           discount == IF critical > 0 THEN 0
                       ELSE IF reputation = "Trusted" THEN 15 ELSE IF reputation = "Verified" THEN 5 ELSE 0
           sum == 5 * low + 15 * medium + 35 * ((IF reputation = "Suspicious" THEN 1 ELSE 0) + high) + 80 * critical
<1>1. low \in Nat /\ medium \in Nat /\ high \in Nat /\ grave \in Nat
  BY FileFindings
<1>2. a.reputation = reputation /\ a.revoked = authority.revoked /\ a.revoked_keys = authority.revoked_keys
  BY DEF PackagesInv, Authority_of
<1> HIDE DEF a
<1>3. /\ authority_findings(a, "Low") = 0
      /\ authority_findings(a, "Medium") = 0
      /\ authority_findings(a, "High") = IF reputation = "Suspicious" THEN 1 ELSE 0
      /\ authority_findings(a, "Critical") =
           (IF authority.revoked THEN 1 ELSE 0) + (IF reputation = "Blacklisted" THEN 1 ELSE 0)
           + (IF signature.key \in authority.revoked_keys THEN 1 ELSE 0)
  BY <1>2 DEF authority_findings
<1> HIDE DEF low, medium, high, grave
<1>4. /\ findings_for(a, payloads, "Low") = low
      /\ findings_for(a, payloads, "Medium") = medium
      /\ findings_for(a, payloads, "High") = (IF reputation = "Suspicious" THEN 1 ELSE 0) + high
  BY <1>1, <1>3 DEF findings_for, low, medium, high
<1>5. /\ critical = (IF authority.revoked THEN 1 ELSE 0) + (IF reputation = "Blacklisted" THEN 1 ELSE 0)
                    + (IF signature.key \in authority.revoked_keys THEN 1 ELSE 0) + grave
      /\ critical \in Nat
  BY <1>1, <1>3 DEF findings_for, grave
<1>6. has_critical(a, payloads) <=> critical > 0
  BY DEF has_critical
<1>7. risk_score(a, payloads) = Score(sum, discount)
  <2>1. 5 * findings_for(a, payloads, "Low") + 15 * findings_for(a, payloads, "Medium")
        + 35 * findings_for(a, payloads, "High") + 80 * findings_for(a, payloads, "Critical") = sum
    BY <1>4
  <2>2. (IF has_critical(a, payloads) THEN 0
         ELSE CASE a.reputation = "Trusted" -> 15 [] a.reputation = "Verified" -> 5 [] OTHER -> 0) = discount
    BY <1>2, <1>6
  <2> HIDE DEF sum, discount
  <2> QED BY <2>1, <2>2 DEF risk_score, Score
<1> HIDE DEF critical, sum, discount
<1>8. scan(a, payloads) = Verdict(reputation = "Blacklisted" \/ authority.revoked, critical, Score(sum, discount))
  BY <1>2, <1>6, <1>7 DEF scan, Verdict, quarantine_threshold, flag_threshold, max_risk_score_for_approval
<1> QED BY <1>5, <1>8 DEF a, low, medium, high, grave, critical, sum, discount

(* A blacklisted publisher is rejected; among the others the score only    *)
(* falls as the reputation rises. *)
LEMMA JudgedFalls ==
    ASSUME PackagesInv, NEW i \in 1..5, NEW j \in 1..5, i < j
    PROVE  Rank_of(Harsher, scan(Authority_of(Reputations[i]), payloads))
             >= Rank_of(Harsher, scan(Authority_of(Reputations[j]), payloads))
<1> DEFINE critical(k) == findings_for(Authority_of(Reputations[k]), payloads, "Critical")
           bad(k) == IF Reputations[k] = "Blacklisted" THEN 1 ELSE 0
           doubt(k) == IF Reputations[k] = "Suspicious" THEN 1 ELSE 0
           base == (IF authority.revoked THEN 1 ELSE 0) 
                   + (IF signature.key \in authority.revoked_keys THEN 1 ELSE 0) + file_findings(payloads, "Critical")
           low == file_findings(payloads, "Low")
           medium == file_findings(payloads, "Medium")
           high == file_findings(payloads, "High")
           sum(k) == 5 * low + 15 * medium + 35 * (doubt(k) + high) + 80 * critical(k)
           discount(k) == IF critical(k) > 0 THEN 0
                          ELSE IF Reputations[k] = "Trusted" THEN 15 ELSE IF Reputations[k] = "Verified" THEN 5 ELSE 0
           rejects(k) == Reputations[k] = "Blacklisted" \/ authority.revoked
<1>1. low \in Nat /\ medium \in Nat /\ high \in Nat /\ file_findings(payloads, "Critical") \in Nat
  BY FileFindings
<1>2. base \in Nat
  BY <1>1
<1>3. ASSUME NEW k \in 1..5
      PROVE  /\ critical(k) = bad(k) + base /\ critical(k) \in Nat
             /\ scan(Authority_of(Reputations[k]), payloads) = Verdict(rejects(k), critical(k), Score(sum(k), discount(k)))
  <2>1. critical(k) = (IF authority.revoked THEN 1 ELSE 0) + (IF Reputations[k] = "Blacklisted" THEN 1 ELSE 0)
                      + (IF signature.key \in authority.revoked_keys THEN 1 ELSE 0) + file_findings(payloads, "Critical")
    BY JudgedIs
  <2>2. critical(k) \in Nat
    BY JudgedIs
  <2>3. scan(Authority_of(Reputations[k]), payloads) = Verdict(rejects(k), critical(k), Score(sum(k), discount(k)))
    BY JudgedIs
  <2>4. critical(k) = bad(k) + base
    <3> HIDE DEF critical
    <3> QED BY <1>1, <2>1
  <2> QED BY <2>2, <2>3, <2>4
<1> HIDE DEF critical, low, medium, high, base
<1>4. /\ Reputations[1] = "Blacklisted" /\ Reputations[2] = "Suspicious" /\ Reputations[3] = "Standard"
      /\ Reputations[4] = "Verified" /\ Reputations[5] = "Trusted"
  BY DEF Reputations
<1>5. ASSUME NEW k \in 1..5 PROVE sum(k) \in Nat /\ discount(k) \in Nat /\ Score(sum(k), discount(k)) \in Nat
  <2>1. doubt(k) \in Nat /\ critical(k) \in Nat
    BY <1>3
  <2>2. discount(k) \in Nat
    BY <2>1
  <2>3. sum(k) \in Nat
    <3> HIDE DEF doubt
    <3> QED BY <1>1, <2>1
  <2> HIDE DEF sum, discount
  <2> QED BY <2>2, <2>3, ScoreFalls
<1>6. authority.revoked \in BOOLEAN
  BY DEF PackagesInv
<1>7. CASE i = 1
  <2>1. critical(1) > 0 /\ rejects(1)
    BY <1>2, <1>3, <1>4
  <2>2. scan(Authority_of(Reputations[1]), payloads) = "Rejected"
    BY <1>3, <2>1 DEF Verdict
  <2>3. rejects(j) \in BOOLEAN
    BY <1>6
  <2> HIDE DEF rejects, sum, discount
  <2>4. Rank_of(Harsher, Verdict(rejects(j), critical(j), Score(sum(j), discount(j)))) \in 1..4
    BY <1>3, <1>5, <2>3, VerdictRank
  <2> QED BY <1>3, <1>7, <2>2, <2>4, Ranks
<1>8. CASE i # 1
  <2>1. i \in {2, 3, 4} /\ j \in {3, 4, 5}
    BY <1>8
  <2>2. bad(i) = 0 /\ bad(j) = 0 /\ doubt(j) = 0 /\ doubt(i) \in {0, 1}
    BY <1>4, <2>1
  <2>3. critical(i) = base /\ critical(j) = base
    <3> HIDE DEF bad
    <3> QED BY <1>2, <1>3, <2>2
  <2>4. sum(i) >= sum(j)
    <3> HIDE DEF doubt
    <3> QED BY <1>1, <1>2, <2>2, <2>3
  <2>5. discount(i) <= discount(j)
    BY <1>4, <2>1, <2>3
  <2>6. rejects(i) = rejects(j) /\ rejects(i) \in BOOLEAN
    BY <1>4, <1>6, <2>1
  <2> HIDE DEF rejects, sum, discount
  <2>7. Score(sum(i), discount(i)) >= Score(sum(j), discount(j))
    BY <1>5, <2>4, <2>5, ScoreFalls
  <2>8. Rank_of(Harsher, Verdict(rejects(i), base, Score(sum(i), discount(i)))) >= Rank_of(Harsher, Verdict(rejects(i), base, Score(sum(j), discount(j))))
    BY <1>2, <1>5, <2>6, <2>7, VerdictFalls
  <2> QED BY <1>3, <2>3, <2>6, <2>8
<1> QED BY <1>7, <1>8

LEMMA PackagesInvGives == PackagesInv => PackagesTrue
<1> SUFFICES ASSUME PackagesInv PROVE PackagesTrue
  OBVIOUS
<1>1. verified = "ok" /\ pkg_manifest.protection # "Open" =>
           /\ signature.over = pkg_manifest
           /\ \A p \in DOMAIN signature.over.file_hashes :
                  p \in DOMAIN payloads /\ payloads[p] = signature.over.file_hashes[p]
  BY DEF PackagesInv, Verified_signed
<1>2. DOMAIN Reputations = 1..5
  BY DEF Reputations
<1>3. \A worse, better \in DOMAIN Reputations :
           worse < better =>
             LET judged(i) == scan([authority EXCEPT !.reputation = Reputations[i]], payloads)
             IN  Rank_of(Harsher, judged(worse)) >= Rank_of(Harsher, judged(better))
  BY <1>2, JudgedFalls DEF Authority_of
<1>4. signature.key \in authority.revoked_keys => scan(authority, payloads) \in {"Quarantined", "Rejected"}
  <2> SUFFICES ASSUME signature.key \in authority.revoked_keys PROVE scan(authority, payloads) \in {"Quarantined", "Rejected"}
    OBVIOUS
  <2> DEFINE grave == file_findings(payloads, "Critical")
  <2>1. grave \in Nat
    BY FileFindings
  <2> HIDE DEF grave
  <2>2. authority_findings(authority, "Critical") \in Nat /\ authority_findings(authority, "Critical") > 0
    BY DEF authority_findings
  <2>3. has_critical(authority, payloads)
    BY <2>1, <2>2 DEF has_critical, findings_for, grave
  <2> QED BY <2>3 DEF scan
<1> QED BY <1>1, <1>3, <1>4 DEF PackagesTrue

-----------------------------------------------------------------------------
(* Registries. *)

(* Both registries keep a certified entry under the base of its name, from *)
(* its registration on. *)
RegistriesInv ==
    /\ DOMAIN registries = Registry_names
    /\ \A n \in DOMAIN registered :
         registered[n].entry.source = "Certified" =>
            LET reg == registered[n].reg
                base == registered[n].raw.base
            IN  /\ reg \in Registry_names
                /\ base \in DOMAIN registries[reg]
                /\ registries[reg][base] = registered[n].entry
    /\ \E S : registered \in Seq(S)

LEMMA RegistriesStart == RegistriesInit => RegistriesInv
<1> SUFFICES ASSUME RegistriesInit PROVE RegistriesInv
  OBVIOUS
<1>1. DOMAIN registries = Registry_names /\ registered = <<>>
  BY DEF RegistriesInit
<1>2. registered \in Seq({})
  BY <1>1
<1> QED BY <1>1, <1>2 DEF RegistriesInv

LEMMA NormalizedIs ==
    ASSUME NEW reg, NEW raw, normalized(reg, raw) # Bad_name
    PROVE  normalized(reg, raw) = raw.base
BY DEF normalized, normalize_extension, normalize_name

LEMMA RegistriesStep == RegistriesInv /\ [RegistriesNext]_registryVars => RegistriesInv'
<1> SUFFICES ASSUME RegistriesInv, [RegistriesNext]_registryVars PROVE RegistriesInv'
  OBVIOUS
<1>1. CASE UNCHANGED <<registries, registered>>
  BY <1>1 DEF RegistriesInv
<1>2. CASE register_entry /\ ~UNCHANGED <<registries, registered>>
  <2>1. PICK reg \in Registry_names, raw \in Raw_names, source \in EntrySource :
          LET key == normalized(reg, raw)
              entry == [class |-> Len(registered) + 1, source |-> source]
              entries == registries[reg]
          IN  /\ key # Bad_name
              /\ ~(key \in DOMAIN entries /\ ~(entries[key].source = "SpecSeed" /\ source = "Certified"))
              /\ registries' = [registries EXCEPT ![reg] =
                            [k \in DOMAIN entries \cup {key} |->
                                IF k = key THEN entry ELSE entries[k]]]
              /\ registered' = Append(registered, [reg |-> reg, raw |-> raw, entry |-> entry])
    BY <1>2 DEF register_entry
  <2> DEFINE key == normalized(reg, raw)
             entry == [class |-> Len(registered) + 1, source |-> source]
             entries == registries[reg]
             item == [reg |-> reg, raw |-> raw, entry |-> entry]
             after == [k \in DOMAIN entries \cup {key} |-> IF k = key THEN entry ELSE entries[k]]
  <2>2. key = raw.base /\ entry.source = source
    BY <2>1, NormalizedIs
  <2>3. ~(key \in DOMAIN entries /\ entries[key].source # "SpecSeed")
    BY <2>1
  <2>4. registries' = [registries EXCEPT ![reg] = after] /\ registered' = Append(registered, item)
    BY <2>1
  <2>5. /\ DOMAIN after = DOMAIN entries \cup {key} /\ after[key] = entry
        /\ \A k \in DOMAIN entries : k # key => after[k] = entries[k]
    OBVIOUS
  <2>6. item.reg = reg /\ item.raw = raw /\ item.entry = entry
    OBVIOUS
  <2> HIDE DEF key, entry, entries, item, after
  <2>7. DOMAIN registries' = Registry_names /\ registries'[reg] = after
        /\ \A q \in Registry_names : q # reg => registries'[q] = registries[q]
    BY <2>4 DEF RegistriesInv
  <2>8. PICK S : registered \in Seq(S)
    BY DEF RegistriesInv
  <2> DEFINE T == S \cup {item}
  <2>9. registered \in Seq(T) /\ item \in T
    BY <2>8
  <2> HIDE DEF T
  <2>10. /\ registered' \in Seq(T) /\ DOMAIN registered' = 1..(Len(registered) + 1)
         /\ DOMAIN registered = 1..Len(registered) /\ Len(registered) \in Nat
         /\ registered'[Len(registered) + 1] = item
         /\ \A n \in 1..Len(registered) : registered'[n] = registered[n]
    BY <2>4, <2>9
  <2>11. ASSUME NEW n \in DOMAIN registered', registered'[n].entry.source = "Certified"
         PROVE  /\ registered'[n].reg \in Registry_names
                /\ registered'[n].raw.base \in DOMAIN registries'[registered'[n].reg]
                /\ registries'[registered'[n].reg][registered'[n].raw.base] = registered'[n].entry
    <3>1. CASE n = Len(registered) + 1
      <4>1. registered'[n] = item
        BY <2>10, <3>1
      <4> QED BY <2>2, <2>5, <2>6, <2>7, <4>1
    <3>2. CASE n # Len(registered) + 1
      <4>1. n \in DOMAIN registered /\ registered'[n] = registered[n]
        BY <2>10, <3>2
      <4> DEFINE q == registered[n].reg
                 base == registered[n].raw.base
      <4>2. q \in Registry_names /\ base \in DOMAIN registries[q] /\ registries[q][base] = registered[n].entry
            /\ registered[n].entry.source = "Certified"
        BY <2>11, <4>1 DEF RegistriesInv
      <4> HIDE DEF q, base
      <4>3. base \in DOMAIN registries'[q] /\ registries'[q][base] = registered[n].entry
        <5>1. CASE q # reg
          BY <2>7, <4>2, <5>1
        <5>2. CASE q = reg
          <6>1. base \in DOMAIN entries /\ entries[base].source = "Certified"
            BY <4>2, <5>2 DEF entries
          <6>2. base # key
            BY <2>3, <6>1
          <6> QED BY <2>5, <2>7, <4>2, <5>2, <6>1, <6>2 DEF entries
        <5> QED BY <5>1, <5>2
      <4> QED BY <4>1, <4>2, <4>3 DEF q, base
    <3> QED BY <3>1, <3>2
  <2> QED BY <2>7, <2>10, <2>11 DEF RegistriesInv
<1> QED BY <1>1, <1>2 DEF RegistriesNext, registryVars

LEMMA RegistriesInvGives == RegistriesInv => CertifiedStays
<1>1. \A reg, raw : lookup_name(reg, raw) # Bad_name => lookup_name(reg, raw) = raw.base
  BY DEF lookup_name, recognize, normalize_name
<1> QED BY <1>1 DEF RegistriesInv, CertifiedStays

-----------------------------------------------------------------------------
PackagesParts ==
    /\ VfsInit /\ [][VfsNext]_vfsVars
    /\ PackagesInit /\ [][PackagesNext]_packageVars
    /\ RegistriesInit /\ [][RegistriesNext]_registryVars

THEOREM PackagesAlwaysSound == PackagesParts => []PackagesSound
<1>1. VfsInit /\ [][VfsNext]_vfsVars => []VfsInv
  BY VfsStart, VfsStep, PTL
<1>2. PackagesInit /\ [][PackagesNext]_packageVars => []PackagesInv
  BY PackagesStart, PackagesStep, PTL
<1>3. RegistriesInit /\ [][RegistriesNext]_registryVars => []RegistriesInv
  BY RegistriesStart, RegistriesStep, PTL
<1>4. VfsInv /\ PackagesInv /\ RegistriesInv => PackagesSound
  BY VfsInvGives, PackagesInvGives, RegistriesInvGives DEF PackagesSound
<1> QED BY <1>1, <1>2, <1>3, <1>4, PTL DEF PackagesParts

-----------------------------------------------------------------------------
(* Install plans: what is not reported fits. *)

LEMMA PlanFits == PlanAcceptable
<1> DEFINE deps == all_runtime_deps
           fits == {n \in DOMAIN deps \cap DOMAIN locked : locked[n] >= deps[n]}
<1>1. plan_dependencies.install_order = fits /\ plan_dependencies.unsatisfied = DOMAIN deps \ fits
  BY DEF plan_dependencies
<1>2. DOMAIN deps = DOMAIN wanted \cup DOMAIN optional
      /\ \A n \in DOMAIN wanted \cup DOMAIN optional : deps[n] = IF n \in DOMAIN wanted THEN wanted[n] ELSE optional[n]
  BY DEF all_runtime_deps
<1> HIDE DEF deps
<1> SUFFICES ASSUME DOMAIN deps \ fits = {}, NEW n \in DOMAIN deps
             PROVE  n \in fits /\ (n \in DOMAIN wanted => locked[n] >= wanted[n])
                    /\ (n \notin DOMAIN wanted => locked[n] >= optional[n])
  BY <1>1, <1>2 DEF PlanAcceptable
<1>3. n \in fits
  OBVIOUS
<1> QED BY <1>2, <1>3

(* The install gates. *)

LEMMA PoliciesAre == PoliciesOrdered
<1> SUFFICES ASSUME NEW pkg \in Package, NEW p \in InstallPolicy, NEW q \in InstallPolicy
             PROVE  /\ evaluate_install(pkg, p) = "ok" /\ p.host_target = q.host_target
                       /\ (p.scripts => q.scripts) /\ (p.addons => q.addons) => evaluate_install(pkg, q) = "ok"
                    /\ ~p.scripts /\ ~p.addons =>
                          (evaluate_install(pkg, p) = "ok" <=> ~pkg.scripts /\ ~pkg.addons)
                    /\ evaluate_install(pkg, p) = "ok" => evaluate_install([pkg EXCEPT !.cpu = {}], p) = "ok"
  BY DEF PoliciesOrdered
<1>1. \A k \in Package, h \in InstallPolicy : evaluate_install(k, h) = "ok" <=>
          /\ h.scripts \/ ~k.scripts
          /\ k.addons => h.addons /\ (k.cpu = {} \/ h.host_target \in k.cpu)
  BY DEF evaluate_install
<1> DEFINE bare == [pkg EXCEPT !.cpu = {}]
<1>2. bare \in Package /\ bare.scripts = pkg.scripts /\ bare.addons = pkg.addons /\ bare.cpu = {}
  BY DEF Package
<1> HIDE DEF bare
<1>3. evaluate_install(pkg, p) = "ok" => evaluate_install(bare, p) = "ok"
  BY <1>1, <1>2
<1>4. evaluate_install(pkg, p) = "ok" /\ p.host_target = q.host_target
        /\ (p.scripts => q.scripts) /\ (p.addons => q.addons) => evaluate_install(pkg, q) = "ok"
  BY <1>1
<1>5. ~p.scripts /\ ~p.addons => (evaluate_install(pkg, p) = "ok" <=> ~pkg.scripts /\ ~pkg.addons)
  BY <1>1
<1> QED BY <1>3, <1>4, <1>5 DEF bare

-----------------------------------------------------------------------------
(* Native extensions. *)

Granted(a) == a.caps \subseteq KNOWN_CAPABILITIES \cap a.under.allowed

ExtensionInv ==
    /\ authorized # NotAuthorized =>
         /\ authorized = [caps |-> authorized.caps, lib |-> authorized.lib, sig |-> authorized.sig, under |-> authorized.under]
         /\ Granted(authorized) /\ Signed_for(authorized)
         /\ authorized.sig.by # "none" => authorized.lib = authorized.sig.over.lib
    /\ loadedExt # NotAuthorized => Granted(loadedExt) /\ Signed_for(loadedExt)

LEMMA ExtensionStart == ExtensionInit => ExtensionInv
BY DEF ExtensionInit, ExtensionInv

(* What passes authorize. *)
LEMMA AuthorizedIs ==
    ASSUME NEW expected, authorize_errors(expected) = {}
    PROVE  /\ extension.manifest.caps \subseteq KNOWN_CAPABILITIES \cap policy.allowed
           /\ extension.manifest.abi = 1
           /\ extension.sig.by = "none" => policy.allow_unsigned
           /\ extension.sig.by # "none" =>
                 /\ extension.sig.by \in policy.trusted
                 /\ extension.sig.over = canonical_extension_bytes(extension.manifest, library)
<1> DEFINE m == extension.manifest
<1>1. m.shape = "ok" /\ m.abi = 1 /\ m.runtime = "fits" /\ library = expected /\ verify_extension_signature = "ok"
  BY DEF authorize_errors
<1>2. {IF c \in KNOWN_CAPABILITIES THEN "CapabilityDenied" ELSE "UnknownCapability" :
          c \in m.caps \ (KNOWN_CAPABILITIES \cap policy.allowed)} = {}
  BY <1>1 DEF authorize_errors
<1>3. m.caps \subseteq KNOWN_CAPABILITIES \cap policy.allowed
  BY <1>2
<1>4. extension.sig.by = "none" => policy.allow_unsigned
  BY <1>1 DEF verify_extension_signature
<1>5. extension.sig.by # "none" =>
                 /\ extension.sig.by \in policy.trusted
                 /\ extension.sig.over = canonical_extension_bytes(extension.manifest, library)
  BY <1>1 DEF verify_extension_signature
<1> QED BY <1>1, <1>3, <1>4, <1>5

LEMMA ExtensionStep == ExtensionInv /\ [ExtensionNext]_extensionVars => ExtensionInv'
<1> SUFFICES ASSUME ExtensionInv, [ExtensionNext]_extensionVars PROVE ExtensionInv'
  OBVIOUS
<1>1. CASE UNCHANGED <<authorized, loadedExt>>
  BY <1>1 DEF ExtensionInv, Granted, Signed_for
<1>2. ASSUME NEW expected \in {"good", "other"}, authorize(expected) PROVE ExtensionInv'
  <2>1. loadedExt' = loadedExt
    BY <1>2 DEF authorize
  <2>2. CASE authorize_errors(expected) # {}
    <3>1. authorized' = NotAuthorized
      BY <1>2, <2>2 DEF authorize
    <3> QED BY <2>1, <3>1 DEF ExtensionInv, Granted, Signed_for
  <2>3. CASE authorize_errors(expected) = {}
    <3> DEFINE a == [caps |-> extension.manifest.caps, lib |-> library, sig |-> extension.sig, under |-> policy]
    <3>1. authorized' = a
      BY <1>2, <2>3 DEF authorize
    <3>2. a.caps = extension.manifest.caps /\ a.lib = library /\ a.sig = extension.sig /\ a.under = policy
      OBVIOUS
    <3>3. a = [caps |-> a.caps, lib |-> a.lib, sig |-> a.sig, under |-> a.under]
      OBVIOUS
    <3> HIDE DEF a
    <3>4. extension.sig.by # "none" =>
             /\ extension.sig.over.caps = extension.manifest.caps /\ extension.sig.over.lib = library
             /\ extension.sig.over.abi = 1
      BY <2>3, AuthorizedIs DEF canonical_extension_bytes
    <3>5. Granted(a)
      BY <2>3, <3>2, AuthorizedIs DEF Granted
    <3>6. Signed_for(a)
      BY <2>3, <3>2, <3>4, AuthorizedIs DEF Signed_for
    <3>7. a.sig.by # "none" => a.lib = a.sig.over.lib
      BY <3>2, <3>4
    <3> QED BY <2>1, <3>1, <3>3, <3>5, <3>6, <3>7 DEF ExtensionInv, Granted, Signed_for
  <2> QED BY <2>2, <2>3
<1>3. CASE load_extension
  <2>1. authorized' = authorized /\ authorized # NotAuthorized /\ loadedExt' = [authorized EXCEPT !.lib = library]
    BY <1>3 DEF load_extension
  <2>2. loadedExt'.caps = authorized.caps /\ loadedExt'.sig = authorized.sig /\ loadedExt'.under = authorized.under
    BY <2>1 DEF ExtensionInv
  <2>3. Granted(loadedExt') /\ Signed_for(loadedExt')
    BY <2>1, <2>2 DEF ExtensionInv, Granted, Signed_for
  <2> QED BY <2>1, <2>3 DEF ExtensionInv, Granted, Signed_for
<1> QED BY <1>1, <1>2, <1>3 DEF ExtensionNext, extensionVars, describe_extension, edit_manifest, replace_library, set_policy

LEMMA ExtensionInvGives == ExtensionInv => ExtensionWithinGrant
BY DEF ExtensionInv, ExtensionWithinGrant, Granted

-----------------------------------------------------------------------------
(* The tick pump. *)

TicksInv ==
    /\ tickClock \in Nat /\ ticksFired \in Nat
    /\ nextTick = ticksFired * TickInterval
    /\ \/ tickClock = 0 /\ ticksFired = 0
       \/ ticksFired = (tickClock \div TickInterval) + 1

LEMMA Division ==
    ASSUME NEW T \in Nat, T > 0, NEW x \in Int
    PROVE  /\ x \div T \in Int
           /\ (x \div T) * T <= x /\ x < (x \div T) * T + T
OBVIOUS

LEMMA TheQuotient ==
    ASSUME NEW T \in Nat, T > 0, NEW x \in Int, NEW q \in Int, q * T <= x, x < q * T + T
    PROVE  x \div T = q
<1> DEFINE p == x \div T
<1>1. p \in Int /\ p * T <= x /\ x < p * T + T
  BY Division
<1> HIDE DEF p
<1>2. CASE p >= q + 1
  <2>1. PICK d \in Nat : p = q + 1 + d
    <3>1. p - (q + 1) \in Nat /\ p = q + 1 + (p - (q + 1))
      BY <1>1, <1>2
    <3> QED BY <3>1
  <2>2. p * T = q * T + T + d * T /\ d * T \in Nat /\ q * T \in Int
    BY <2>1
  <2> QED BY <1>1, <2>2
<1>3. CASE q >= p + 1
  <2>1. PICK d \in Nat : q = p + 1 + d
    <3>1. q - (p + 1) \in Nat /\ q = p + 1 + (q - (p + 1))
      BY <1>1, <1>3
    <3> QED BY <3>1
  <2>2. q * T = p * T + T + d * T /\ d * T \in Nat /\ p * T \in Int
    BY <1>1, <2>1
  <2> QED BY <1>1, <2>2
<1>4. p = q
  BY <1>1, <1>2, <1>3
<1> QED BY <1>4 DEF p

LEMMA TicksStep == TicksInv /\ [advance_ticks]_tickVars => TicksInv'
<1> SUFFICES ASSUME TicksInv, [advance_ticks]_tickVars PROVE TicksInv'
  OBVIOUS
<1>1. CASE UNCHANGED tickVars
  BY <1>1 DEF tickVars, TicksInv
<1>2. CASE advance_ticks
  <2> DEFINE T == TickInterval
  <2>0. T \in Nat /\ T > 0
    BY ScriptsAssumption
  <2>1. PICK ms \in 0..(2 * TickInterval + 1) :
          /\ tickClock' = tickClock + ms
          /\ nextTick' = nextTick + Boundaries(tickClock + ms) * TickInterval
          /\ ticksFired' = ticksFired + Boundaries(tickClock + ms)
    BY <1>2 DEF advance_ticks
  <2> DEFINE clock == tickClock + ms
             n == Boundaries(clock)
             f == ticksFired
             k == (clock - nextTick) \div T
  <2>2. tickClock \in Nat /\ f \in Nat /\ nextTick = f * T /\ clock \in Nat /\ clock >= tickClock /\ nextTick \in Nat
    <3>1. tickClock \in Nat /\ f \in Nat /\ nextTick = f * T /\ ms \in Nat
      BY <2>0 DEF TicksInv
    <3>2. f * T \in Nat
      BY <2>0, <3>1
    <3> QED BY <3>1, <3>2
  <2>3. n = IF clock >= nextTick THEN k + 1 ELSE 0
    BY DEF Boundaries
  <2> HIDE DEF clock, n, f, k, T
  <2>4. CASE clock >= nextTick
    <3>1. clock - nextTick \in Int
      BY <2>2
    <3>2. k \in Int /\ k * T <= clock - nextTick /\ clock - nextTick < k * T + T
      BY <2>0, <3>1, Division DEF k
    <3>3. (f + k) * T = f * T + k * T /\ f * T \in Int /\ k * T \in Int /\ f + k \in Int
      BY <2>0, <2>2, <3>2
    <3>4. (f + k) * T <= clock /\ clock < (f + k) * T + T
      BY <2>0, <2>2, <3>2, <3>3
    <3>5. clock \div T = f + k
      BY <2>0, <2>2, <3>3, <3>4, TheQuotient
    <3>6. k >= 0
      <4>1. CASE k <= -1
        <5>1. PICK d \in Nat : k = -1 - d
          <6>1. -1 - k \in Nat /\ k = -1 - (-1 - k)
            BY <3>2, <4>1
          <6> QED BY <6>1
        <5>2. k * T = -T - d * T /\ d * T \in Nat
          BY <2>0, <5>1
        <5> QED BY <2>0, <2>2, <2>4, <3>2, <5>2
      <4> QED BY <3>2, <4>1
    <3>7. n = k + 1 /\ n \in Nat
      BY <2>3, <2>4, <3>2, <3>6
    <3>8. (f + n) * T = f * T + n * T /\ f + n \in Nat /\ f + n = (f + k) + 1
      BY <2>0, <2>2, <3>2, <3>7
    <3>9. ticksFired' = f + n /\ nextTick' = f * T + n * T /\ tickClock' = clock
      BY <2>1, <2>2 DEF n, f, clock, T
    <3> QED BY <2>2, <3>5, <3>8, <3>9 DEF TicksInv, T
  <2>5. CASE clock < nextTick
    <3>1. n = 0
      BY <2>2, <2>3, <2>5
    <3>2. f # 0
      BY <2>0, <2>2, <2>5
    <3>3. f = (tickClock \div T) + 1
      BY <3>2 DEF TicksInv, f, T
    <3> DEFINE q == tickClock \div T
    <3>4. q \in Int /\ q * T <= tickClock /\ f = q + 1
      BY <2>0, <2>2, <3>3, Division
    <3> HIDE DEF q
    <3>5. f * T = q * T + T /\ q * T \in Int
      BY <2>0, <3>4
    <3>6. q * T <= clock /\ clock < q * T + T
      BY <2>2, <2>5, <3>4, <3>5
    <3>7. clock \div T = q
      BY <2>0, <2>2, <3>4, <3>6, TheQuotient
    <3>8. ticksFired' = f /\ nextTick' = f * T /\ tickClock' = clock
      <4>1. ticksFired' = f + n /\ nextTick' = f * T + n * T /\ tickClock' = clock
        BY <2>1, <2>2 DEF n, f, clock, T
      <4> QED BY <2>0, <2>2, <3>1, <3>5, <4>1
    <3> QED BY <2>2, <3>4, <3>7, <3>8 DEF TicksInv, T
  <2> QED BY <2>2, <2>4, <2>5
<1> QED BY <1>1, <1>2

LEMMA TicksInvGives == TicksInv => EveryBoundaryOnce
BY DEF TicksInv, EveryBoundaryOnce

LEMMA TicksStart == TickInit => TicksInv
BY ScriptsAssumption DEF TickInit, TicksInv

-----------------------------------------------------------------------------
(* Reading the tables of an image. *)

ImageInv ==
    /\ \A t \in ToSet(Tables) : rows[t] \in Nat
    /\ offsets \in Seq(Nat) /\ fileSize \in Nat
    /\ walk = "none" => offsets = <<>>
    /\ walk = "done" => Len(offsets) = Len(Tables)
    /\ walk \in {"reading", "done"} =>
         \A n \in 1..Len(offsets) :
            /\ n <= Len(Tables)
            /\ offsets[n] + row_size(Tables[n]) * rows[Tables[n]] <= fileSize
            /\ n > 1 => offsets[n] >= offsets[n - 1] + row_size(Tables[n - 1]) * rows[Tables[n - 1]]

LEMMA TablesAre ==
    /\ Len(Tables) = 10 /\ DOMAIN Tables = 1..10
    /\ \A n \in 1..10 : Tables[n] \in ToSet(Tables)
    /\ ToSet(Tables) = {"TypeRef", "TypeDef", "Field", "MethodDef", "Param", "MemberRef", "ModuleRef", "TypeSpec", "ImplMap", "AssemblyRef"}
<1>1. Len(Tables) = 10 /\ DOMAIN Tables = 1..10
  BY DEF Tables
<1>2. \A n \in 1..10 : Tables[n] \in ToSet(Tables)
  BY <1>1 DEF ToSet
<1>3. Tables[1] = "TypeRef" /\ Tables[2] = "TypeDef" /\ Tables[3] = "Field" /\ Tables[4] = "MethodDef"
      /\ Tables[5] = "Param" /\ Tables[6] = "MemberRef" /\ Tables[7] = "ModuleRef"
      /\ Tables[8] = "TypeSpec" /\ Tables[9] = "ImplMap" /\ Tables[10] = "AssemblyRef"
  BY DEF Tables
<1>4. ToSet(Tables) = {Tables[n] : n \in 1..10}
  BY <1>1 DEF ToSet
<1>5. 1..10 = {1, 2, 3, 4, 5, 6, 7, 8, 9, 10}
  OBVIOUS
<1>6. {Tables[n] : n \in {1, 2, 3, 4, 5, 6, 7, 8, 9, 10}} = {Tables[1], Tables[2], Tables[3], Tables[4], Tables[5], Tables[6], Tables[7], Tables[8], Tables[9], Tables[10]}
  OBVIOUS
<1>7. ToSet(Tables) = {"TypeRef", "TypeDef", "Field", "MethodDef", "Param", "MemberRef", "ModuleRef", "TypeSpec", "ImplMap", "AssemblyRef"}
  BY <1>3, <1>4, <1>5, <1>6
<1> QED BY <1>1, <1>2, <1>7

LEMMA RowSizeType == \A t \in ToSet(Tables) : row_size(t) \in Nat
<1>1. \A tags, tables : coded(tags, tables) \in Nat
  BY DEF coded
<1>2. str_idx \in Nat /\ blob_idx \in Nat /\ \A t : simple(t) \in Nat
  BY DEF str_idx, blob_idx, simple
<1> SUFFICES ASSUME NEW t \in {"TypeRef", "TypeDef", "Field", "MethodDef", "Param", "MemberRef", "ModuleRef", "TypeSpec", "ImplMap", "AssemblyRef"}
             PROVE row_size(t) \in Nat
  BY TablesAre
<1>3. CASE t = "TypeRef"
  <2>1. row_size(t) = coded(4, ResolutionScope) + 2 * str_idx
    BY <1>3 DEF row_size
  <2> QED BY <1>1, <1>2, <2>1
<1>4. CASE t = "TypeDef"
  <2>1. row_size(t) = 4 + 2 * str_idx + coded(4, TypeDefOrRef) + simple("Field") + simple("MethodDef")
    BY <1>4 DEF row_size
  <2> QED BY <1>1, <1>2, <2>1
<1>5. CASE t = "Field"
  <2>1. row_size(t) = 2 + str_idx + blob_idx
    BY <1>5 DEF row_size
  <2> QED BY <1>1, <1>2, <2>1
<1>6. CASE t = "MethodDef"
  <2>1. row_size(t) = 8 + str_idx + blob_idx + simple("Param")
    BY <1>6 DEF row_size
  <2> QED BY <1>1, <1>2, <2>1
<1>7. CASE t = "Param"
  <2>1. row_size(t) = 4 + str_idx
    BY <1>7 DEF row_size
  <2> QED BY <1>1, <1>2, <2>1
<1>8. CASE t = "MemberRef"
  <2>1. row_size(t) = coded(8, MemberRefParent) + str_idx + blob_idx
    BY <1>8 DEF row_size
  <2> QED BY <1>1, <1>2, <2>1
<1>9. CASE t = "ModuleRef"
  <2>1. row_size(t) = str_idx
    BY <1>9 DEF row_size
  <2> QED BY <1>1, <1>2, <2>1
<1>10. CASE t = "TypeSpec"
  <2>1. row_size(t) = blob_idx
    BY <1>10 DEF row_size
  <2> QED BY <1>1, <1>2, <2>1
<1>11. CASE t = "ImplMap"
  <2>1. row_size(t) = 2 + coded(2, MemberForwarded) + str_idx + simple("ModuleRef")
    BY <1>11 DEF row_size
  <2> QED BY <1>1, <1>2, <2>1
<1>12. CASE t = "AssemblyRef"
  <2>1. row_size(t) = 12 + 2 * blob_idx + 2 * str_idx
    BY <1>12 DEF row_size
  <2> QED BY <1>1, <1>2, <2>1
<1> QED BY <1>3, <1>4, <1>5, <1>6, <1>7, <1>8, <1>9, <1>10, <1>11, <1>12

LEMMA ImageStart == ImageInit => ImageInv
BY DEF ImageInit, ImageInv

(* Row sizes depend on the row counts and the width of heap indexes. *)
LEMMA RowSizeSame == ASSUME UNCHANGED <<rows, strings_big, blob_big>> PROVE \A t : row_size(t)' = row_size(t)
<1>1. \A tags, tables : coded(tags, tables)' = coded(tags, tables)
  BY DEF coded
<1>2. str_idx' = str_idx /\ blob_idx' = blob_idx /\ \A t : simple(t)' = simple(t)
  BY DEF str_idx, blob_idx, simple
<1> QED BY <1>1, <1>2 DEF row_size

LEMMA ImageStep == ImageInv /\ [ImageNext]_imageVars => ImageInv'
<1> SUFFICES ASSUME ImageInv, [ImageNext]_imageVars PROVE ImageInv'
  OBVIOUS
<1>1. CASE UNCHANGED imageVars
  <2>1. UNCHANGED <<rows, strings_big, blob_big, fileSize, offsets, walk>>
    BY <1>1 DEF imageVars
  <2> QED BY <2>1, RowSizeSame DEF ImageInv
<1>2. CASE read_tables_header
  <2>1. offsets = <<>> /\ offsets' = offsets /\ walk' = "reading"
    BY <1>2 DEF read_tables_header, ImageInv
  <2>2. \A t \in ToSet(Tables) : rows'[t] \in Nat
    BY <1>2, ScriptsAssumption DEF read_tables_header
  <2>3. fileSize' \in Nat
    BY <1>2 DEF read_tables_header
  <2> QED BY <2>1, <2>2, <2>3 DEF ImageInv
<1>3. CASE walk_table
  <2> DEFINE n == Len(offsets) + 1
             start == Table_start(n)
             size == row_size(Tables[n]) * rows[Tables[n]]
  <2>1. /\ walk = "reading" /\ Len(offsets) < Len(Tables)
        /\ offsets' = Append(offsets, start)
        /\ walk' = IF start + size > fileSize THEN "Malformed" ELSE IF n = Len(Tables) THEN "done" ELSE "reading"
        /\ UNCHANGED <<rows, strings_big, blob_big, fileSize>>
    BY <1>3 DEF walk_table
  <2>2. offsets \in Seq(Nat) /\ Len(offsets) \in Nat /\ n \in 1..10
    <3>1. offsets \in Seq(Nat)
      BY DEF ImageInv
    <3>2. Len(offsets) \in Nat /\ Len(offsets) < 10
      BY <2>1, <3>1, TablesAre
    <3>3. \A k \in Nat : k < 10 => k + 1 \in 1..10
      OBVIOUS
    <3> HIDE DEF start, size
    <3>4. n \in 1..10
      BY <3>2, <3>3
    <3> QED BY <3>1, <3>2, <3>4
  <2>3. \A m \in 1..10 : row_size(Tables[m]) * rows[Tables[m]] \in Nat
    <3> SUFFICES ASSUME NEW m \in 1..10 PROVE row_size(Tables[m]) * rows[Tables[m]] \in Nat
      OBVIOUS
    <3>1. row_size(Tables[m]) \in Nat /\ rows[Tables[m]] \in Nat
      BY TablesAre, RowSizeType DEF ImageInv
    <3> QED BY <3>1
  <2>4. start \in Nat /\ (n > 1 => start = offsets[n - 1] + row_size(Tables[n - 1]) * rows[Tables[n - 1]])
    <3>1. CASE n = 1
      <4>1. start = 24 + 4 * 10
        BY <3>1, TablesAre DEF Table_start
      <4>2. ~(n > 1)
        BY <3>1
      <4> HIDE DEF n, start
      <4> QED BY <4>1, <4>2
    <3>2. CASE n # 1
      <4>1. n - 1 \in 1..10 /\ n - 1 \in 1..Len(offsets) /\ offsets[n - 1] \in Nat
        <5>1. n - 1 = Len(offsets) /\ Len(offsets) \in 1..10 /\ Len(offsets) \in 1..Len(offsets)
          <6>1. \A k \in Nat : k + 1 \in 1..10 /\ k + 1 # 1 => (k + 1) - 1 = k /\ k \in 1..10 /\ k \in 1..k
            OBVIOUS
          <6> HIDE DEF start, size
          <6> QED BY <2>2, <3>2, <6>1
        <5>2. offsets[Len(offsets)] \in Nat
          BY <2>2, <5>1
        <5> QED BY <5>1, <5>2
      <4>2. start = offsets[n - 1] + row_size(Tables[n - 1]) * rows[Tables[n - 1]]
        BY <3>2 DEF Table_start
      <4>3. row_size(Tables[n - 1]) * rows[Tables[n - 1]] \in Nat
        BY <2>3, <4>1
      <4> HIDE DEF n, start
      <4> QED BY <4>1, <4>2, <4>3
    <3> QED BY <3>1, <3>2
  <2> HIDE DEF start, size
  <2>5. offsets' \in Seq(Nat) /\ Len(offsets') = n /\ offsets'[n] = start
        /\ \A m \in 1..Len(offsets) : offsets'[m] = offsets[m]
    BY <2>1, <2>2, <2>4
  <2>6. \A t : row_size(t)' = row_size(t)
    BY <2>1, RowSizeSame
  <2>7. ASSUME walk' \in {"reading", "done"}, NEW m \in 1..n
        PROVE  /\ m <= Len(Tables)
               /\ offsets'[m] + row_size(Tables[m]) * rows[Tables[m]] <= fileSize
               /\ m > 1 => offsets'[m] >= offsets'[m - 1] + row_size(Tables[m - 1]) * rows[Tables[m - 1]]
    <3>1. CASE m = n
      <4>1. ~(start + size > fileSize)
        BY <2>1, <2>7
      <4>2. start + size <= fileSize
        <5>1. start + size \in Int
          <6>1. size \in Nat
            BY <2>2, <2>3 DEF size
          <6> QED BY <2>4, <6>1
        <5>2. fileSize \in Int
          BY DEF ImageInv
        <5> QED BY <4>1, <5>1, <5>2
      <4>3. n > 1 => offsets'[n - 1] = offsets[n - 1]
        BY <2>2, <2>5
      <4>4. n <= Len(Tables)
        <5> HIDE DEF n
        <5>1. n <= 10
          BY <2>2
        <5> QED BY <5>1, TablesAre
      <4>5. offsets'[n] + row_size(Tables[n]) * rows[Tables[n]] <= fileSize
        BY <2>5, <4>2 DEF size
      <4>6. n > 1 => offsets'[n] >= offsets'[n - 1] + row_size(Tables[n - 1]) * rows[Tables[n - 1]]
        BY <2>4, <2>5, <4>3
      <4> HIDE DEF n
      <4> QED BY <3>1, <4>4, <4>5, <4>6
    <3>2. CASE m # n
      <4>1. m \in 1..Len(offsets) /\ (m > 1 => m - 1 \in 1..Len(offsets))
        BY <2>2, <3>2
      <4>2. offsets'[m] = offsets[m] /\ (m > 1 => offsets'[m - 1] = offsets[m - 1])
        BY <2>5, <4>1
      <4> QED BY <2>1, <4>1, <4>2 DEF ImageInv
    <3> QED BY <3>1, <3>2
  <2>8. walk' # "none" /\ (walk' = "done" => n = Len(Tables))
    BY <2>1
  <2> HIDE DEF n
  <2> QED BY <2>1, <2>5, <2>6, <2>7, <2>8 DEF ImageInv
<1> QED BY <1>1, <1>2, <1>3 DEF ImageNext

LEMMA ImageInvGives == ImageInv => LayoutSound
<1> SUFFICES ASSUME ImageInv, walk = "done" PROVE LayoutSound
  BY DEF LayoutSound
<1>1. \A n \in DOMAIN Tables :
         /\ offsets[n] + row_size(Tables[n]) * rows[Tables[n]] <= fileSize
         /\ n > 1 => offsets[n] >= offsets[n - 1] + row_size(Tables[n - 1]) * rows[Tables[n - 1]]
  BY TablesAre DEF ImageInv
<1>2. ShortIndexes \in Nat /\ \A t \in ToSet(Tables) : rows[t] \in Nat
  BY ScriptsAssumption DEF ImageInv
<1>3. Fits_column(4, ResolutionScope) /\ Fits_column(4, TypeDefOrRef)
  <2>1. \A r, s \in Nat : r < s \div 4 => r * 4 + (4 - 1) < s
    OBVIOUS
  <2>2. ResolutionScope \subseteq ToSet(Tables) /\ TypeDefOrRef \subseteq ToSet(Tables)
    BY TablesAre DEF ResolutionScope, TypeDefOrRef
  <2> QED BY <1>2, <2>1, <2>2 DEF Fits_column, coded
<1>4. Fits_column(8, MemberRefParent)
  <2>1. \A r, s \in Nat : r < s \div 8 => r * 8 + (8 - 1) < s
    OBVIOUS
  <2>2. MemberRefParent \subseteq ToSet(Tables)
    BY TablesAre DEF MemberRefParent
  <2> QED BY <1>2, <2>1, <2>2 DEF Fits_column, coded
<1>5. Fits_column(2, MemberForwarded)
  <2>1. \A r, s \in Nat : r < s \div 2 => r * 2 + (2 - 1) < s
    OBVIOUS
  <2>2. MemberForwarded \subseteq ToSet(Tables)
    BY TablesAre DEF MemberForwarded
  <2> QED BY <1>2, <2>1, <2>2 DEF Fits_column, coded
<1>6. \A t \in {"Field", "MethodDef", "Param", "ModuleRef"} : simple(t) = 2 => rows[t] < ShortIndexes
  <2>1. \A t \in {"Field", "MethodDef", "Param", "ModuleRef"} : rows[t] \in Nat
    BY <1>2, TablesAre
  <2> QED BY <1>2, <2>1 DEF simple
<1> QED BY <1>1, <1>3, <1>4, <1>5, <1>6 DEF LayoutSound

-----------------------------------------------------------------------------
(* Accepting an assembly. *)

AnalysisInv ==
    /\ clrPolicy.flavor \in {"Mono", "CoreClr"}
    /\ analysis = "accepted" => AcceptedRunsHere

LEMMA AnalysisStart == AnalysisInit => AnalysisInv
BY DEF AnalysisInit, AnalysisInv

LEMMA AnalysisStep == AnalysisInv /\ [AnalysisNext]_analysisVars => AnalysisInv'
<1> SUFFICES ASSUME AnalysisInv, [AnalysisNext]_analysisVars PROVE AnalysisInv'
  OBVIOUS
<1>1. CASE UNCHANGED analysisVars
  BY <1>1 DEF analysisVars, AnalysisInv, AcceptedRunsHere, accepts, target_framework
<1>2. CASE present_assembly
  <2>1. analysis' = "read" /\ clrPolicy'.flavor \in {"Mono", "CoreClr"}
    BY <1>2 DEF present_assembly
  <2> QED BY <2>1 DEF AnalysisInv
<1>3. CASE analyze_resource
  <2>1. UNCHANGED <<image, clrPolicy>>
    BY <1>3 DEF analyze_resource
  <2>2. ASSUME analysis' = "accepted" PROVE AcceptedRunsHere'
    <3>1. /\ accepts(clrPolicy.flavor, target_framework(image))
          /\ \E t \in DOMAIN image.types : extends_base_script(image, t)
          /\ pinvokes(image) = {} \/ clrPolicy.native
      BY <1>3, <2>2 DEF analyze_resource
    <3>2. PICK t \in DOMAIN image.types : typedef_or_ref_name(image, image.types[t].extends) = "BaseScript"
      BY <3>1 DEF extends_base_script
    <3> DEFINE e == image.types[t].extends
    <3>3. \/ e.tag = 0 /\ e.row \in DOMAIN image.types /\ image.types[e.row].name = "BaseScript"
          \/ e.tag = 1 /\ e.row \in DOMAIN image.typeRefs /\ image.typeRefs[e.row] = "BaseScript"
      BY <3>2 DEF typedef_or_ref_name
    <3>4. \A other \in {"Mono", "CoreClr"} \ {clrPolicy.flavor} : ~accepts(other, target_framework(image))
      BY <3>1 DEF accepts, AnalysisInv
    <3>5. clrPolicy.native \/ \A i \in image.imports \cap DOMAIN image.moduleRefs : image.moduleRefs[i] = ""
      BY <3>1 DEF pinvokes
    <3>6. AcceptedRunsHere
      BY <3>3, <3>4, <3>5 DEF AcceptedRunsHere
    <3> QED BY <2>1, <2>2, <3>3, <3>4, <3>5 DEF AcceptedRunsHere, accepts, target_framework
  <2> QED BY <2>1, <2>2 DEF AnalysisInv
<1> QED BY <1>1, <1>2, <1>3 DEF AnalysisNext

LEMMA AnalysisInvGives == AnalysisInv => AcceptedRunsHere
BY DEF AnalysisInv, AcceptedRunsHere

-----------------------------------------------------------------------------
(* Module resolution. *)

Hop(q) == IF places[q].kind = "dir" /\ places[q].main # NoMain THEN places[q].main ELSE q

(* No main leads out of S. *)
Kept_in(S) == \A q \in S : Hop(q) \in S

Loadable(q) == Is_file(q) \/ places[q].index

(* The calls under way follow mains from the level's place on, and nothing *)
(* is found below the level. *)
ResolveInv ==
    /\ level \in Nat
    /\ level = 0 => loading = <<>> /\ outcome.what = "none"
    /\ level # 0 => level \in Levels /\ places \in [Levels -> Place]
    /\ loading \in Seq(Levels)
    /\ loading # <<>> => loading[1] = level
    /\ \A S \in SUBSET Levels : level \in S /\ Kept_in(S) => \A i \in 1..Len(loading) : loading[i] \in S
    /\ \A i \in 1..Len(loading) : i < Len(loading) =>
          /\ places[loading[i]].kind = "dir" /\ places[loading[i]].main # NoMain
          /\ places[loading[i]].main = loading[i + 1]
    /\ \A l \in Levels : l < level => ~Found_from(l)
    /\ outcome.what = "missing" => \A l \in Levels : ~Found_from(l)
    /\ outcome.what = "found" => Found_from(level)

LEMMA FoundIs ==
    ASSUME NEW p
    PROVE  Found_from(p) <=> \A S \in SUBSET Levels : p \in S /\ Kept_in(S) => \E q \in S : Loadable(q)
BY DEF Found_from, Kept_in, Hop, Loadable

LEMMA FoundSame ==
    ASSUME UNCHANGED places
    PROVE  /\ \A l : Found_from(l)' <=> Found_from(l)
           /\ \A S : Kept_in(S)' <=> Kept_in(S)
<1>1. \A l : Found_from(l)' <=> Found_from(l)
  BY DEF Found_from, Is_file
<1>2. \A S : Kept_in(S)' <=> Kept_in(S)
  BY DEF Kept_in, Hop
<1> QED BY <1>1, <1>2

LEMMA LevelsAre == \E n \in Nat : n >= 1 /\ Levels = 1..n /\ Cardinality(Levels) = n
<1>1. Cardinality(Levels) \in Nat
  BY ScriptsAssumption, FS_CardinalityType
<1>2. Levels = 1..Cardinality(Levels) /\ Levels # {}
  BY ScriptsAssumption
<1>3. Cardinality(Levels) >= 1
  BY <1>1, <1>2
<1> QED BY <1>1, <1>2, <1>3

LEMMA ResolveStart == ResolveInit => ResolveInv
<1> SUFFICES ASSUME ResolveInit PROVE ResolveInv
  OBVIOUS
<1>1. level = 0 /\ loading = <<>> /\ outcome.what = "none"
  BY DEF ResolveInit, Outcome
<1>2. \A l \in Levels : ~(l < 0)
  BY LevelsAre
<1> QED BY <1>1, <1>2 DEF ResolveInv

LEMMA PlaceFilesKeeps == ASSUME ResolveInv, place_files PROVE ResolveInv'
<1>1. level' = 1 /\ loading' = <<1>> /\ outcome' = outcome /\ outcome.what = "none" /\ places' \in [Levels -> Place]
  BY DEF place_files, ResolveInv
<1>2. 1 \in Levels /\ \A l \in Levels : ~(l < 1)
  BY LevelsAre
<1>3. loading' \in Seq(Levels) /\ Len(loading') = 1 /\ loading'[1] = 1
  BY <1>1, <1>2
<1>4. \A i \in 1..Len(loading') : i = 1
  BY <1>3
<1>5. \A S \in SUBSET Levels : level' \in S /\ Kept_in(S)' => \A i \in 1..Len(loading') : loading'[i] \in S
  BY <1>1, <1>3, <1>4
<1>6. \A i \in 1..Len(loading') : ~(i < Len(loading'))
  BY <1>3
<1> QED BY <1>1, <1>2, <1>3, <1>5, <1>6 DEF ResolveInv

(* What is in every kept set that holds the level and can be loaded is     *)
(* what Node finds from it. *)
LEMMA LoadedFound ==
    ASSUME ResolveInv, NEW i \in 1..Len(loading), Loadable(loading[i])
    PROVE  Found_from(level)
<1>1. \A S \in SUBSET Levels : level \in S /\ Kept_in(S) => \E q \in S : Loadable(q)
  BY DEF ResolveInv
<1> QED BY <1>1, FoundIs

LEMMA LoadKeeps == ASSUME ResolveInv, load_as_file_or_dir PROVE ResolveInv'
<1> DEFINE p == Last(loading)
           n == Len(loading)
<1>1. UNCHANGED <<places, level>> /\ loading # <<>> /\ outcome.what = "none"
  BY DEF load_as_file_or_dir
<1>2. loading \in Seq(Levels) /\ n \in Nat /\ n >= 1 /\ n \in 1..n /\ p = loading[n] /\ p \in Levels
  BY <1>1 DEF ResolveInv, Last
<1>3. level # 0 /\ level \in Levels /\ places \in [Levels -> Place]
  BY <1>1 DEF ResolveInv
<1>4. \/ loading' = loading /\ outcome'.what = "found" /\ Loadable(p)
      \/ loading' = loading /\ outcome'.what = "overflow"
      \/ /\ loading' = Append(loading, places[p].main) /\ outcome' = outcome
         /\ places[p].kind = "dir" /\ places[p].main # NoMain
  BY DEF load_as_file_or_dir, Loadable, Outcome
<1>5. /\ \A l : Found_from(l)' <=> Found_from(l)
      /\ \A S : Kept_in(S)' <=> Kept_in(S)
  BY <1>1, FoundSame
<1>6. CASE loading' = loading /\ outcome'.what = "found" /\ Loadable(p)
  <2>1. Found_from(level)
    BY <1>2, <1>6, LoadedFound
  <2> QED BY <1>1, <1>3, <1>5, <1>6, <2>1 DEF ResolveInv
<1>7. CASE loading' = loading /\ outcome'.what = "overflow"
  BY <1>1, <1>3, <1>5, <1>7 DEF ResolveInv
<1>8. CASE /\ loading' = Append(loading, places[p].main) /\ outcome' = outcome
           /\ places[p].kind = "dir" /\ places[p].main # NoMain
  <2> DEFINE m == places[p].main
  <2>1. m \in Levels
    <3>1. places[p] \in Place
      BY <1>2, <1>3
    <3> QED BY <1>8, <3>1 DEF Place
  <2>2. Hop(p) = m
    BY <1>8 DEF Hop
  <2> HIDE DEF m, p
  <2>3. loading' \in Seq(Levels) /\ Len(loading') = n + 1 /\ loading'[n + 1] = m /\ \A i \in 1..n : loading'[i] = loading[i]
    BY <1>2, <1>8, <2>1 DEF m
  <2>4. ASSUME NEW S \in SUBSET Levels, level \in S, Kept_in(S), NEW i \in 1..(n + 1) PROVE loading'[i] \in S
    <3>1. \A j \in 1..n : loading[j] \in S
      BY <2>4 DEF ResolveInv
    <3>2. CASE i = n + 1
      <4>1. p \in S
        BY <1>2, <3>1
      <4>2. m \in S
        BY <2>2, <2>4, <4>1 DEF Kept_in
      <4> QED BY <2>3, <3>2, <4>2
    <3>3. CASE i # n + 1
      <4>1. i \in 1..n
        BY <1>2, <3>3
      <4> QED BY <2>3, <3>1, <4>1
    <3> QED BY <3>2, <3>3
  <2>5. ASSUME NEW i \in 1..(n + 1), i < n + 1
        PROVE  /\ places[loading'[i]].kind = "dir" /\ places[loading'[i]].main # NoMain
               /\ places[loading'[i]].main = loading'[i + 1]
    <3>1. i \in 1..n /\ loading'[i] = loading[i]
      BY <1>2, <2>3, <2>5
    <3>2. CASE i = n
      BY <1>2, <1>8, <2>3, <3>1, <3>2 DEF m
    <3>3. CASE i # n
      <4>1. i < n /\ i + 1 \in 1..n
        BY <1>2, <3>1, <3>3
      <4>2. loading'[i + 1] = loading[i + 1]
        BY <2>3, <4>1
      <4> QED BY <3>1, <4>1, <4>2 DEF ResolveInv
    <3> QED BY <3>2, <3>3
  <2>6. outcome'.what = "none"
    BY <1>1, <1>8
  <2>7. loading'[1] = level
    <3>1. 1 \in 1..n /\ loading[1] = level
      BY <1>1, <1>2 DEF ResolveInv
    <3> QED BY <2>3, <3>1
  <2> HIDE DEF n
  <2> QED BY <1>1, <1>3, <1>5, <2>3, <2>4, <2>5, <2>6, <2>7 DEF ResolveInv
<1> QED BY <1>4, <1>6, <1>7, <1>8

LEMMA WalkKeeps == ASSUME ResolveInv, walk_up PROVE ResolveInv'
<1> DEFINE n == Len(loading)
           p == loading[n]
           callers == {i \in 1..(n - 1) : places[loading[i]].index}
<1>1. UNCHANGED places /\ loading # <<>> /\ outcome.what = "none"
  BY DEF walk_up
<1>2. loading \in Seq(Levels) /\ n \in Nat /\ n >= 1 /\ n \in 1..n /\ p = Last(loading) /\ p \in Levels
  BY <1>1 DEF ResolveInv, Last
<1>3. level # 0 /\ level \in Levels /\ places \in [Levels -> Place]
  BY <1>1 DEF ResolveInv
<1>4. ~Is_file(p) /\ ~(places[p].kind = "dir" /\ (places[p].main # NoMain \/ places[p].index))
  BY <1>2 DEF walk_up
<1>5. \/ callers # {} /\ outcome'.what = "found" /\ UNCHANGED <<level, loading>>
      \/ callers = {} /\ level = Cardinality(Levels) /\ outcome'.what = "missing" /\ loading' = <<>> /\ UNCHANGED level
      \/ callers = {} /\ level # Cardinality(Levels) /\ level' = level + 1 /\ loading' = <<level + 1>> /\ UNCHANGED outcome
  BY DEF walk_up, Outcome
<1>6. /\ \A l : Found_from(l)' <=> Found_from(l)
      /\ \A S : Kept_in(S)' <=> Kept_in(S)
  BY <1>1, FoundSame
<1> HIDE DEF p, n
<1>7. CASE callers # {} /\ outcome'.what = "found" /\ UNCHANGED <<level, loading>>
  <2>1. PICK i \in 1..(n - 1) : places[loading[i]].index
    BY <1>7
  <2>2. i \in 1..Len(loading) /\ Loadable(loading[i])
    BY <1>2, <2>1 DEF Loadable, n
  <2>3. Found_from(level)
    BY <2>2, LoadedFound
  <2> QED BY <1>1, <1>3, <1>6, <1>7, <2>3 DEF ResolveInv
<1>8. ASSUME callers = {} PROVE ~Found_from(level)
  <2> DEFINE S == {loading[i] : i \in 1..n}
  <2>1. S \in SUBSET Levels
    BY <1>2 DEF n
  <2>2. level \in S
    <3>1. 1 \in 1..n /\ loading[1] = level
      BY <1>1, <1>2 DEF ResolveInv
    <3> QED BY <3>1
  <2>3. ASSUME NEW i \in 1..n PROVE Hop(loading[i]) \in S /\ ~Loadable(loading[i])
    <3>1. CASE i = n
      <4>1. loading[i] = p
        BY <3>1 DEF p
      <4>2. Hop(p) = p
        BY <1>4 DEF Hop
      <4>3. ~places[p].index
        <5>1. places[p] \in Place
          BY <1>2, <1>3
        <5> QED BY <1>4, <5>1 DEF Place
      <4>4. ~Loadable(p)
        BY <1>4, <4>3 DEF Loadable
      <4> QED BY <4>1, <4>2, <4>4
    <3>2. CASE i # n
      <4>1. i < n /\ i + 1 \in 1..n /\ i \in 1..(n - 1)
        BY <1>2, <3>2
      <4>2. /\ places[loading[i]].kind = "dir" /\ places[loading[i]].main # NoMain
            /\ places[loading[i]].main = loading[i + 1]
        BY <4>1 DEF ResolveInv, n
      <4>3. Hop(loading[i]) = loading[i + 1]
        BY <4>2 DEF Hop
      <4>4. ~places[loading[i]].index
        BY <1>8, <4>1
      <4>5. ~Is_file(loading[i])
        BY <4>2 DEF Is_file
      <4> QED BY <4>1, <4>3, <4>4, <4>5 DEF Loadable
    <3> QED BY <3>1, <3>2
  <2>4. Kept_in(S)
    BY <2>3 DEF Kept_in
  <2>5. \A q \in S : ~Loadable(q)
    BY <2>3
  <2> HIDE DEF S
  <2> QED BY <2>1, <2>2, <2>4, <2>5, FoundIs
<1>9. PICK N \in Nat : N >= 1 /\ Levels = 1..N /\ Cardinality(Levels) = N
  BY LevelsAre
<1>10. ASSUME callers = {}, NEW l \in Levels, l <= level PROVE ~Found_from(l)
  <2>1. CASE l = level
    BY <1>8, <1>10, <2>1
  <2>2. CASE l # level
    <3>1. l < level
      BY <1>3, <1>9, <1>10, <2>2
    <3> QED BY <3>1 DEF ResolveInv
  <2> QED BY <2>1, <2>2
<1>11. CASE callers = {} /\ level = Cardinality(Levels) /\ outcome'.what = "missing" /\ loading' = <<>> /\ UNCHANGED level
  <2>1. \A l \in Levels : l <= level
    BY <1>9, <1>11
  <2>2. \A l \in Levels : ~Found_from(l)
    BY <1>10, <1>11, <2>1
  <2>3. loading' \in Seq(Levels) /\ Len(loading') = 0 /\ level' = level /\ level \in Nat /\ level # 0
    BY <1>3, <1>9, <1>11
  <2>4. \A i \in 1..Len(loading') : FALSE
    BY <2>3
  <2> QED BY <1>1, <1>3, <1>6, <1>11, <2>2, <2>3, <2>4 DEF ResolveInv
<1>12. CASE callers = {} /\ level # Cardinality(Levels) /\ level' = level + 1 /\ loading' = <<level + 1>> /\ UNCHANGED outcome
  <2>1. level' \in Levels /\ level' \in Nat /\ level' # 0 /\ \A l \in Levels : l < level' => l <= level
    BY <1>3, <1>9, <1>12
  <2>2. \A l \in Levels : l < level' => ~Found_from(l)
    BY <1>10, <1>12, <2>1
  <2>3. loading' = <<level'>>
    BY <1>12
  <2>4. loading' \in Seq(Levels) /\ Len(loading') = 1 /\ loading'[1] = level'
    BY <2>1, <2>3
  <2>5. \A i \in 1..Len(loading') : i = 1 /\ ~(i < Len(loading'))
    BY <2>4
  <2>6. \A S \in SUBSET Levels : level' \in S /\ Kept_in(S)' => \A i \in 1..Len(loading') : loading'[i] \in S
    BY <2>4, <2>5
  <2>7. outcome'.what = "none"
    BY <1>1, <1>12
  <2> QED BY <1>1, <1>3, <1>6, <2>1, <2>2, <2>4, <2>5, <2>6, <2>7 DEF ResolveInv
<1> QED BY <1>5, <1>7, <1>11, <1>12

LEMMA ResolveStep == ResolveInv /\ [ResolveNext]_resolveVars => ResolveInv'
<1> SUFFICES ASSUME ResolveInv, [ResolveNext]_resolveVars PROVE ResolveInv'
  OBVIOUS
<1>1. CASE UNCHANGED resolveVars
  <2>1. UNCHANGED <<places, level, loading, outcome>>
    BY <1>1 DEF resolveVars
  <2> QED BY <2>1, FoundSame DEF ResolveInv
<1> QED BY <1>1, PlaceFilesKeeps, LoadKeeps, WalkKeeps DEF ResolveNext

LEMMA ResolveInvGives == ResolveInv => NearestModule
BY DEF ResolveInv, NearestModule

-----------------------------------------------------------------------------
(* The load plan. *)

Visits == [name : Assemblies, todo : Seq(Assemblies)]

(* Everything planned comes after what it refers to. *)
PlannedAfter ==
    /\ \A i, j \in 1..Len(planned) : planned[i] = planned[j] => i = j
    /\ \A i \in 1..Len(planned) :
          \A r \in ToSet(references[planned[i]]) : \E j \in 1..(i - 1) : planned[j] = r

(* The stack is a path without repetition of assemblies not yet planned,   *)
(* beginning with the root; what one on it refers to is planned, still to  *)
(* be followed, or next on the stack. *)
StackOf(v, done, refs) ==
    /\ \A i, j \in 1..Len(v) : v[i].name = v[j].name => i = j
    /\ \A i \in 1..Len(v) :
          /\ v[i].name \in DOMAIN refs
          /\ v[i].name \notin ToSet(done)
          /\ ToSet(v[i].todo) \subseteq ToSet(refs[v[i].name])
          /\ \A r \in ToSet(refs[v[i].name]) :
                \/ r \in ToSet(done) \cup ToSet(v[i].todo)
                \/ i < Len(v) /\ v[i + 1].name = r
    /\ v # <<>> => v[1].name = Root

Stacked == StackOf(visiting, planned, references)

LoadInv ==
    /\ references = <<>> => planned = <<>> /\ visiting = <<>> /\ loadError # "Cycle"
    /\ \A a \in DOMAIN references : references[a] \in Seq(Assemblies)
    /\ planned \in Seq(Assemblies) /\ visiting \in Seq(Visits)
    /\ PlannedAfter /\ Stacked
    /\ references # <<>> /\ visiting = <<>> => planned # <<>> /\ Last(planned) = Root
    /\ loadError = "Cycle" =>
          visiting # <<>> /\ \E i \in 1..Len(visiting) : visiting[i].name \in ToSet(references[Last(visiting).name])

LEMMA Listing ==
    ASSUME NEW S, IsFiniteSet(S)
    PROVE  SetToSeq(S) \in Seq(S)
<1> DEFINE n == Cardinality(S)
<1>1. n \in Nat /\ Enumeration(S) \in [1..n -> S] /\ \A i, j \in 1..n : Enumeration(S)[i] = Enumeration(S)[j] => i = j
  BY EnumerationOf
<1>2. \E f \in [1..n -> S] : IsInjective(f)
  BY <1>1 DEF IsInjective
<1>3. SetToSeq(S) \in [1..n -> S]
  BY <1>2 DEF SetToSeq
<1> QED BY <1>1, <1>3

LEMMA RootIs == Root \in Assemblies
BY ScriptsAssumption DEF Root

LEMMA LoadStart == LoadInit => LoadInv
BY DEF LoadInit, LoadInv, PlannedAfter, Stacked, StackOf

LEMMA BeginKeeps == ASSUME LoadInv, begin_plan PROVE LoadInv'
<1>1. references = <<>> /\ planned' = planned /\ planned = <<>> /\ loadError' = "none" /\ visiting' = <<Visit(Root)>>
  BY DEF begin_plan, LoadInv
<1>2. PICK D \in SUBSET Assemblies : Root \in D /\ \E refs \in [D -> SUBSET Assemblies] : references' = [a \in D |-> SetToSeq(refs[a])]
  BY DEF begin_plan
<1>3. PICK refs \in [D -> SUBSET Assemblies] : references' = [a \in D |-> SetToSeq(refs[a])]
  BY <1>2
<1>4. \A a \in D : SetToSeq(refs[a]) \in Seq(Assemblies)
  <2> SUFFICES ASSUME NEW a \in D PROVE SetToSeq(refs[a]) \in Seq(Assemblies)
    OBVIOUS
  <2>1. refs[a] \subseteq Assemblies
    OBVIOUS
  <2>2. IsFiniteSet(refs[a])
    BY <2>1, ScriptsAssumption, FS_Subset
  <2>3. SetToSeq(refs[a]) \in Seq(refs[a])
    BY <2>2, Listing
  <2> DEFINE s == SetToSeq(refs[a])
  <2> HIDE DEF s
  <2>4. s \in Seq(refs[a]) => s \in Seq(Assemblies)
    BY <2>1
  <2> QED BY <2>3, <2>4 DEF s
<1>5. DOMAIN references' = D /\ \A a \in D : references'[a] \in Seq(Assemblies)
  BY <1>3, <1>4
<1>6. references' # <<>>
  BY <1>2, <1>5
<1> DEFINE v == [name |-> Root, todo |-> references'[Root]]
<1>7. v \in Visits /\ visiting' = <<v>> /\ v.name = Root /\ v.todo = references'[Root]
  BY <1>1, <1>2, <1>5, RootIs DEF Visit, Visits
<1> HIDE DEF v
<1>8. visiting' \in Seq(Visits) /\ Len(visiting') = 1 /\ visiting'[1] = v /\ visiting' # <<>>
  BY <1>7
<1>9. \A i \in 1..Len(visiting') : i = 1
  BY <1>8
<1>10. Stacked'
  BY <1>1, <1>2, <1>5, <1>7, <1>8, <1>9, ToSetEmpty DEF Stacked, StackOf
<1>11. PlannedAfter'
  BY <1>1 DEF PlannedAfter
<1>12. planned' \in Seq(Assemblies)
  BY <1>1
<1> QED BY <1>1, <1>5, <1>6, <1>8, <1>10, <1>11, <1>12 DEF LoadInv

LEMMA FollowKeeps == ASSUME LoadInv, follow_reference PROVE LoadInv'
<1> DEFINE n == Len(visiting)
           top == Last(visiting)
           r == Head(top.todo)
           less == [name |-> top.name, todo |-> Tail(top.todo)]
           rest == Append(Front(visiting), less)
           new == [name |-> r, todo |-> references[r]]
           error == IF r \notin DOMAIN references THEN "MissingDependency"
                    ELSE IF <<top.name, r>> \in outdated THEN "VersionDowngrade"
                    ELSE IF <<top.name, r>> \in untrusted THEN "Untrusted"
                    ELSE IF \E i \in DOMAIN visiting : visiting[i].name = r THEN "Cycle"
                    ELSE "none"
<1>1. /\ visiting # <<>> /\ loadError = "none" /\ top.todo # <<>>
      /\ loadError' = error
      /\ visiting' = IF error # "none" THEN visiting ELSE IF r \in ToSet(planned) THEN rest ELSE Append(rest, new)
      /\ UNCHANGED <<references, planned>>
  BY DEF follow_reference
<1>2. visiting \in Seq(Visits) /\ references # <<>> /\ planned \in Seq(Assemblies) /\ PlannedAfter /\ Stacked
      /\ \A a \in DOMAIN references : references[a] \in Seq(Assemblies)
  BY <1>1 DEF LoadInv
<1>3. n \in Nat /\ n >= 1 /\ n \in 1..n /\ top = visiting[n] /\ top \in Visits
  BY <1>1, <1>2, FrontIs
<1>4. top.name \in Assemblies /\ top.todo \in Seq(Assemblies)
  BY <1>3 DEF Visits
<1>5. r \in Assemblies /\ Tail(top.todo) \in Seq(Assemblies) /\ ToSet(top.todo) = {r} \cup ToSet(Tail(top.todo))
  BY <1>1, <1>4, ToSetTail
<1>6. less \in Visits /\ less.name = top.name /\ less.todo = Tail(top.todo)
  BY <1>4, <1>5 DEF Visits
<1>7. rest \in Seq(Visits) /\ Len(rest) = n /\ rest[n] = less /\ \A i \in 1..n : i # n => rest[i] = visiting[i]
  <2> HIDE DEF less
  <2> QED BY <1>1, <1>2, <1>6, ReplaceLast
<1>8. new.name = r /\ new.todo = references[r] /\ (r \in DOMAIN references => new \in Visits)
  BY <1>2, <1>5 DEF Visits
<1>9. DOMAIN visiting = 1..n
  BY <1>2
<1> HIDE DEF n, top, r, less, rest, new
<1>10. \A i \in 1..n : rest[i].name = visiting[i].name
  BY <1>3, <1>6, <1>7
<1>11. PlannedAfter'
  BY <1>1, <1>2 DEF PlannedAfter
<1>12. CASE error # "none"
  <2>1. visiting' = visiting
    BY <1>1, <1>12
  <2>2. Stacked'
    BY <1>1, <1>2, <2>1 DEF Stacked, StackOf
  <2>3. loadError' = "Cycle" => \E i \in 1..n : visiting[i].name = r
    BY <1>1, <1>9
  <2>4. r \in ToSet(references[top.name])
    BY <1>2, <1>3, <1>5 DEF Stacked, StackOf, n
  <2>5. loadError' = "Cycle" => \E i \in 1..Len(visiting') : visiting'[i].name \in ToSet(references'[Last(visiting').name])
    BY <1>1, <2>1, <2>3, <2>4 DEF top, n
  <2> QED BY <1>1, <1>2, <1>11, <2>1, <2>2, <2>5 DEF LoadInv
<1>13. CASE error = "none"
  <2>1. r \in DOMAIN references /\ (\A i \in 1..n : visiting[i].name # r) /\ loadError' = "none"
    BY <1>1, <1>9, <1>13
  <2>2. ASSUME NEW i \in 1..n, NEW x \in ToSet(references[visiting[i].name])
        PROVE  \/ x \in ToSet(planned) \cup ToSet(rest[i].todo)
               \/ i < n /\ visiting[i + 1].name = x
               \/ i = n /\ x = r
    <3>1. x \in ToSet(planned) \cup ToSet(visiting[i].todo) \/ (i < n /\ visiting[i + 1].name = x)
      BY <1>2, <2>2 DEF Stacked, StackOf, n
    <3>2. CASE i = n
      BY <1>3, <1>5, <1>6, <1>7, <3>1, <3>2
    <3>3. CASE i # n
      BY <1>7, <3>1, <3>3
    <3> QED BY <3>2, <3>3
  <2>3. \A i \in 1..n : ToSet(rest[i].todo) \subseteq ToSet(references[visiting[i].name])
    <3> SUFFICES ASSUME NEW i \in 1..n PROVE ToSet(rest[i].todo) \subseteq ToSet(references[visiting[i].name])
      OBVIOUS
    <3>1. ToSet(visiting[i].todo) \subseteq ToSet(references[visiting[i].name])
      BY <1>2 DEF Stacked, StackOf, n
    <3>2. CASE i = n
      BY <1>3, <1>5, <1>6, <1>7, <3>1, <3>2
    <3>3. CASE i # n
      BY <1>7, <3>1, <3>3
    <3> QED BY <3>2, <3>3
  <2>4. /\ \A i, j \in 1..n : rest[i].name = rest[j].name => i = j
        /\ \A i \in 1..n : rest[i].name \in DOMAIN references /\ rest[i].name \notin ToSet(planned)
        /\ rest[1].name = Root /\ 1 \in 1..n
    <3>1. 1 \in 1..n
      BY <1>3
    <3> QED BY <1>1, <1>2, <1>10, <3>1 DEF Stacked, StackOf, n
  <2>5. CASE r \in ToSet(planned)
    <3>1. visiting' = rest
      BY <1>1, <1>13, <2>5
    <3>2. \A i \in 1..n : i < n => i + 1 \in 1..n
      BY <1>3
    <3>3. \A i \in 1..n : \A x \in ToSet(references[rest[i].name]) :
             \/ x \in ToSet(planned) \cup ToSet(rest[i].todo)
             \/ i < n /\ rest[i + 1].name = x
      BY <1>10, <2>2, <2>5, <3>2
    <3>4. \A i \in 1..n : ToSet(rest[i].todo) \subseteq ToSet(references[rest[i].name])
      BY <1>10, <2>3
    <3>5. StackOf(rest, planned, references)
      BY <1>7, <2>4, <3>3, <3>4 DEF StackOf
    <3>7. Stacked'
      BY <1>1, <3>1, <3>5 DEF Stacked
    <3>6. visiting' # <<>>
      BY <1>3, <1>7, <3>1
    <3> QED BY <1>1, <1>2, <1>7, <1>11, <2>1, <3>1, <3>6, <3>7 DEF LoadInv
  <2>6. CASE r \notin ToSet(planned)
    <3> DEFINE w == Append(rest, new)
    <3>1. visiting' = w
      BY <1>1, <1>13, <2>6
    <3>2. w \in Seq(Visits) /\ Len(w) = n + 1 /\ w[n + 1] = new /\ \A i \in 1..n : w[i] = rest[i]
      BY <1>7, <1>8, <2>1
    <3> HIDE DEF w
    <3>3. \A i \in 1..(n + 1) : i = n + 1 \/ i \in 1..n
      BY <1>3
    <3>4. \A i, j \in 1..(n + 1) : w[i].name = w[j].name => i = j
      <4> SUFFICES ASSUME NEW i \in 1..(n + 1), NEW j \in 1..(n + 1), w[i].name = w[j].name PROVE i = j
        OBVIOUS
      <4>1. \A k \in 1..n : w[k].name # r /\ w[k].name = rest[k].name
        BY <1>10, <2>1, <3>2
      <4>2. w[n + 1].name = r
        BY <1>8, <3>2
      <4> QED BY <2>4, <3>3, <4>1, <4>2
    <3>5. ASSUME NEW i \in 1..(n + 1)
          PROVE  /\ w[i].name \in DOMAIN references
                 /\ w[i].name \notin ToSet(planned)
                 /\ ToSet(w[i].todo) \subseteq ToSet(references[w[i].name])
                 /\ \A x \in ToSet(references[w[i].name]) :
                       \/ x \in ToSet(planned) \cup ToSet(w[i].todo)
                       \/ i < n + 1 /\ w[i + 1].name = x
      <4>1. CASE i = n + 1
        BY <1>8, <2>1, <2>6, <3>2, <4>1
      <4>2. CASE i \in 1..n
        <5>1. w[i] = rest[i] /\ rest[i].name = visiting[i].name
          BY <1>10, <3>2, <4>2
        <5>2. i < n + 1 /\ (i < n => i + 1 \in 1..n)
          BY <1>3, <4>2
        <5>3. i < n => w[i + 1].name = visiting[i + 1].name
          BY <1>10, <3>2, <5>2
        <5>4. i = n => w[i + 1].name = r
          BY <1>8, <3>2
        <5>5. \A x \in ToSet(references[w[i].name]) :
                       \/ x \in ToSet(planned) \cup ToSet(w[i].todo)
                       \/ i < n + 1 /\ w[i + 1].name = x
          BY <2>2, <4>2, <5>1, <5>2, <5>3, <5>4
        <5> QED BY <2>3, <2>4, <4>2, <5>1, <5>5
      <4> QED BY <3>3, <4>1, <4>2
    <3>6. w[1].name = Root /\ w # <<>>
      BY <1>3, <2>4, <3>2
    <3>7. StackOf(w, planned, references)
      BY <3>2, <3>4, <3>5, <3>6 DEF StackOf
    <3>8. Stacked'
      BY <1>1, <3>1, <3>7 DEF Stacked
    <3> QED BY <1>1, <1>2, <1>11, <2>1, <3>1, <3>2, <3>6, <3>8 DEF LoadInv
  <2> QED BY <2>5, <2>6
<1> QED BY <1>12, <1>13

LEMMA FinishKeeps == ASSUME LoadInv, finish_assembly PROVE LoadInv'
<1> DEFINE n == Len(visiting)
           top == Last(visiting)
           f == Front(visiting)
           m == Len(planned)
           a == top.name
<1>1. visiting # <<>> /\ loadError = "none" /\ top.todo = <<>> /\ planned' = Append(planned, a) /\ visiting' = f
      /\ UNCHANGED <<references, loadError>>
  BY DEF finish_assembly
<1>2. visiting \in Seq(Visits) /\ references # <<>> /\ planned \in Seq(Assemblies) /\ PlannedAfter /\ Stacked
      /\ \A b \in DOMAIN references : references[b] \in Seq(Assemblies)
  BY <1>1 DEF LoadInv
<1>3. n \in Nat /\ n >= 1 /\ n \in 1..n /\ top = visiting[n] /\ top \in Visits
  BY <1>1, <1>2, FrontIs
<1>4. f \in Seq(Visits) /\ Len(f) = n - 1 /\ \A i \in 1..(n - 1) : f[i] = visiting[i]
  BY <1>1, <1>2, FrontIs
<1>5. a \in Assemblies /\ a = visiting[n].name
  BY <1>3 DEF Visits
<1>6. a \notin ToSet(planned) /\ \A x \in ToSet(references[a]) : x \in ToSet(planned)
  <2>1. ToSet(visiting[n].todo) = {} /\ ~(n < n)
    BY <1>1, <1>3, ToSetEmpty
  <2> QED BY <1>2, <1>3, <1>5, <2>1 DEF Stacked, StackOf
<1> HIDE DEF n, top, f, a
<1>7. m \in Nat /\ DOMAIN planned = 1..m /\ planned' \in Seq(Assemblies) /\ Len(planned') = m + 1 /\ planned'[m + 1] = a
      /\ \A i \in 1..m : planned'[i] = planned[i]
  BY <1>1, <1>2, <1>5
<1>8. ToSet(planned') = ToSet(planned) \cup {a}
  BY <1>1, <1>2, <1>5, ToSetAppend
<1>9. \A x \in ToSet(planned) : \E j \in 1..m : planned[j] = x
  BY <1>7 DEF ToSet
<1>10. \A j \in 1..m : planned[j] # a
  BY <1>6, <1>7 DEF ToSet
<1>11. references' = references
  BY <1>1
<1> HIDE DEF m
<1>12. PlannedAfter'
  <2>1. \A i \in 1..(m + 1) : i = m + 1 \/ i \in 1..m
    BY <1>7
  <2>2. \A i, j \in 1..m : planned[i] = planned[j] => i = j
    BY <1>2 DEF PlannedAfter, m
  <2>3. \A i, j \in 1..(m + 1) : planned'[i] = planned'[j] => i = j
    BY <1>7, <1>10, <2>1, <2>2
  <2>4. ASSUME NEW i \in 1..(m + 1), NEW x \in ToSet(references[planned'[i]]) PROVE \E j \in 1..(i - 1) : planned'[j] = x
    <3>1. CASE i = m + 1
      <4>1. x \in ToSet(references[a])
        BY <1>7, <2>4, <3>1
      <4>2. PICK j \in 1..m : planned[j] = x
        BY <1>6, <1>9, <4>1
      <4>3. j \in 1..(i - 1)
        BY <1>7, <3>1
      <4> QED BY <1>7, <4>2, <4>3
    <3>2. CASE i \in 1..m
      <4>1. x \in ToSet(references[planned[i]])
        BY <1>7, <2>4, <3>2
      <4>2. PICK j \in 1..(i - 1) : planned[j] = x
        BY <1>2, <3>2, <4>1 DEF PlannedAfter, m
      <4>3. j \in 1..m
        BY <1>7, <3>2
      <4> QED BY <1>7, <4>2, <4>3
    <3> QED BY <2>1, <3>1, <3>2
  <2> QED BY <1>7, <1>11, <2>3, <2>4 DEF PlannedAfter
<1>13. Stacked'
  <2>1. \A i \in 1..(n - 1) : i \in 1..n /\ i < n /\ i + 1 \in 1..n /\ (i < n - 1 \/ i + 1 = n)
    BY <1>3
  <2>2. \A i, j \in 1..(n - 1) : f[i].name = f[j].name => i = j
    BY <1>2, <1>4, <2>1 DEF Stacked, StackOf, n
  <2>3. ASSUME NEW i \in 1..(n - 1)
        PROVE  /\ f[i].name \in DOMAIN references
               /\ f[i].name \notin ToSet(planned')
               /\ ToSet(f[i].todo) \subseteq ToSet(references[f[i].name])
               /\ \A x \in ToSet(references[f[i].name]) :
                     \/ x \in ToSet(planned') \cup ToSet(f[i].todo)
                     \/ i < n - 1 /\ f[i + 1].name = x
    <3>1. f[i] = visiting[i] /\ visiting[i].name # a
      BY <1>2, <1>3, <1>4, <1>5, <2>1 DEF Stacked, StackOf, n
    <3>2. /\ visiting[i].name \in DOMAIN references
          /\ visiting[i].name \notin ToSet(planned)
          /\ ToSet(visiting[i].todo) \subseteq ToSet(references[visiting[i].name])
          /\ \A x \in ToSet(references[visiting[i].name]) :
                \/ x \in ToSet(planned) \cup ToSet(visiting[i].todo)
                \/ i < n /\ visiting[i + 1].name = x
      BY <1>2, <2>1 DEF Stacked, StackOf, n
    <3>3. CASE i + 1 = n
      BY <1>5, <1>8, <3>1, <3>2, <3>3
    <3>4. CASE i < n - 1
      <4>1. f[i + 1] = visiting[i + 1]
        <5>1. i + 1 \in 1..(n - 1)
          BY <1>3, <3>4
        <5> QED BY <1>4, <5>1
      <4> QED BY <1>8, <3>1, <3>2, <3>4, <4>1
    <3> QED BY <2>1, <3>3, <3>4
  <2>4. f # <<>> => f[1].name = Root
    <3> SUFFICES ASSUME f # <<>> PROVE f[1].name = Root
      OBVIOUS
    <3>1. 1 \in 1..(n - 1)
      BY <1>3, <1>4
    <3> QED BY <1>1, <1>2, <1>4, <3>1 DEF Stacked, StackOf
  <2>5. StackOf(f, planned', references)
    BY <1>4, <2>2, <2>3, <2>4 DEF StackOf
  <2> QED BY <1>1, <1>11, <2>5 DEF Stacked
<1>14. planned' # <<>> /\ (f = <<>> => Last(planned') = Root)
  <2>1. Last(planned') = a
    BY <1>7 DEF Last
  <2>2. f = <<>> => n = 1
    BY <1>3, <1>4
  <2>3. n = 1 => a = Root
    BY <1>1, <1>2, <1>5 DEF Stacked, StackOf
  <2> QED BY <1>7, <2>1, <2>2, <2>3
<1> QED BY <1>1, <1>2, <1>4, <1>7, <1>12, <1>13, <1>14 DEF LoadInv

LEMMA LoadStep == LoadInv /\ [LoadNext]_loadVars => LoadInv'
<1> SUFFICES ASSUME LoadInv, [LoadNext]_loadVars PROVE LoadInv'
  OBVIOUS
<1>1. CASE UNCHANGED loadVars
  <2>1. UNCHANGED <<references, visiting, planned, loadError>>
    BY <1>1 DEF loadVars
  <2>2. PlannedAfter'
    BY <2>1 DEF LoadInv, PlannedAfter
  <2>3. Stacked'
    BY <2>1 DEF LoadInv, Stacked
  <2> QED BY <2>1, <2>2, <2>3 DEF LoadInv
<1>2. CASE root_missing
  <2>1. UNCHANGED <<references, visiting, planned>> /\ references = <<>> /\ loadError' = "MissingDependency"
    BY <1>2 DEF root_missing
  <2>2. PlannedAfter'
    BY <2>1 DEF LoadInv, PlannedAfter
  <2>3. Stacked'
    BY <2>1 DEF LoadInv, Stacked
  <2> QED BY <2>1, <2>2, <2>3 DEF LoadInv
<1> QED BY <1>1, <1>2, BeginKeeps, FollowKeeps, FinishKeeps DEF LoadNext

(* References already followed from an assembly have been vetted: those of *)
(* one on the stack that are no longer to do, and all of a planned one.    *)
Vetted(a, r) == <<a, r>> \notin outdated \cup untrusted

VettedInv ==
    /\ \A i \in 1..Len(visiting) : \A r \in ToSet(references[visiting[i].name]) :
          r \in ToSet(visiting[i].todo) \/ Vetted(visiting[i].name, r)
    /\ \A i \in 1..Len(planned) : \A r \in ToSet(references[planned[i]]) : Vetted(planned[i], r)

LEMMA VettedStart == LoadInit => VettedInv
BY DEF LoadInit, VettedInv

LEMMA FollowVets == ASSUME LoadInv, VettedInv, follow_reference PROVE VettedInv'
<1> DEFINE n == Len(visiting)
           top == Last(visiting)
           r == Head(top.todo)
           less == [name |-> top.name, todo |-> Tail(top.todo)]
           rest == Append(Front(visiting), less)
           new == [name |-> r, todo |-> references[r]]
<1>1. /\ visiting # <<>> /\ top.todo # <<>>
      /\ \/ visiting' = visiting
         \/ visiting' = rest /\ Vetted(top.name, r)
         \/ visiting' = Append(rest, new) /\ Vetted(top.name, r) /\ r \in DOMAIN references
      /\ UNCHANGED <<references, outdated, untrusted, planned>>
  BY DEF follow_reference, Vetted
<1>2. visiting \in Seq(Visits) /\ planned \in Seq(Assemblies)
      /\ \A a \in DOMAIN references : references[a] \in Seq(Assemblies)
  BY DEF LoadInv
<1>3. n \in Nat /\ n >= 1 /\ n \in 1..n /\ top = visiting[n] /\ top \in Visits
  BY <1>1, <1>2, FrontIs
<1>4. top.name \in Assemblies /\ top.todo \in Seq(Assemblies)
  BY <1>3 DEF Visits
<1>5. r \in Assemblies /\ Tail(top.todo) \in Seq(Assemblies) /\ ToSet(top.todo) = {r} \cup ToSet(Tail(top.todo))
  BY <1>1, <1>4, ToSetTail
<1>6. less \in Visits /\ less.name = top.name /\ less.todo = Tail(top.todo)
  BY <1>4, <1>5 DEF Visits
<1>7. rest \in Seq(Visits) /\ Len(rest) = n /\ rest[n] = less /\ \A i \in 1..n : i # n => rest[i] = visiting[i]
  <2> HIDE DEF less
  <2> QED BY <1>1, <1>2, <1>6, ReplaceLast
<1>8. new.name = r /\ new.todo = references[r] /\ (r \in DOMAIN references => new \in Visits)
  BY <1>2, <1>5 DEF Visits
<1> HIDE DEF n, top, r, less, rest, new
<1>9. \A a, x : Vetted(a, x)' = Vetted(a, x)
  BY <1>1 DEF Vetted
<1>10. (\A i \in 1..Len(planned) : \A x \in ToSet(references[planned[i]]) : Vetted(planned[i], x))'
  BY <1>1, <1>9 DEF VettedInv
<1>11. Vetted(top.name, r) => \A i \in 1..n : \A x \in ToSet(references[rest[i].name]) :
          x \in ToSet(rest[i].todo) \/ Vetted(rest[i].name, x)
  <2> SUFFICES ASSUME Vetted(top.name, r), NEW i \in 1..n, NEW x \in ToSet(references[rest[i].name])
               PROVE  x \in ToSet(rest[i].todo) \/ Vetted(rest[i].name, x)
    OBVIOUS
  <2>1. CASE i = n
    <3>1. rest[i].name = top.name /\ rest[i].todo = Tail(top.todo)
      BY <1>6, <1>7, <2>1
    <3>2. x \in ToSet(top.todo) \/ Vetted(top.name, x)
      BY <1>3, <3>1 DEF VettedInv, n
    <3> QED BY <1>5, <3>1, <3>2
  <2>2. CASE i # n
    BY <1>7, <2>2 DEF VettedInv, n
  <2> QED BY <2>1, <2>2
<1>12. CASE visiting' = visiting
  BY <1>1, <1>9, <1>10, <1>12 DEF VettedInv
<1>13. CASE visiting' = rest /\ Vetted(top.name, r)
  <2>1. Len(visiting') = n /\ references' = references
    BY <1>1, <1>7, <1>13
  <2> QED BY <1>9, <1>10, <1>11, <1>13, <2>1 DEF VettedInv
<1>14. CASE visiting' = Append(rest, new) /\ Vetted(top.name, r) /\ r \in DOMAIN references
  <2>1. /\ Len(visiting') = n + 1 /\ visiting'[n + 1] = new /\ references' = references
        /\ \A i \in 1..n : visiting'[i] = rest[i]
    BY <1>1, <1>7, <1>8, <1>14
  <2>2. \A i \in 1..(n + 1) : i = n + 1 \/ i \in 1..n
    BY <1>3
  <2>3. \A i \in 1..(n + 1) : \A x \in ToSet(references[visiting'[i].name]) :
          x \in ToSet(visiting'[i].todo) \/ Vetted(visiting'[i].name, x)
    BY <1>8, <1>11, <1>14, <2>1, <2>2
  <2> QED BY <1>9, <1>10, <2>1, <2>3 DEF VettedInv
<1> QED BY <1>1, <1>12, <1>13, <1>14

LEMMA FinishVets == ASSUME LoadInv, VettedInv, finish_assembly PROVE VettedInv'
<1> DEFINE n == Len(visiting)
           m == Len(planned)
           a == Last(visiting).name
<1>1. /\ visiting # <<>> /\ Last(visiting).todo = <<>>
      /\ planned' = Append(planned, a) /\ visiting' = Front(visiting)
      /\ UNCHANGED <<references, outdated, untrusted>>
  BY DEF finish_assembly
<1>2. visiting \in Seq(Visits) /\ planned \in Seq(Assemblies)
  BY DEF LoadInv
<1>3. n \in Nat /\ n >= 1 /\ n \in 1..n /\ Last(visiting) = visiting[n] /\ visiting[n] \in Visits
  BY <1>1, <1>2, FrontIs
<1>4. Len(visiting') = n - 1 /\ \A i \in 1..(n - 1) : visiting'[i] = visiting[i]
  BY <1>1, <1>2, FrontIs
<1>5. a \in Assemblies /\ a = visiting[n].name
  BY <1>3 DEF Visits
<1>6. \A x \in ToSet(references[a]) : Vetted(a, x)
  <2>1. ToSet(visiting[n].todo) = {}
    BY <1>1, <1>3, ToSetEmpty
  <2> QED BY <1>3, <1>5, <2>1 DEF VettedInv
<1> HIDE DEF n, a
<1>7. m \in Nat /\ Len(planned') = m + 1 /\ planned'[m + 1] = a /\ \A i \in 1..m : planned'[i] = planned[i]
  BY <1>1, <1>2, <1>5
<1>8. \A b, x : Vetted(b, x)' = Vetted(b, x)
  BY <1>1 DEF Vetted
<1>9. \A i \in 1..(n - 1) : i \in 1..n
  BY <1>3
<1>10. \A i \in 1..(n - 1) : \A x \in ToSet(references[visiting'[i].name]) :
          x \in ToSet(visiting'[i].todo) \/ Vetted(visiting'[i].name, x)
  BY <1>4, <1>9 DEF VettedInv, n
<1>11. \A i \in 1..(m + 1) : i = m + 1 \/ i \in 1..m
  BY <1>7
<1>12. \A i \in 1..(m + 1) : \A x \in ToSet(references[planned'[i]]) : Vetted(planned'[i], x)
  BY <1>6, <1>7, <1>11 DEF VettedInv
<1> HIDE DEF m
<1> QED BY <1>1, <1>4, <1>7, <1>8, <1>10, <1>12 DEF VettedInv

LEMMA VettedStep == LoadInv /\ VettedInv /\ [LoadNext]_loadVars => VettedInv'
<1> SUFFICES ASSUME LoadInv, VettedInv, [LoadNext]_loadVars PROVE VettedInv'
  OBVIOUS
<1>1. CASE UNCHANGED <<references, visiting, planned, outdated, untrusted>>
  BY <1>1 DEF VettedInv, Vetted
<1>2. CASE begin_plan
  <2>1. planned' = <<>> /\ visiting' = <<Visit(Root)>> /\ Visit(Root) = [name |-> Root, todo |-> references'[Root]]
    BY <1>2 DEF begin_plan, LoadInv, Visit
  <2> DEFINE v == [name |-> Root, todo |-> references'[Root]]
  <2>2. v.name = Root /\ v.todo = references'[Root]
    OBVIOUS
  <2>3. visiting' = <<v>>
    BY <2>1
  <2> HIDE DEF v
  <2>4. Len(visiting') = 1 /\ visiting'[1] = v /\ Len(planned') = 0
    BY <2>1, <2>3
  <2>5. (\A i \in 1..1 : i = 1) /\ 1..0 = {}
    OBVIOUS
  <2> QED BY <2>2, <2>4, <2>5 DEF VettedInv
<1> QED BY <1>1, <1>2, FollowVets, FinishVets DEF LoadNext, loadVars, root_missing

LEMMA LoadInvGives == LoadInv /\ VettedInv => LoadOrderSound
<1> SUFFICES ASSUME LoadInv, VettedInv PROVE LoadOrderSound
  OBVIOUS
<1>1. DOMAIN planned = 1..Len(planned) /\ DOMAIN visiting = 1..Len(visiting)
  BY DEF LoadInv
<1>2. \A i \in DOMAIN planned : \A r \in ToSet(references[planned[i]]) : <<planned[i], r>> \notin outdated \cup untrusted
  BY <1>1 DEF VettedInv, Vetted
<1>3. references # <<>> /\ visiting = <<>> => Last(planned) = Root
  BY DEF LoadInv
<1>4. loadError = "Cycle" => \E i \in DOMAIN visiting : visiting[i].name \in ToSet(references[Last(visiting).name])
  BY <1>1 DEF LoadInv
<1>5. \A i \in DOMAIN planned :
           /\ \A j \in DOMAIN planned : planned[i] = planned[j] => i = j
           /\ \A r \in ToSet(references[planned[i]]) : \E j \in 1..(i - 1) : planned[j] = r
  BY <1>1 DEF LoadInv, PlannedAfter
<1> QED BY <1>2, <1>3, <1>4, <1>5 DEF LoadOrderSound

-----------------------------------------------------------------------------
(* Timers. *)

TimerKinds == {"timeout", "interval"}
TimerEntry == [uid : Nat, kind : TimerKinds, due : Nat, period : Nat]
AskedFor == [kind : TimerKinds, due : Nat, handle : Nat]

(* What is in the registry is what was asked for, not overdue and, if it   *)
(* is a timeout, has not run. *)
EntryFits(t, clock, asked, ran) ==
    /\ t.uid \in 1..Len(asked) /\ t.kind = asked[t.uid].kind
    /\ t.due >= clock /\ t.due >= asked[t.uid].due
    /\ t.kind = "timeout" => ran[t.uid] = 0

RegistryFits(ts, clock, asked, ran) ==
    /\ \A i \in 1..Len(ts) : EntryFits(ts[i], clock, asked, ran)
    /\ \A i, j \in 1..Len(ts) : ts[i].uid = ts[j].uid => i = j

(* What waits to run is due and, if it is a timeout, waits once and is no  *)
(* longer in the registry. *)
BatchFits(d, ts, clock, asked, ran) ==
    \A i \in 1..Len(d) :
        /\ asked[d[i]].due <= clock
        /\ asked[d[i]].kind = "timeout" =>
             /\ ran[d[i]] = 0
             /\ \A j \in 1..Len(d) : d[j] = d[i] => i = j
             /\ \A j \in 1..Len(ts) : ts[j].uid # d[i]

RunsFit(clock, asked, ran) ==
    \A u \in 1..Len(asked) :
        /\ asked[u].kind = "timeout" => ran[u] <= 1
        /\ ran[u] > 0 => asked[u].due <= clock

JsInv ==
    /\ jsClock \in Nat /\ timers \in Seq(TimerEntry)
    /\ setAt \in Seq(AskedFor) /\ runs \in Seq(0..2) /\ Len(runs) = Len(setAt)
    /\ due \in Seq(1..Len(setAt))
    /\ RegistryFits(timers, jsClock, setAt, runs)
    /\ BatchFits(due, timers, jsClock, setAt, runs)
    /\ RunsFit(jsClock, setAt, runs)

LEMMA JsStart == JsInit => JsInv
BY DEF JsInit, JsInv, RegistryFits, BatchFits, RunsFit

LEMMA AddTimerKeeps == ASSUME JsInv, add_timer PROVE JsInv'
<1>1. PICK kind \in TimerKinds, ms \in Delays :
        LET t == [uid |-> Len(setAt) + 1, kind |-> kind, due |-> jsClock + ms, period |-> ms]
        IN  /\ timers' = Append(timers, t)
            /\ setAt' = Append(setAt, [kind |-> kind, due |-> t.due, handle |-> Len(timers)])
  BY DEF add_timer, TimerKinds
<1> DEFINE n == Len(setAt)
           m == Len(timers)
           t == [uid |-> n + 1, kind |-> kind, due |-> jsClock + ms, period |-> ms]
           a == [kind |-> kind, due |-> jsClock + ms, handle |-> m]
<1>2. timers' = Append(timers, t) /\ setAt' = Append(setAt, a) /\ runs' = Append(runs, 0) /\ UNCHANGED <<jsClock, due>>
  BY <1>1 DEF add_timer
<1>3. /\ jsClock \in Nat /\ timers \in Seq(TimerEntry) /\ setAt \in Seq(AskedFor) /\ runs \in Seq(0..2) /\ Len(runs) = n
      /\ due \in Seq(1..n) /\ n \in Nat /\ m \in Nat /\ ms \in Nat
  BY ScriptsAssumption DEF JsInv
<1>4. t \in TimerEntry /\ t.uid = n + 1 /\ t.kind = kind /\ t.due = jsClock + ms
  BY <1>3 DEF TimerEntry
<1>5. a \in AskedFor /\ a.kind = kind /\ a.due = jsClock + ms
  BY <1>3 DEF AskedFor
<1> HIDE DEF t, a, n, m
<1>6. timers' \in Seq(TimerEntry) /\ Len(timers') = m + 1 /\ timers'[m + 1] = t /\ \A i \in 1..m : timers'[i] = timers[i]
  BY <1>2, <1>3, <1>4 DEF m
<1>7. setAt' \in Seq(AskedFor) /\ Len(setAt') = n + 1 /\ setAt'[n + 1] = a /\ \A i \in 1..n : setAt'[i] = setAt[i]
  BY <1>2, <1>3, <1>5 DEF n
<1>8. runs' \in Seq(0..2) /\ Len(runs') = n + 1 /\ runs'[n + 1] = 0 /\ \A i \in 1..n : runs'[i] = runs[i]
  <2>1. 0 \in 0..2
    OBVIOUS
  <2> QED BY <1>2, <1>3, <2>1
<1>9. /\ \A i \in 1..(m + 1) : i = m + 1 \/ i \in 1..m
      /\ \A i \in 1..(n + 1) : i = n + 1 \/ i \in 1..n
      /\ n + 1 \in 1..(n + 1) /\ n + 1 \notin 1..n /\ \A i \in 1..n : i \in 1..(n + 1)
  BY <1>3
<1>10. \A i \in 1..m : EntryFits(timers[i], jsClock, setAt, runs) /\ timers[i].uid \in 1..n
  BY DEF JsInv, RegistryFits, EntryFits, n, m
<1>11. \A i \in 1..m : EntryFits(timers'[i], jsClock, setAt', runs')
  BY <1>6, <1>7, <1>8, <1>9, <1>10 DEF EntryFits, n
<1>12. EntryFits(t, jsClock, setAt', runs')
  <2>1. t.due >= jsClock /\ t.due >= a.due
    BY <1>3, <1>4, <1>5
  <2> QED BY <1>4, <1>5, <1>7, <1>8, <1>9, <2>1 DEF EntryFits
<1>13. \A i, j \in 1..m : timers[i].uid = timers[j].uid => i = j
  BY DEF JsInv, RegistryFits, m
<1>14. RegistryFits(timers', jsClock, setAt', runs')
  <2>1. \A i \in 1..(m + 1) : EntryFits(timers'[i], jsClock, setAt', runs')
    BY <1>6, <1>9, <1>11, <1>12
  <2>2. \A i, j \in 1..(m + 1) : timers'[i].uid = timers'[j].uid => i = j
    BY <1>4, <1>6, <1>9, <1>10, <1>13
  <2> QED BY <1>6, <2>1, <2>2 DEF RegistryFits
<1>15. due \in Seq(1..(n + 1))
  BY <1>3, <1>9
<1>16. BatchFits(due, timers', jsClock, setAt', runs')
  <2> SUFFICES ASSUME NEW i \in 1..Len(due)
               PROVE  /\ setAt'[due[i]].due <= jsClock
                      /\ setAt'[due[i]].kind = "timeout" =>
                           /\ runs'[due[i]] = 0
                           /\ \A j \in 1..Len(due) : due[j] = due[i] => i = j
                           /\ \A j \in 1..(m + 1) : timers'[j].uid # due[i]
    BY <1>6 DEF BatchFits
  <2>1. due[i] \in 1..n
    BY <1>3
  <2>2. /\ setAt[due[i]].due <= jsClock
        /\ setAt[due[i]].kind = "timeout" =>
             /\ runs[due[i]] = 0
             /\ \A j \in 1..Len(due) : due[j] = due[i] => i = j
             /\ \A j \in 1..m : timers[j].uid # due[i]
    BY DEF JsInv, BatchFits, m
  <2>3. setAt'[due[i]] = setAt[due[i]] /\ runs'[due[i]] = runs[due[i]]
    BY <1>7, <1>8, <2>1
  <2>4. timers'[m + 1].uid # due[i]
    BY <1>4, <1>6, <1>9, <2>1
  <2> QED BY <1>6, <1>9, <2>2, <2>3, <2>4
<1>17. RunsFit(jsClock, setAt', runs')
  <2> SUFFICES ASSUME NEW u \in 1..(n + 1)
               PROVE  (setAt'[u].kind = "timeout" => runs'[u] <= 1) /\ (runs'[u] > 0 => setAt'[u].due <= jsClock)
    BY <1>7 DEF RunsFit
  <2>1. CASE u = n + 1
    BY <1>8, <2>1
  <2>2. CASE u \in 1..n
    BY <1>7, <1>8, <2>2 DEF JsInv, RunsFit, n
  <2> QED BY <1>9, <2>1, <2>2
<1> QED BY <1>2, <1>3, <1>6, <1>7, <1>8, <1>14, <1>15, <1>16, <1>17 DEF JsInv

(* Removing one timer of the registry. *)
LEMMA RemovedIs ==
    ASSUME NEW T, NEW s \in Seq(T), NEW i \in 1..Len(s)
    PROVE  /\ RemoveAt(s, i) \in Seq(T)
           /\ \E at \in [1..Len(RemoveAt(s, i)) -> 1..Len(s)] :
                /\ \A a, b \in 1..Len(RemoveAt(s, i)) : at[a] = at[b] => a = b
                /\ \A a \in 1..Len(RemoveAt(s, i)) : RemoveAt(s, i)[a] = s[at[a]]
<1> DEFINE n == Len(s)
           p == SubSeq(s, 1, i - 1)
           q == SubSeq(s, i + 1, n)
           r == p \o q
           at == [a \in 1..(n - 1) |-> IF a < i THEN a ELSE a + 1]
<1>1. n \in Nat /\ i \in Nat /\ 1 <= i /\ i <= n
  OBVIOUS
<1>2. p \in Seq(T) /\ Len(p) = i - 1 /\ \A a \in 1..(i - 1) : p[a] = s[a]
  BY <1>1
<1>3. q \in Seq(T) /\ Len(q) = n - i /\ \A a \in 1..(n - i) : q[a] = s[i + a]
  <2>1. q \in Seq(T) /\ Len(q) = n - i
    BY <1>1
  <2>2. \A a \in 1..(n - i) : q[a] = s[(i + 1) + a - 1]
    BY <1>1
  <2>3. \A a \in 1..(n - i) : (i + 1) + a - 1 = i + a
    BY <1>1
  <2> QED BY <2>1, <2>2, <2>3
<1> HIDE DEF p, q, n
<1>0. /\ r \in Seq(T) /\ Len(r) = Len(p) + Len(q)
      /\ \A a \in 1..Len(p) : r[a] = p[a]
      /\ \A a \in 1..Len(q) : r[Len(p) + a] = q[a]
  <2>1. p \in Seq(T) /\ q \in Seq(T)
    BY <1>2, <1>3
  <2>2. /\ p \o q \in Seq(T) /\ Len(p \o q) = Len(p) + Len(q)
        /\ \A a \in 1..Len(p) : (p \o q)[a] = p[a]
        /\ \A a \in 1..Len(q) : (p \o q)[Len(p) + a] = q[a]
    BY <2>1, JoinedIs, SMTT(30)
  <2> QED BY <2>2
<1>4. r \in Seq(T) /\ Len(r) = (i - 1) + (n - i)
  BY <1>0, <1>2, <1>3
<1>5. (\A a \in 1..(i - 1) : r[a] = p[a]) /\ (\A a \in 1..(n - i) : r[(i - 1) + a] = q[a])
  BY <1>0, <1>2, <1>3
<1> HIDE DEF r
<1>6. Len(r) = n - 1
  BY <1>1, <1>4
<1>7. at \in [1..(n - 1) -> 1..n] /\ \A a, b \in 1..(n - 1) : at[a] = at[b] => a = b
  BY <1>1
<1>8. ASSUME NEW a \in 1..(n - 1) PROVE r[a] = s[at[a]]
  <2>1. CASE a < i
    <3>1. a \in 1..(i - 1) /\ at[a] = a
      BY <1>1, <2>1
    <3> QED BY <1>2, <1>5, <3>1
  <2>2. CASE ~(a < i)
    <3>1. a - (i - 1) \in 1..(n - i) /\ (i - 1) + (a - (i - 1)) = a /\ i + (a - (i - 1)) = a + 1 /\ at[a] = a + 1
      BY <1>1, <2>2
    <3>2. r[(i - 1) + (a - (i - 1))] = q[a - (i - 1)] /\ q[a - (i - 1)] = s[i + (a - (i - 1))]
      BY <1>3, <1>5, <3>1
    <3> QED BY <3>1, <3>2
  <2> QED BY <2>1, <2>2
<1>9. RemoveAt(s, i) = r
  BY DEF RemoveAt, r, p, q, n
<1> HIDE DEF at
<1>10. at \in [1..Len(r) -> 1..n] /\ (\A a, b \in 1..Len(r) : at[a] = at[b] => a = b) /\ \A a \in 1..Len(r) : r[a] = s[at[a]]
  BY <1>6, <1>7, <1>8
<1> QED BY <1>4, <1>9, <1>10 DEF n

(* A registry that holds some of the entries of another is as fit. *)
LEMMA RegistryPart ==
    ASSUME NEW ts \in Seq(TimerEntry), NEW us \in Seq(TimerEntry), NEW at \in [1..Len(us) -> 1..Len(ts)],
           \A a, b \in 1..Len(us) : at[a] = at[b] => a = b,
           \A a \in 1..Len(us) : us[a] = ts[at[a]],
           NEW d, NEW clock, NEW asked, NEW ran,
           RegistryFits(ts, clock, asked, ran), BatchFits(d, ts, clock, asked, ran)
    PROVE  RegistryFits(us, clock, asked, ran) /\ BatchFits(d, us, clock, asked, ran)
<1> DEFINE n == Len(ts)
           m == Len(us)
<1>1. \A a \in 1..m : at[a] \in 1..n
  OBVIOUS
<1>2. (\A a, b \in 1..m : at[a] = at[b] => a = b) /\ \A a \in 1..m : us[a] = ts[at[a]]
  OBVIOUS
<1>3. (\A i \in 1..n : EntryFits(ts[i], clock, asked, ran)) /\ \A i, j \in 1..n : ts[i].uid = ts[j].uid => i = j
  BY DEF RegistryFits
<1>4. ASSUME NEW i \in 1..Len(d), asked[d[i]].kind = "timeout"
      PROVE  \A j \in 1..n : ts[j].uid # d[i]
  BY <1>4 DEF BatchFits
<1> HIDE DEF n, m
<1>5. \A i \in 1..m : EntryFits(us[i], clock, asked, ran)
  BY <1>1, <1>2, <1>3
<1>6. ASSUME NEW i \in 1..m, NEW j \in 1..m, us[i].uid = us[j].uid PROVE i = j
  <2>1. ts[at[i]].uid = ts[at[j]].uid
    BY <1>2, <1>6
  <2>2. at[i] = at[j]
    BY <1>1, <1>3, <2>1
  <2> QED BY <1>2, <2>2
<1>7. RegistryFits(us, clock, asked, ran)
  BY <1>5, <1>6 DEF RegistryFits, m
<1>8. ASSUME NEW i \in 1..Len(d), asked[d[i]].kind = "timeout"
      PROVE  \A j \in 1..m : us[j].uid # d[i]
  BY <1>1, <1>2, <1>4, <1>8
<1>9. BatchFits(d, us, clock, asked, ran)
  <2>1. ASSUME NEW i \in 1..Len(d), asked[d[i]].kind = "timeout" PROVE \A j \in 1..Len(us) : us[j].uid # d[i]
    BY <1>8, <2>1 DEF m
  <2> QED BY <2>1 DEF BatchFits
<1> QED BY <1>7, <1>9

LEMMA ClearTimerKeeps == ASSUME JsInv, clear_timer PROVE JsInv'
<1>1. UNCHANGED <<jsClock, due, setAt, runs>>
  BY DEF clear_timer
<1>2. PICK i \in DOMAIN timers : timers' = RemoveAt(timers, i)
  BY DEF clear_timer
<1> DEFINE us == RemoveAt(timers, i)
<1>3. timers \in Seq(TimerEntry) /\ i \in 1..Len(timers)
  BY DEF JsInv
<1>4. us \in Seq(TimerEntry)
  BY <1>3, RemovedIs
<1>5. PICK at \in [1..Len(us) -> 1..Len(timers)] :
        /\ \A a, b \in 1..Len(us) : at[a] = at[b] => a = b
        /\ \A a \in 1..Len(us) : us[a] = timers[at[a]]
  BY <1>3, RemovedIs
<1>6. RegistryFits(timers, jsClock, setAt, runs) /\ BatchFits(due, timers, jsClock, setAt, runs)
  BY DEF JsInv
<1> HIDE DEF us
<1>7. RegistryFits(us, jsClock, setAt, runs) /\ BatchFits(due, us, jsClock, setAt, runs)
  BY <1>3, <1>4, <1>5, <1>6, RegistryPart
<1>8. timers' = us
  BY <1>2 DEF us
<1> QED BY <1>1, <1>4, <1>7, <1>8 DEF JsInv

(* What a pump makes of a registry ts: us stays in it, each entry coming   *)
(* from a place of its own, and d is to run. *)
Staying(us, stay, ts, c) ==
    /\ stay \in [1..Len(us) -> 1..Len(ts)]
    /\ \A a, b \in 1..Len(us) : stay[a] = stay[b] => a = b
    /\ \A a \in 1..Len(us) : /\ us[a].uid = ts[stay[a]].uid /\ us[a].kind = ts[stay[a]].kind
                             /\ us[a].due >= ts[stay[a]].due /\ us[a].due >= c
                             /\ ts[stay[a]].due > c \/ ts[stay[a]].kind = "interval"

Firing(d, late, ts, c) ==
    /\ late \in [1..Len(d) -> 1..Len(ts)]
    /\ \A a, b \in 1..Len(d) : late[a] = late[b] => a = b
    /\ \A a \in 1..Len(d) : d[a] = ts[late[a]].uid /\ ts[late[a]].due <= c

LEMMA PumpFits ==
    ASSUME NEW ts \in Seq(TimerEntry), NEW c0 \in Nat, NEW c \in Nat, c0 <= c,
           NEW asked \in Seq(AskedFor), NEW ran,
           RegistryFits(ts, c0, asked, ran),
           NEW us \in Seq(TimerEntry), NEW stay, Staying(us, stay, ts, c),
           NEW d \in Seq(Nat), NEW late, Firing(d, late, ts, c)
    PROVE  /\ RegistryFits(us, c, asked, ran)
           /\ d \in Seq(1..Len(asked)) /\ BatchFits(d, us, c, asked, ran)
<1> DEFINE n == Len(ts)
           m == Len(us)
           k == Len(d)
<1>1. \A i \in 1..n : /\ ts[i].uid \in 1..Len(asked) /\ ts[i].kind = asked[ts[i].uid].kind
                      /\ ts[i].due >= asked[ts[i].uid].due
                      /\ ts[i].kind = "timeout" => ran[ts[i].uid] = 0
  BY DEF RegistryFits, EntryFits
<1>2. \A i, j \in 1..n : ts[i].uid = ts[j].uid => i = j
  BY DEF RegistryFits
<1>3. \A i \in 1..n : ts[i].due \in Nat /\ ts[i].uid \in Nat /\ asked[ts[i].uid].due \in Nat
  <2>1. \A i \in 1..n : ts[i] \in TimerEntry
    OBVIOUS
  <2>2. \A u \in 1..Len(asked) : asked[u] \in AskedFor
    OBVIOUS
  <2> QED BY <1>1, <2>1, <2>2 DEF TimerEntry, AskedFor
<1>4. /\ \A a, b \in 1..m : stay[a] = stay[b] => a = b
      /\ \A a \in 1..m : stay[a] \in 1..n
      /\ \A a \in 1..m : /\ us[a].uid = ts[stay[a]].uid /\ us[a].kind = ts[stay[a]].kind
                         /\ us[a].due >= ts[stay[a]].due /\ us[a].due >= c
                         /\ ts[stay[a]].due > c \/ ts[stay[a]].kind = "interval"
  BY DEF Staying
<1>5. /\ \A a, b \in 1..k : late[a] = late[b] => a = b
      /\ \A a \in 1..k : late[a] \in 1..n
      /\ \A a \in 1..k : d[a] = ts[late[a]].uid /\ ts[late[a]].due <= c
  BY DEF Firing
<1>6. \A a \in 1..m : us[a].due \in Nat
  <2>1. \A a \in 1..m : us[a] \in TimerEntry
    OBVIOUS
  <2> QED BY <2>1 DEF TimerEntry
<1>7. k \in Nat /\ d \in [1..k -> Nat]
  OBVIOUS
<1> HIDE DEF n, m, k
<1>8. ASSUME NEW a \in 1..m PROVE EntryFits(us[a], c, asked, ran)
  <2>1. stay[a] \in 1..n /\ us[a].uid = ts[stay[a]].uid /\ us[a].kind = ts[stay[a]].kind
        /\ us[a].due >= ts[stay[a]].due /\ us[a].due >= c
    BY <1>4
  <2>2. us[a].due >= asked[us[a].uid].due
    <3>1. ts[stay[a]].due >= asked[ts[stay[a]].uid].due /\ ts[stay[a]].due \in Nat /\ asked[ts[stay[a]].uid].due \in Nat
      BY <1>1, <1>3, <2>1
    <3> DEFINE x == us[a].due
               y == ts[stay[a]].due
               z == asked[ts[stay[a]].uid].due
    <3>2. x \in Nat /\ y \in Nat /\ z \in Nat /\ x >= y /\ y >= z
      BY <1>6, <2>1, <3>1
    <3>3. x >= z
      <4> HIDE DEF x, y, z
      <4> QED BY <3>2
    <3> QED BY <2>1, <3>3
  <2> QED BY <1>1, <2>1, <2>2 DEF EntryFits
<1>9. ASSUME NEW i \in 1..m, NEW j \in 1..m, us[i].uid = us[j].uid PROVE i = j
  <2>1. ts[stay[i]].uid = ts[stay[j]].uid
    BY <1>4, <1>9
  <2>2. stay[i] = stay[j]
    BY <1>2, <1>4, <2>1
  <2> QED BY <1>4, <2>2
<1>10. RegistryFits(us, c, asked, ran)
  BY <1>8, <1>9 DEF RegistryFits, m
<1>11. \A a \in 1..k : d[a] \in 1..Len(asked)
  BY <1>1, <1>5
<1>12. d \in Seq(1..Len(asked))
  <2>1. d \in [1..k -> 1..Len(asked)]
    BY <1>7, <1>11
  <2> DEFINE S == 1..Len(asked)
  <2> HIDE DEF S
  <2>2. d \in [1..k -> S]
    BY <2>1 DEF S
  <2>3. d \in Seq(S)
    BY <1>7, <2>2
  <2> QED BY <2>3 DEF S
<1>13. ASSUME NEW i \in 1..k PROVE asked[d[i]].due <= c
  <2>1. late[i] \in 1..n /\ d[i] = ts[late[i]].uid /\ ts[late[i]].due <= c
    BY <1>5
  <2>2. ts[late[i]].due >= asked[ts[late[i]].uid].due /\ ts[late[i]].due \in Nat /\ asked[ts[late[i]].uid].due \in Nat
    BY <1>1, <1>3, <2>1
  <2> DEFINE x == ts[late[i]].due
             y == asked[ts[late[i]].uid].due
  <2>3. x \in Nat /\ y \in Nat /\ x <= c /\ x >= y
    BY <2>1, <2>2
  <2>4. y <= c
    <3> HIDE DEF x, y
    <3> QED BY <2>3
  <2> QED BY <2>1, <2>4
<1>14. ASSUME NEW i \in 1..k, asked[d[i]].kind = "timeout"
       PROVE  /\ ran[d[i]] = 0
              /\ \A j \in 1..k : d[j] = d[i] => i = j
              /\ \A j \in 1..m : us[j].uid # d[i]
  <2>1. late[i] \in 1..n /\ d[i] = ts[late[i]].uid /\ ts[late[i]].due <= c /\ ts[late[i]].kind = "timeout"
    BY <1>1, <1>5, <1>14
  <2>2. ran[d[i]] = 0
    BY <1>1, <2>1
  <2>3. ASSUME NEW j \in 1..k, d[j] = d[i] PROVE i = j
    <3>1. late[j] \in 1..n /\ ts[late[j]].uid = ts[late[i]].uid
      BY <1>5, <2>3
    <3>2. late[j] = late[i]
      BY <1>2, <2>1, <3>1
    <3> QED BY <1>5, <3>2
  <2>4. ASSUME NEW j \in 1..m, us[j].uid = d[i] PROVE FALSE
    <3>1. stay[j] \in 1..n /\ ts[stay[j]].uid = ts[late[i]].uid
      BY <1>4, <2>1, <2>4
    <3>2. stay[j] = late[i]
      BY <1>2, <2>1, <3>1
    <3>3. ts[late[i]].due > c
      BY <1>4, <2>1, <3>2
    <3> QED BY <1>3, <2>1, <3>3
  <2> QED BY <2>2, <2>3, <2>4
<1>15. BatchFits(d, us, c, asked, ran)
  BY <1>13, <1>14 DEF BatchFits, k, m
<1> QED BY <1>10, <1>12, <1>15


(* What a pump does to one entry that stays. *)
Pumped(t, clock) == IF t.due > clock THEN t ELSE Rearmed(t, clock)

LEMMA PumpedIs ==
    ASSUME NEW t \in TimerEntry, NEW clock \in Nat
    PROVE  /\ Pumped(t, clock) \in TimerEntry
           /\ Pumped(t, clock).uid = t.uid /\ Pumped(t, clock).kind = t.kind
           /\ Pumped(t, clock).due >= t.due /\ Pumped(t, clock).due >= clock
<1>1. t.due \in Nat /\ t.period \in Nat /\ clock + t.period \in Nat
  BY DEF TimerEntry
<1>2. CASE t.due > clock
  BY <1>1, <1>2 DEF Pumped
<1>3. CASE ~(t.due > clock)
  <2>1. Pumped(t, clock) = [t EXCEPT !.due = clock + t.period]
    BY <1>3 DEF Pumped, Rearmed
  <2>2. Pumped(t, clock) \in TimerEntry /\ Pumped(t, clock).uid = t.uid /\ Pumped(t, clock).kind = t.kind
        /\ Pumped(t, clock).due = clock + t.period
    BY <1>1, <2>1 DEF TimerEntry
  <2>3. clock + t.period >= clock /\ clock + t.period >= t.due
    BY <1>1, <1>3
  <2> QED BY <2>2, <2>3
<1> QED BY <1>2, <1>3

LEMMA TickTimersKeeps == ASSUME JsInv, tick_timers PROVE JsInv'
<1>1. PICK e \in Elapsed :
        LET clock == jsClock + e
            late == Selected(timers, {i \in DOMAIN timers : timers[i].due <= clock})
            kept == Selected(timers, {i \in DOMAIN timers : timers[i].due > clock \/ timers[i].kind = "interval"})
        IN  /\ jsClock' = clock
            /\ timers' = [i \in DOMAIN kept |->
                             IF kept[i].due > clock THEN kept[i] ELSE Rearmed(kept[i], clock)]
            /\ due' = [i \in DOMAIN late |-> late[i].uid]
  BY DEF tick_timers
<1> DEFINE n == Len(timers)
           c == jsClock + e
           KL == {i \in DOMAIN timers : timers[i].due <= c}
           KS == {i \in DOMAIN timers : timers[i].due > c \/ timers[i].kind = "interval"}
           late == Selected(timers, KL)
           kept == Selected(timers, KS)
           us == [i \in DOMAIN kept |-> Pumped(kept[i], c)]
           d == [i \in DOMAIN late |-> late[i].uid]
<1>2. jsClock' = c /\ timers' = us /\ due' = d
  BY <1>1 DEF Pumped
<1>3. UNCHANGED <<setAt, runs>>
  BY DEF tick_timers
<1>4. /\ jsClock \in Nat /\ timers \in Seq(TimerEntry) /\ setAt \in Seq(AskedFor)
      /\ RegistryFits(timers, jsClock, setAt, runs) /\ RunsFit(jsClock, setAt, runs)
  BY DEF JsInv
<1>5. c \in Nat /\ jsClock <= c
  BY <1>4, ScriptsAssumption
<1> HIDE DEF c, KL, KS
<1>6. kept \in Seq(TimerEntry) /\ late \in Seq(TimerEntry)
  BY <1>4, SelectionIs
<1>7. PICK stay \in [1..Len(kept) -> 1..Len(timers)] :
        /\ \A a, b \in 1..Len(kept) : stay[a] = stay[b] => a = b
        /\ \A a \in 1..Len(kept) : stay[a] \in KS /\ kept[a] = timers[stay[a]]
  <2>1. \E at : Selection(at, kept, timers, KS)
    BY <1>4, SelectionIs
  <2> HIDE DEF kept
  <2> QED BY <2>1 DEF Selection
<1>8. PICK gone \in [1..Len(late) -> 1..Len(timers)] :
        /\ \A a, b \in 1..Len(late) : gone[a] = gone[b] => a = b
        /\ \A a \in 1..Len(late) : gone[a] \in KL /\ late[a] = timers[gone[a]]
  <2>1. \E at : Selection(at, late, timers, KL)
    BY <1>4, SelectionIs
  <2> HIDE DEF late
  <2> QED BY <2>1 DEF Selection
<1> HIDE DEF kept, late
<1>9. \A a \in 1..Len(kept) : kept[a] \in TimerEntry /\ us[a] = Pumped(kept[a], c)
  BY <1>6
<1>10. \A a \in 1..Len(late) : late[a] \in TimerEntry /\ d[a] = late[a].uid /\ d[a] \in Nat
  <2>1. DOMAIN late = 1..Len(late) /\ \A a \in 1..Len(late) : late[a] \in TimerEntry
    BY <1>6
  <2>2. \A a \in 1..Len(late) : late[a].uid \in Nat
    BY <2>1 DEF TimerEntry
  <2> QED BY <2>1, <2>2
<1>11. us \in Seq(TimerEntry) /\ Len(us) = Len(kept)
  <2>1. \A a \in 1..Len(kept) : Pumped(kept[a], c) \in TimerEntry
    BY <1>5, <1>9, PumpedIs
  <2>2. us \in [1..Len(kept) -> TimerEntry] /\ Len(kept) \in Nat
    BY <1>6, <2>1
  <2> QED BY <2>2
<1>12. d \in Seq(Nat) /\ Len(d) = Len(late)
  <2>1. DOMAIN late = 1..Len(late) /\ Len(late) \in Nat
    BY <1>6
  <2>2. d \in [1..Len(late) -> Nat]
    BY <1>10, <2>1
  <2> QED BY <2>1, <2>2
<1> HIDE DEF us, d
<1>13. ASSUME NEW a \in 1..Len(us)
       PROVE  /\ us[a].uid = timers[stay[a]].uid /\ us[a].kind = timers[stay[a]].kind
              /\ us[a].due >= timers[stay[a]].due /\ us[a].due >= c
              /\ timers[stay[a]].due > c \/ timers[stay[a]].kind = "interval"
  <2>1. a \in 1..Len(kept) /\ us[a] = Pumped(kept[a], c) /\ kept[a] \in TimerEntry /\ kept[a] = timers[stay[a]] /\ stay[a] \in KS
    BY <1>7, <1>9, <1>11
  <2>2. Pumped(kept[a], c).uid = kept[a].uid /\ Pumped(kept[a], c).kind = kept[a].kind
        /\ Pumped(kept[a], c).due >= kept[a].due /\ Pumped(kept[a], c).due >= c
    BY <1>5, <2>1, PumpedIs
  <2> QED BY <2>1, <2>2 DEF KS
<1>14. \A a \in 1..Len(d) : d[a] = timers[gone[a]].uid /\ timers[gone[a]].due <= c
  BY <1>8, <1>10, <1>12 DEF KL
<1>15. Staying(us, stay, timers, c)
  BY <1>7, <1>11, <1>13 DEF Staying
<1>16. Firing(d, gone, timers, c)
  BY <1>8, <1>12, <1>14 DEF Firing
<1>17. RegistryFits(us, c, setAt, runs) /\ d \in Seq(1..Len(setAt)) /\ BatchFits(d, us, c, setAt, runs)
  BY <1>4, <1>5, <1>11, <1>12, <1>15, <1>16, PumpFits
<1>18. RunsFit(c, setAt, runs)
  <2> SUFFICES ASSUME NEW u \in 1..Len(setAt), runs[u] > 0 PROVE setAt[u].due <= c
    BY <1>4 DEF RunsFit
  <2>0. setAt[u] \in AskedFor
    BY <1>4
  <2>1. setAt[u].due <= jsClock /\ setAt[u].due \in Nat
    BY <1>4, <2>0 DEF RunsFit, AskedFor
  <2> QED BY <1>4, <1>5, <2>1
<1> QED BY <1>2, <1>3, <1>5, <1>11, <1>17, <1>18 DEF JsInv

LEMMA RunTimerKeeps == ASSUME JsInv, run_timer PROVE JsInv'
<1> DEFINE u == Head(due)
           N == Len(setAt)
           k == Len(due)
<1>1. UNCHANGED <<jsClock, timers, setAt>> /\ due # <<>> /\ (due' = <<>> \/ due' = Tail(due))
      /\ runs' = [runs EXCEPT ![u] = Min({runs[u] + 1, 2})]
  BY DEF run_timer
<1>2. /\ jsClock \in Nat /\ timers \in Seq(TimerEntry) /\ setAt \in Seq(AskedFor) /\ runs \in Seq(0..2) /\ Len(runs) = N
      /\ due \in Seq(1..N) /\ N \in Nat
  BY DEF JsInv
<1>3. k \in Nat /\ k >= 1 /\ 1 \in 1..k /\ u = due[1] /\ u \in 1..N
  BY <1>1, <1>2
<1>4. /\ setAt[u].due <= jsClock
      /\ setAt[u].kind = "timeout" =>
           /\ runs[u] = 0
           /\ \A j \in 1..k : due[j] = u => 1 = j
           /\ \A j \in 1..Len(timers) : timers[j].uid # u
  <2>1. \A i \in 1..k :
        /\ setAt[due[i]].due <= jsClock
        /\ setAt[due[i]].kind = "timeout" =>
             /\ runs[due[i]] = 0
             /\ \A j \in 1..k : due[j] = due[i] => i = j
             /\ \A j \in 1..Len(timers) : timers[j].uid # due[i]
    BY DEF JsInv, BatchFits
  <2> QED BY <1>3, <2>1
<1> DEFINE v == Min({runs[u] + 1, 2})
<1>5. runs[u] \in 0..2 /\ v = (IF runs[u] + 1 <= 2 THEN runs[u] + 1 ELSE 2)
  <2>1. runs[u] \in 0..2
    BY <1>2, <1>3
  <2>2. runs[u] + 1 \in Int /\ 2 \in Int
    BY <2>1
  <2> QED BY <2>1, <2>2, MinOfPair
<1> HIDE DEF v, u
<1>6. v \in 0..2 /\ (runs[u] = 0 => v = 1)
  BY <1>5
<1>7. /\ runs' \in Seq(0..2) /\ Len(runs') = N /\ runs'[u] = v
      /\ \A w \in 1..N : w # u => runs'[w] = runs[w]
  <2>1. runs' = [runs EXCEPT ![u] = v]
    BY <1>1 DEF v, u
  <2>2. \A s \in Seq(0..2), a \in 0..2, i \in 1..N :
          Len(s) = N => /\ [s EXCEPT ![i] = a] \in Seq(0..2) /\ Len([s EXCEPT ![i] = a]) = N
                        /\ [s EXCEPT ![i] = a][i] = a
                        /\ \A w \in 1..N : w # i => [s EXCEPT ![i] = a][w] = s[w]
    BY <1>2
  <2> QED BY <1>2, <1>3, <1>6, <2>1, <2>2
<1>8. ASSUME NEW i \in 1..Len(timers) PROVE EntryFits(timers[i], jsClock, setAt, runs')
  <2>1. EntryFits(timers[i], jsClock, setAt, runs)
    BY DEF JsInv, RegistryFits
  <2>2. ASSUME timers[i].kind = "timeout" PROVE runs'[timers[i].uid] = 0
    <3>1. timers[i].uid \in 1..N /\ setAt[timers[i].uid].kind = "timeout" /\ runs[timers[i].uid] = 0
      BY <2>1, <2>2 DEF EntryFits
    <3>2. timers[i].uid # u
      BY <1>4, <3>1
    <3> QED BY <1>7, <3>1, <3>2
  <2> QED BY <2>1, <2>2 DEF EntryFits
<1>9. RegistryFits(timers, jsClock, setAt, runs')
  BY <1>8 DEF JsInv, RegistryFits
<1> DEFINE t == Tail(due)
<1>10. t \in Seq(1..N) /\ Len(t) = k - 1 /\ \A i \in 1..(k - 1) : t[i] = due[i + 1]
  BY <1>1, <1>2
<1> HIDE DEF t
<1>11. \A i \in 1..(k - 1) : i + 1 \in 1..k /\ i + 1 # 1
  BY <1>3
<1>12. BatchFits(t, timers, jsClock, setAt, runs')
  <2> SUFFICES ASSUME NEW i \in 1..(k - 1)
               PROVE  /\ setAt[t[i]].due <= jsClock
                      /\ setAt[t[i]].kind = "timeout" =>
                           /\ runs'[t[i]] = 0
                           /\ \A j \in 1..(k - 1) : t[j] = t[i] => i = j
                           /\ \A j \in 1..Len(timers) : timers[j].uid # t[i]
    BY <1>10 DEF BatchFits
  <2>1. i + 1 \in 1..k /\ t[i] = due[i + 1] /\ t[i] \in 1..N
    BY <1>10, <1>11
  <2>2. /\ setAt[t[i]].due <= jsClock
        /\ setAt[t[i]].kind = "timeout" =>
             /\ runs[t[i]] = 0
             /\ \A j \in 1..k : due[j] = t[i] => i + 1 = j
             /\ \A j \in 1..Len(timers) : timers[j].uid # t[i]
    BY <2>1 DEF JsInv, BatchFits
  <2>3. ASSUME setAt[t[i]].kind = "timeout" PROVE runs'[t[i]] = 0
    <3>1. t[i] # u
      BY <1>3, <1>11, <2>2, <2>3
    <3> QED BY <1>7, <2>1, <2>2, <2>3, <3>1
  <2>4. ASSUME setAt[t[i]].kind = "timeout", NEW j \in 1..(k - 1), t[j] = t[i] PROVE i = j
    <3>1. j + 1 \in 1..k /\ due[j + 1] = t[i]
      BY <1>10, <1>11, <2>4
    <3>2. i + 1 = j + 1
      BY <2>2, <2>4, <3>1
    <3> QED BY <1>3, <3>2
  <2> QED BY <2>2, <2>3, <2>4
<1>13. BatchFits(due', timers, jsClock, setAt, runs') /\ due' \in Seq(1..N)
  <2>1. CASE due' = <<>>
    BY <2>1 DEF BatchFits
  <2>2. CASE due' = Tail(due)
    BY <1>10, <1>12, <2>2 DEF t
  <2> QED BY <1>1, <2>1, <2>2
<1>14. RunsFit(jsClock, setAt, runs')
  <2> SUFFICES ASSUME NEW w \in 1..N
               PROVE  (setAt[w].kind = "timeout" => runs'[w] <= 1) /\ (runs'[w] > 0 => setAt[w].due <= jsClock)
    BY DEF RunsFit
  <2>1. CASE w = u
    <3>1. setAt[u].kind = "timeout" => runs'[u] = 1
      BY <1>4, <1>6, <1>7
    <3> QED BY <1>4, <2>1, <3>1
  <2>2. CASE w # u
    BY <1>7, <2>2 DEF JsInv, RunsFit
  <2> QED BY <2>1, <2>2
<1> QED BY <1>1, <1>2, <1>7, <1>9, <1>13, <1>14 DEF JsInv

LEMMA JsStep == JsInv /\ [JsNext]_jsVars => JsInv'
<1> SUFFICES ASSUME JsInv, [JsNext]_jsVars PROVE JsInv'
  OBVIOUS
<1>1. CASE UNCHANGED jsVars
  BY <1>1 DEF JsInv, jsVars
<1> QED BY <1>1, AddTimerKeeps, ClearTimerKeeps, TickTimersKeeps, RunTimerKeeps DEF JsNext

LEMMA JsInvGives == JsInv => TimersKeepTime
<1> SUFFICES ASSUME JsInv PROVE TimersKeepTime
  OBVIOUS
<1>1. DOMAIN setAt = 1..Len(setAt) /\ DOMAIN timers = 1..Len(timers)
  BY DEF JsInv
<1>2. \A i \in 1..Len(timers) : timers[i].due >= jsClock
  BY DEF JsInv, RegistryFits, EntryFits
<1> QED BY <1>1, <1>2 DEF JsInv, RunsFit, TimersKeepTime

-----------------------------------------------------------------------------
(* Events. *)

HandlerEntry == [net : BOOLEAN]
Batch == [known : Nat, todo : Seq(Nat)]

(* h has been heard and todo has not: between them the local handlers      *)
(* among the first known, each once and in order. *)
BatchHeard(h, known, todo, hs) ==
    /\ known <= Len(hs)
    /\ \A i \in 1..Len(h) : h[i] \in 1..known /\ ~hs[h[i]].net
    /\ \A i \in 1..Len(todo) : todo[i] \in 1..known /\ ~hs[todo[i]].net
    /\ \A i, j \in 1..Len(h) : i < j => h[i] < h[j]
    /\ \A i, j \in 1..Len(todo) : i < j => todo[i] < todo[j]
    /\ \A i \in 1..Len(h), j \in 1..Len(todo) : h[i] < todo[j]
    /\ \A x \in 1..known : ~hs[x].net =>
           (\E i \in 1..Len(h) : h[i] = x) \/ (\E i \in 1..Len(todo) : todo[i] = x)

WireFits(sent, queued) ==
    /\ sent \in Seq(Nat) /\ queued \in Seq(Nat)
    /\ \A i \in 1..Len(sent) : sent[i] = i
    /\ \A i \in 1..Len(queued) : queued[i] = Len(sent) + i

BusInv ==
    /\ handlers \in Seq(HandlerEntry) /\ batches \in Seq(Batch)
    /\ heard \in Seq(Seq(Nat)) /\ Len(heard) = Len(batches)
    /\ \A b \in 1..Len(batches) : BatchHeard(heard[b], batches[b].known, batches[b].todo, handlers)
    /\ WireFits(delivered, outgoing)

LEMMA BusStart == BusInit => BusInv
BY DEF BusInit, BusInv, WireFits

(* Handlers registered later change nothing for a batch. *)
LEMMA OnEventKeeps == ASSUME BusInv, on_event PROVE BusInv'
<1>1. PICK net \in BOOLEAN : handlers' = Append(handlers, [net |-> net])
  BY DEF on_event
<1>2. UNCHANGED <<outgoing, batches, heard, delivered>>
  BY DEF on_event
<1> DEFINE n == Len(handlers)
           e == [net |-> net]
           hs == Append(handlers, e)
<1>3. handlers \in Seq(HandlerEntry) /\ e \in HandlerEntry /\ n \in Nat
  BY DEF BusInv, HandlerEntry
<1> HIDE DEF e
<1>4. hs \in Seq(HandlerEntry) /\ Len(hs) = n + 1 /\ \A i \in 1..n : hs[i] = handlers[i]
  BY <1>3
<1> HIDE DEF hs, n
<1>5. ASSUME NEW b \in 1..Len(batches) PROVE BatchHeard(heard[b], batches[b].known, batches[b].todo, hs)
  <2> DEFINE h == heard[b]
             k == batches[b].known
             t == batches[b].todo
  <2>1. BatchHeard(h, k, t, handlers)
    BY DEF BusInv
  <2>2. batches[b] \in Batch
    BY DEF BusInv
  <2>3. k \in Nat
    BY <2>2 DEF Batch
  <2> HIDE DEF h, k, t
  <2>4. k <= n
    BY <2>1 DEF BatchHeard, n
  <2>5. k <= Len(hs) /\ \A x \in 1..k : hs[x] = handlers[x]
    BY <1>3, <1>4, <2>3, <2>4
  <2>6. BatchHeard(h, k, t, hs)
    BY <2>1, <2>5 DEF BatchHeard
  <2> QED BY <2>6 DEF h, k, t
<1>6. handlers' = hs
  BY <1>1 DEF hs, e
<1> QED BY <1>2, <1>4, <1>5, <1>6 DEF BusInv

LEMMA FireLocalKeeps == ASSUME BusInv, fire_local PROVE BusInv'
<1> DEFINE n == Len(handlers)
           K == {i \in DOMAIN handlers : ~handlers[i].net}
           all == [i \in DOMAIN handlers |-> i]
           local == Selected(all, K)
           new == [known |-> n, todo |-> local]
           m == Len(batches)
           E == <<>>
<1>1. /\ batches' = Append(batches, new) /\ heard' = Append(heard, E)
      /\ UNCHANGED <<handlers, outgoing, delivered>>
  BY DEF fire_local
<1>2. /\ handlers \in Seq(HandlerEntry) /\ batches \in Seq(Batch) /\ heard \in Seq(Seq(Nat)) /\ Len(heard) = m
      /\ DOMAIN handlers = 1..n /\ n \in Nat /\ m \in Nat
  BY DEF BusInv
<1>3. all \in Seq(Nat) /\ Len(all) = n /\ \A i \in 1..n : all[i] = i
  <2>1. all \in [1..n -> Nat]
    BY <1>2
  <2> QED BY <1>2, <2>1
<1>4. \A i \in 1..n : i \in K <=> ~handlers[i].net
  BY <1>2
<1> HIDE DEF all, K
<1>5. local \in Seq(Nat)
  BY <1>3, SelectionIs
<1>6. PICK at : Selection(at, local, all, K)
  BY <1>3, SelectionIs
<1> HIDE DEF local
<1>7. /\ \A a \in 1..Len(local) : at[a] \in 1..n
      /\ \A a, b \in 1..Len(local) : a < b => at[a] < at[b]
      /\ \A a \in 1..Len(local) : at[a] \in K /\ local[a] = all[at[a]]
      /\ \A i \in 1..n : i \in K => \E a \in 1..Len(local) : at[a] = i
  BY <1>3, <1>6 DEF Selection
<1>8. \A a \in 1..Len(local) : local[a] = at[a]
  BY <1>3, <1>7
<1>9. /\ \A a \in 1..Len(local) : local[a] \in 1..n /\ ~handlers[local[a]].net
      /\ \A a, b \in 1..Len(local) : a < b => local[a] < local[b]
      /\ \A i \in 1..n : ~handlers[i].net => \E a \in 1..Len(local) : local[a] = i
  BY <1>4, <1>7, <1>8
<1>10. BatchHeard(E, n, local, handlers)
  <2>1. Len(E) = 0 /\ n <= Len(handlers)
    BY <1>2
  <2>2. \A i \in 1..Len(E) : FALSE
    BY <2>1
  <2> HIDE DEF E
  <2>3. n <= Len(handlers)
    BY <2>1
  <2> QED BY <1>9, <2>2, <2>3 DEF BatchHeard
<1>11. new \in Batch /\ new.known = n /\ new.todo = local
  BY <1>2, <1>5 DEF Batch
<1>12. E \in Seq(Nat)
  OBVIOUS
<1> HIDE DEF new, E
<1>13. batches' \in Seq(Batch) /\ Len(batches') = m + 1 /\ batches'[m + 1] = new /\ \A i \in 1..m : batches'[i] = batches[i]
  BY <1>1, <1>2, <1>11
<1>14. heard' \in Seq(Seq(Nat)) /\ Len(heard') = m + 1 /\ heard'[m + 1] = E /\ \A i \in 1..m : heard'[i] = heard[i]
  BY <1>1, <1>2, <1>12
<1>15. ASSUME NEW b \in 1..(m + 1) PROVE BatchHeard(heard'[b], batches'[b].known, batches'[b].todo, handlers)
  <2>1. CASE b = m + 1
    BY <1>10, <1>11, <1>13, <1>14, <2>1
  <2>2. CASE b # m + 1
    <3>1. b \in 1..m
      BY <1>2, <2>2
    <3>2. BatchHeard(heard[b], batches[b].known, batches[b].todo, handlers)
      BY <3>1 DEF BusInv
    <3> QED BY <1>13, <1>14, <3>1, <3>2
  <2> QED BY <2>1, <2>2
<1>16. \A b \in 1..Len(batches') : BatchHeard(heard'[b], batches'[b].known, batches'[b].todo, handlers)
  BY <1>13, <1>15
<1> QED BY <1>1, <1>2, <1>13, <1>14, <1>16 DEF BusInv

(* The next handler of a batch runs. *)
LEMMA HeardNext ==
    ASSUME NEW h \in Seq(Nat), NEW known \in Nat, NEW todo \in Seq(Nat), todo # <<>>, NEW hs,
           BatchHeard(h, known, todo, hs)
    PROVE  BatchHeard(Append(h, Head(todo)), known, Tail(todo), hs)
<1> DEFINE n == Len(h)
           m == Len(todo)
           x == Head(todo)
           g == Append(h, x)
           t == Tail(todo)
<1>1. n \in Nat /\ m \in Nat /\ m >= 1 /\ x = todo[1] /\ x \in Nat /\ 1 \in 1..m
  OBVIOUS
<1>2. t \in Seq(Nat) /\ Len(t) = m - 1 /\ \A i \in 1..(m - 1) : t[i] = todo[i + 1]
  OBVIOUS
<1>3. (\A i \in 1..n : h[i] \in Nat) /\ \A i \in 1..m : todo[i] \in Nat
  OBVIOUS
<1> HIDE DEF x, t
<1>4. g \in Seq(Nat) /\ Len(g) = n + 1 /\ g[n + 1] = x /\ \A i \in 1..n : g[i] = h[i]
  BY <1>1
<1> HIDE DEF g
<1>5. /\ known <= Len(hs)
      /\ \A i \in 1..n : h[i] \in 1..known /\ ~hs[h[i]].net
      /\ \A i \in 1..m : todo[i] \in 1..known /\ ~hs[todo[i]].net
      /\ \A i, j \in 1..n : i < j => h[i] < h[j]
      /\ \A i, j \in 1..m : i < j => todo[i] < todo[j]
      /\ \A i \in 1..n, j \in 1..m : h[i] < todo[j]
      /\ \A y \in 1..known : ~hs[y].net =>
             (\E i \in 1..n : h[i] = y) \/ (\E i \in 1..m : todo[i] = y)
  BY DEF BatchHeard
<1> HIDE DEF n, m
<1>6. /\ \A i \in 1..(n + 1) : i = n + 1 \/ i \in 1..n
      /\ n + 1 \in 1..(n + 1) /\ \A i \in 1..n : i \in 1..(n + 1) /\ i < n + 1 /\ ~(n + 1 < i)
      /\ ~(n + 1 < n + 1)
  BY <1>1
<1>7. /\ \A i \in 1..(m - 1) : i + 1 \in 1..m /\ 1 < i + 1
      /\ \A i, j \in 1..(m - 1) : i < j => i + 1 < j + 1
      /\ \A i \in 1..m : i = 1 \/ (i - 1 \in 1..(m - 1) /\ (i - 1) + 1 = i)
  BY <1>1
<1>8. \A i \in 1..(n + 1) : g[i] \in 1..known /\ ~hs[g[i]].net
  BY <1>1, <1>4, <1>5, <1>6
<1>9. \A i \in 1..(m - 1) : t[i] \in 1..known /\ ~hs[t[i]].net
  BY <1>2, <1>5, <1>7
<1>10. \A i, j \in 1..(n + 1) : i < j => g[i] < g[j]
  <2> SUFFICES ASSUME NEW i \in 1..(n + 1), NEW j \in 1..(n + 1), i < j PROVE g[i] < g[j]
    OBVIOUS
  <2>1. i \in 1..n
    BY <1>6
  <2>2. CASE j = n + 1
    BY <1>1, <1>4, <1>5, <2>1, <2>2
  <2>3. CASE j \in 1..n
    BY <1>4, <1>5, <2>1, <2>3
  <2> QED BY <1>6, <2>2, <2>3
<1>11. \A i, j \in 1..(m - 1) : i < j => t[i] < t[j]
  BY <1>2, <1>5, <1>7
<1>12. \A i \in 1..(n + 1), j \in 1..(m - 1) : g[i] < t[j]
  <2> SUFFICES ASSUME NEW i \in 1..(n + 1), NEW j \in 1..(m - 1) PROVE g[i] < t[j]
    OBVIOUS
  <2>1. j + 1 \in 1..m /\ 1 < j + 1 /\ t[j] = todo[j + 1]
    BY <1>2, <1>7
  <2>2. CASE i = n + 1
    BY <1>1, <1>4, <1>5, <2>1, <2>2
  <2>3. CASE i \in 1..n
    BY <1>4, <1>5, <2>1, <2>3
  <2> QED BY <1>6, <2>2, <2>3
<1>13. ASSUME NEW y \in 1..known, ~hs[y].net
       PROVE  (\E i \in 1..(n + 1) : g[i] = y) \/ (\E i \in 1..(m - 1) : t[i] = y)
  <2>1. CASE \E i \in 1..n : h[i] = y
    BY <1>4, <1>6, <2>1
  <2>2. CASE \E i \in 1..m : todo[i] = y
    <3>1. PICK i \in 1..m : todo[i] = y
      BY <2>2
    <3>2. CASE i = 1
      BY <1>1, <1>4, <1>6, <3>1, <3>2
    <3>3. CASE i # 1
      <4>1. i - 1 \in 1..(m - 1) /\ t[i - 1] = todo[(i - 1) + 1] /\ (i - 1) + 1 = i
        BY <1>2, <1>7, <3>3
      <4> QED BY <3>1, <4>1
    <3> QED BY <3>2, <3>3
  <2> QED BY <1>5, <1>13, <2>1, <2>2
<1>14. Len(g) = n + 1 /\ Len(t) = m - 1
  BY <1>2, <1>4
<1>15. BatchHeard(g, known, t, hs)
  BY <1>5, <1>8, <1>9, <1>10, <1>11, <1>12, <1>13, <1>14 DEF BatchHeard
<1> QED BY <1>15 DEF g, t, x

LEMMA RunHandlerKeeps == ASSUME BusInv, run_handler PROVE BusInv'
<1> DEFINE m == Len(batches)
           h == heard[m]
           k == batches[m].known
           t == batches[m].todo
           g == Append(h, Head(t))
           new == [known |-> k, todo |-> Tail(t)]
<1>1. batches \in Seq(Batch) /\ heard \in Seq(Seq(Nat)) /\ Len(heard) = m /\ batches # <<>> /\ handlers \in Seq(HandlerEntry)
  BY DEF BusInv, run_handler
<1>2. m \in Nat /\ m >= 1 /\ m \in 1..m /\ Last(batches) = batches[m] /\ batches[m] \in Batch
  BY <1>1, FrontIs
<1>3. heard # <<>>
  BY <1>1, <1>2
<1>4. Last(heard) = h /\ h \in Seq(Nat)
  <2>1. Last(heard) = heard[Len(heard)] /\ Last(heard) \in Seq(Nat)
    BY <1>1, <1>3, FrontIs
  <2> QED BY <1>1, <2>1
<1>5. /\ t # <<>> /\ heard' = Append(Front(heard), g) /\ batches' = Append(Front(batches), new)
      /\ UNCHANGED <<handlers, outgoing, delivered>>
  BY <1>2, <1>4 DEF run_handler
<1>6. k \in Nat /\ t \in Seq(Nat)
  BY <1>2 DEF Batch
<1>7. BatchHeard(h, k, t, handlers)
  BY <1>2 DEF BusInv
<1> HIDE DEF h, k, t, m
<1>8. BatchHeard(g, k, Tail(t), handlers)
  BY <1>4, <1>5, <1>6, <1>7, HeardNext
<1>9. g \in Seq(Nat) /\ Tail(t) \in Seq(Nat)
  BY <1>4, <1>5, <1>6
<1>10. new \in Batch /\ new.known = k /\ new.todo = Tail(t)
  BY <1>6, <1>9 DEF Batch
<1> HIDE DEF g, new
<1>11. /\ heard' \in Seq(Seq(Nat)) /\ Len(heard') = m /\ heard'[m] = g
       /\ \A i \in 1..m : i # m => heard'[i] = heard[i]
  <2>1. LET r == Append(Front(heard), g)
        IN  /\ r \in Seq(Seq(Nat)) /\ Len(r) = Len(heard) /\ r[Len(heard)] = g
            /\ \A i \in 1..Len(heard) : i # Len(heard) => r[i] = heard[i]
    BY <1>1, <1>3, <1>9, ReplaceLast
  <2> QED BY <1>1, <1>5, <2>1
<1>12. /\ batches' \in Seq(Batch) /\ Len(batches') = m /\ batches'[m] = new
       /\ \A i \in 1..m : i # m => batches'[i] = batches[i]
  <2>1. LET r == Append(Front(batches), new)
        IN  /\ r \in Seq(Batch) /\ Len(r) = Len(batches) /\ r[Len(batches)] = new
            /\ \A i \in 1..Len(batches) : i # Len(batches) => r[i] = batches[i]
    BY <1>1, <1>10, ReplaceLast
  <2> QED BY <1>5, <2>1 DEF m
<1>13. ASSUME NEW b \in 1..m PROVE BatchHeard(heard'[b], batches'[b].known, batches'[b].todo, handlers)
  <2>1. CASE b = m
    BY <1>8, <1>10, <1>11, <1>12, <2>1
  <2>2. CASE b # m
    <3>1. BatchHeard(heard[b], batches[b].known, batches[b].todo, handlers)
      BY DEF BusInv, m
    <3> QED BY <1>11, <1>12, <2>2, <3>1
  <2> QED BY <2>1, <2>2
<1>14. \A b \in 1..Len(batches') : BatchHeard(heard'[b], batches'[b].known, batches'[b].todo, handlers)
  BY <1>12, <1>13
<1>15. WireFits(delivered, outgoing)
  BY DEF BusInv
<1> QED BY <1>1, <1>5, <1>11, <1>12, <1>14, <1>15 DEF BusInv

LEMMA BatchEndsKeeps == ASSUME BusInv, batch_ends PROVE BusInv'
<1> DEFINE m == Len(batches)
<1>1. batches \in Seq(Batch) /\ heard \in Seq(Seq(Nat)) /\ Len(heard) = m /\ batches # <<>> /\ handlers \in Seq(HandlerEntry)
  BY DEF BusInv, batch_ends
<1>2. /\ m \in Nat /\ m >= 1 /\ Front(batches) \in Seq(Batch) /\ Len(Front(batches)) = m - 1
      /\ \A i \in 1..(m - 1) : Front(batches)[i] = batches[i]
  BY <1>1, FrontIs
<1>3. heard # <<>>
  BY <1>1, <1>2
<1>4. /\ Front(heard) \in Seq(Seq(Nat)) /\ Len(Front(heard)) = m - 1
      /\ \A i \in 1..(m - 1) : Front(heard)[i] = heard[i]
  BY <1>1, <1>3, FrontIs
<1>5. batches' = Front(batches) /\ heard' = Front(heard) /\ UNCHANGED <<handlers, outgoing, delivered>>
  BY DEF batch_ends
<1>6. \A b \in 1..m : BatchHeard(heard[b], batches[b].known, batches[b].todo, handlers)
  BY DEF BusInv
<1> HIDE DEF m
<1>7. \A i \in 1..(m - 1) : i \in 1..m
  BY <1>2
<1>8. \A b \in 1..(m - 1) : BatchHeard(heard'[b], batches'[b].known, batches'[b].todo, handlers)
  BY <1>2, <1>4, <1>5, <1>6, <1>7
<1>9. \A b \in 1..Len(batches') : BatchHeard(heard'[b], batches'[b].known, batches'[b].todo, handlers)
  BY <1>2, <1>5, <1>8
<1>10. WireFits(delivered, outgoing)
  BY DEF BusInv
<1> QED BY <1>1, <1>2, <1>4, <1>5, <1>9, <1>10 DEF BusInv

LEMMA TriggerKeeps == ASSUME BusInv, trigger_event PROVE BusInv'
<1> DEFINE k == Len(delivered)
           q == Len(outgoing)
           x == q + k + 1
<1>1. outgoing' = Append(outgoing, x) /\ UNCHANGED <<handlers, batches, heard, delivered>>
  BY DEF trigger_event
<1>2. /\ delivered \in Seq(Nat) /\ outgoing \in Seq(Nat) /\ k \in Nat /\ q \in Nat
      /\ \A i \in 1..q : outgoing[i] = k + i
  BY DEF BusInv, WireFits
<1>3. x \in Nat /\ x = k + (q + 1)
  BY <1>2
<1> HIDE DEF x, k, q
<1>4. outgoing' \in Seq(Nat) /\ Len(outgoing') = q + 1 /\ outgoing'[q + 1] = x /\ \A i \in 1..q : outgoing'[i] = outgoing[i]
  BY <1>1, <1>2, <1>3 DEF q
<1>5. \A i \in 1..(q + 1) : i = q + 1 \/ i \in 1..q
  BY <1>2
<1>6. \A i \in 1..(q + 1) : outgoing'[i] = k + i
  BY <1>2, <1>3, <1>4, <1>5
<1>7. WireFits(delivered, outgoing')
  BY <1>2, <1>4, <1>6 DEF BusInv, WireFits, k
<1> QED BY <1>1, <1>7 DEF BusInv

LEMMA DrainKeeps == ASSUME BusInv, drain_wire PROVE BusInv'
<1> DEFINE k == Len(delivered)
           q == Len(outgoing)
           r == delivered \o outgoing
<1>1. delivered' = r /\ outgoing' = <<>> /\ UNCHANGED <<handlers, batches, heard>>
  BY DEF drain_wire
<1>2. /\ delivered \in Seq(Nat) /\ outgoing \in Seq(Nat) /\ k \in Nat /\ q \in Nat
      /\ \A i \in 1..k : delivered[i] = i
      /\ \A i \in 1..q : outgoing[i] = k + i
  BY DEF BusInv, WireFits
<1>3. r \in Seq(Nat) /\ Len(r) = k + q /\ (\A i \in 1..k : r[i] = delivered[i]) /\ \A i \in 1..q : r[k + i] = outgoing[i]
  BY <1>2, JoinedIs
<1> HIDE DEF r, k, q
<1>4. ASSUME NEW i \in 1..(k + q) PROVE r[i] = i
  <2>1. CASE i <= k
    <3>1. i \in 1..k
      BY <1>2, <2>1
    <3> QED BY <1>2, <1>3, <3>1
  <2>2. CASE ~(i <= k)
    <3>1. i - k \in 1..q /\ k + (i - k) = i
      BY <1>2, <2>2
    <3> QED BY <1>2, <1>3, <3>1
  <2> QED BY <2>1, <2>2
<1>5. WireFits(r, <<>>)
  BY <1>3, <1>4 DEF WireFits
<1> QED BY <1>1, <1>5 DEF BusInv

LEMMA BusStep == BusInv /\ [BusNext]_busVars => BusInv'
<1> SUFFICES ASSUME BusInv, [BusNext]_busVars PROVE BusInv'
  OBVIOUS
<1>1. CASE UNCHANGED busVars
  BY <1>1 DEF BusInv, busVars
<1> QED BY <1>1, OnEventKeeps, FireLocalKeeps, RunHandlerKeeps, BatchEndsKeeps, TriggerKeeps, DrainKeeps DEF BusNext

LEMMA BusInvGives == BusInv => EventsHeardInOrder
<1> SUFFICES ASSUME BusInv PROVE EventsHeardInOrder
  OBVIOUS
<1>1. ASSUME NEW b \in DOMAIN batches
      PROVE  LET h == heard[b]
                 before == {i \in 1..batches[b].known : ~handlers[i].net}
             IN  /\ ToSet(h) \subseteq before
                 /\ \A i, j \in DOMAIN h : i < j => h[i] < h[j]
                 /\ h # <<>> => \A i \in before : i < Last(h) => i \in ToSet(h)
  <2> DEFINE h == heard[b]
             n == Len(h)
             k == batches[b].known
             t == batches[b].todo
             before == {i \in 1..k : ~handlers[i].net}
  <2>1. b \in 1..Len(batches) /\ batches[b] \in Batch /\ h \in Seq(Nat)
    BY DEF BusInv
  <2>2. BatchHeard(h, k, t, handlers)
    BY <2>1 DEF BusInv
  <2>3. k \in Nat /\ t \in Seq(Nat) /\ n \in Nat /\ DOMAIN h = 1..n
    BY <2>1 DEF Batch
  <2> HIDE DEF h, k, t
  <2>4. /\ \A i \in 1..n : h[i] \in 1..k /\ ~handlers[h[i]].net
        /\ \A i, j \in 1..n : i < j => h[i] < h[j]
        /\ \A i \in 1..n, j \in 1..Len(t) : h[i] < t[j]
        /\ \A x \in 1..k : ~handlers[x].net =>
               (\E i \in 1..n : h[i] = x) \/ (\E i \in 1..Len(t) : t[i] = x)
    BY <2>2 DEF BatchHeard
  <2>5. ToSet(h) \subseteq before
    BY <2>3, <2>4 DEF ToSet
  <2>6. \A i, j \in DOMAIN h : i < j => h[i] < h[j]
    BY <2>3, <2>4
  <2>7. ASSUME h # <<>>, NEW i \in before, i < Last(h) PROVE i \in ToSet(h)
    <3>1. n \in 1..n /\ Last(h) = h[n] /\ Last(h) \in Nat
      BY <2>1, <2>7, FrontIs
    <3>2. CASE \E j \in 1..n : h[j] = i
      BY <2>3, <3>2 DEF ToSet
    <3>3. CASE \E j \in 1..Len(t) : t[j] = i
      <4>1. Last(h) < i
        BY <2>4, <3>1, <3>3
      <4>2. i \in Nat
        BY <2>3
      <4> QED BY <2>7, <3>1, <4>1, <4>2
    <3> QED BY <2>4, <3>2, <3>3
  <2>8. h # <<>> => \A i \in before : i < Last(h) => i \in ToSet(h)
    BY <2>7
  <2> QED BY <2>5, <2>6, <2>8 DEF h, k
<1> DEFINE k == Len(delivered)
           q == Len(outgoing)
           r == delivered \o outgoing
<1>2. /\ delivered \in Seq(Nat) /\ outgoing \in Seq(Nat) /\ k \in Nat /\ q \in Nat
      /\ \A i \in 1..k : delivered[i] = i
      /\ \A i \in 1..q : outgoing[i] = k + i
  BY DEF BusInv, WireFits
<1>3. r \in Seq(Nat) /\ Len(r) = k + q /\ (\A i \in 1..k : r[i] = delivered[i]) /\ \A i \in 1..q : r[k + i] = outgoing[i]
  BY <1>2, JoinedIs
<1>4. delivered \o outgoing = [i \in 1..(k + q) |-> i]
  <2> HIDE DEF r, k, q
  <2>1. ASSUME NEW i \in 1..(k + q) PROVE r[i] = i
    <3>1. CASE i <= k
      <4>1. i \in 1..k
        BY <1>2, <3>1
      <4> QED BY <1>2, <1>3, <4>1
    <3>2. CASE ~(i <= k)
      <4>1. i - k \in 1..q /\ k + (i - k) = i
        BY <1>2, <3>2
      <4> QED BY <1>2, <1>3, <4>1
    <3> QED BY <3>1, <3>2
  <2>2. r \in [1..(k + q) -> Nat]
    BY <1>3
  <2>3. r = [i \in 1..(k + q) |-> r[i]]
    BY <2>2
  <2>4. [i \in 1..(k + q) |-> r[i]] = [i \in 1..(k + q) |-> i]
    BY <2>1
  <2>5. r = [i \in 1..(k + q) |-> i]
    BY <2>3, <2>4
  <2> QED BY <2>5 DEF r
<1> QED BY <1>1, <1>4 DEF EventsHeardInOrder

-----------------------------------------------------------------------------
(* Every part of the script hosts on its own: they share nothing. *)
ScriptsParts ==
    /\ JsInit /\ [][JsNext]_jsVars
    /\ BusInit /\ [][BusNext]_busVars
    /\ ResolveInit /\ [][ResolveNext]_resolveVars
    /\ InstallInit /\ [][InstallNext]_installVars
    /\ ExtensionInit /\ [][ExtensionNext]_extensionVars
    /\ LoadInit /\ [][LoadNext]_loadVars
    /\ TickInit /\ [][advance_ticks]_tickVars
    /\ ImageInit /\ [][ImageNext]_imageVars
    /\ AnalysisInit /\ [][AnalysisNext]_analysisVars

(* Whatever the timers, handlers, packages, grants and assemblies: a       *)
(* timeout runs at most once and nothing early, a local event is heard by  *)
(* the handlers it found, in order, and the wire keeps the order of events *)
(* (ald-script-js); require() gives the nearest module and an install plan *)
(* fits every range, and a host that allows more refuses no more           *)
(* (ald-script-node); an extension is authorised as it was signed, library *)
(* and capabilities, and what is loaded stays within the policy it was     *)
(* authorised under (ald-native-extension); assemblies load after what     *)
(* they refer to and on trusted, recent enough references only, each tick  *)
(* boundary fires once, the tables of an image lie one after another in    *)
(* the file with columns that fit, and an accepted assembly runs on this   *)
(* host only (ald-script-dotnet).                                          *)
THEOREM ScriptsAlwaysSound == ScriptsParts => []ScriptsSound
<1>1. JsInit /\ [][JsNext]_jsVars => []JsInv
  BY JsStart, JsStep, PTL
<1>2. BusInit /\ [][BusNext]_busVars => []BusInv
  BY BusStart, BusStep, PTL
<1>3. ResolveInit /\ [][ResolveNext]_resolveVars => []ResolveInv
  BY ResolveStart, ResolveStep, PTL
<1>4. ExtensionInit /\ [][ExtensionNext]_extensionVars => []ExtensionInv
  BY ExtensionStart, ExtensionStep, PTL
<1>5. LoadInit /\ [][LoadNext]_loadVars => [](LoadInv /\ VettedInv)
  BY LoadStart, LoadStep, VettedStart, VettedStep, PTL
<1>6. TickInit /\ [][advance_ticks]_tickVars => []TicksInv
  BY TicksStart, TicksStep, PTL
<1>7. ImageInit /\ [][ImageNext]_imageVars => []ImageInv
  BY ImageStart, ImageStep, PTL
<1>8. AnalysisInit /\ [][AnalysisNext]_analysisVars => []AnalysisInv
  BY AnalysisStart, AnalysisStep, PTL
<1>9. JsInv /\ BusInv /\ ResolveInv /\ ExtensionInv /\ LoadInv /\ VettedInv /\ TicksInv /\ ImageInv /\ AnalysisInv => ScriptsSound
  BY JsInvGives, BusInvGives, ResolveInvGives, PlanFits, PoliciesAre, ExtensionInvGives, LoadInvGives, TicksInvGives,
     ImageInvGives, AnalysisInvGives DEF ScriptsSound
<1> QED BY <1>1, <1>2, <1>3, <1>4, <1>5, <1>6, <1>7, <1>8, <1>9, PTL DEF ScriptsParts

=============================================================================
