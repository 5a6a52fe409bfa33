--------------------------- MODULE NetworkProofs ----------------------------
(***************************************************************************)
(* Proofs about the network layer and what it brings a player, for any     *)
(* ids, addresses, components and sizes: the session table never dangles,  *)
(* replication forgets no write, the receive window tells replays from     *)
(* packets never seen, and what reaches a player reaches the right one,    *)
(* once.                                                                   *)
(***************************************************************************)
EXTENDS Sessions, Replication, Reliability, Presence, FiniteSetTheorems, TLAPS

-----------------------------------------------------------------------------
(* The session table.  NoDangling is inductive together with the types:    *)
(* removing a session could only leave an address pointing at it if the    *)
(* address were not the session's own, and NoDangling itself says that it  *)
(* is.                                                                     *)

(* What dropping sessions leaves of the address table: entries of the      *)
(* addresses of dead sessions go, the others stay. *)
LEMMA ClearedEntries ==
    ASSUME NEW dead, NEW a \in Addrs, Cleared(dead)[a] # NoId
    PROVE  /\ Cleared(dead)[a] = by_addr[a]
           /\ \A s \in dead : s.addr # a
BY DEF Cleared

LEMMA ClearedType ==
    ASSUME NEW dead, SessionsTypeOK
    PROVE  Cleared(dead) \in [Addrs -> SessionIds \cup {NoId}]
BY DEF Cleared, SessionsTypeOK

(* Dropping any set of live sessions keeps the invariant. *)
LEMMA DropKeepsInv ==
    ASSUME SessionsInv, NEW dead, dead \subseteq by_id,
           by_id' = by_id \ dead, by_addr' = Cleared(dead), UNCHANGED idle
    PROVE  SessionsInv'
<1>1. SessionsTypeOK'
  BY ClearedType DEF SessionsInv, SessionsTypeOK
<1>2. IdsUnique'
  BY DEF SessionsInv, IdsUnique
<1>3. NoDangling'
  <2> SUFFICES ASSUME NEW a \in Addrs, by_addr'[a] # NoId
               PROVE  [id |-> by_addr'[a], addr |-> a] \in by_id'
    BY DEF NoDangling
  <2>1. by_addr'[a] = by_addr[a] /\ \A s \in dead : s.addr # a
    BY ClearedEntries
  <2>2. [id |-> by_addr[a], addr |-> a] \in by_id
    BY <2>1 DEF SessionsInv, NoDangling
  <2>3. [id |-> by_addr[a], addr |-> a] \notin dead
    BY <2>1
  <2> QED BY <2>1, <2>2, <2>3
<1> QED BY <1>1, <1>2, <1>3 DEF SessionsInv

(* Types, unique ids and no dangling address hold in every reachable state *)
(* of the session table, over create, remove, touch and expire_idle. *)
THEOREM SessionsInvariant == SessionsSpec => []SessionsInv
<1>1. SessionsInit => SessionsInv
  BY DEF SessionsInit, SessionsInv, SessionsTypeOK, IdsUnique, NoDangling
<1>2. SessionsInv /\ [SessionsNext]_sessionVars => SessionsInv'
  <2> SUFFICES ASSUME SessionsInv, [SessionsNext]_sessionVars
               PROVE  SessionsInv'
    OBVIOUS
  <2>1. ASSUME NEW i \in SessionIds, NEW a \in Addrs, create(i, a)
        PROVE  SessionsInv'
    <3>1. SessionsTypeOK'
      BY <2>1 DEF create, SessionsInv, SessionsTypeOK
    <3>2. IdsUnique'
      BY <2>1 DEF create, SessionsInv, IdsUnique, Live
    <3>3. NoDangling'
      <4> SUFFICES ASSUME NEW b \in Addrs, by_addr'[b] # NoId
                   PROVE  [id |-> by_addr'[b], addr |-> b] \in by_id'
        BY DEF NoDangling
      <4>1. CASE b = a
        BY <2>1, <4>1 DEF create, SessionsInv, SessionsTypeOK
      <4>2. CASE b # a
        BY <2>1, <4>2 DEF create, SessionsInv, SessionsTypeOK, NoDangling
      <4> QED BY <4>1, <4>2
    <3> QED BY <3>1, <3>2, <3>3 DEF SessionsInv
  <2>2. ASSUME NEW s \in by_id, remove(s)
        PROVE  SessionsInv'
    <3>1. {s} \subseteq by_id /\ by_id' = by_id \ {s}
      BY <2>2 DEF remove
    <3> QED BY <2>2, <3>1, DropKeepsInv DEF remove
  <2>3. ASSUME NEW s \in by_id, fall_idle(s) \/ touch(s)
        PROVE  SessionsInv'
    BY <2>3 DEF fall_idle, touch, SessionsInv, SessionsTypeOK, IdsUnique, NoDangling
  <2>4. CASE expire_idle
    <3> DEFINE dead == {s \in by_id : s.id \in idle}
    <3>1. dead \subseteq by_id
      OBVIOUS
    <3> QED BY <2>4, <3>1, DropKeepsInv DEF expire_idle
  <2>5. CASE UNCHANGED sessionVars
    BY <2>5 DEF sessionVars, SessionsInv, SessionsTypeOK, IdsUnique, NoDangling
  <2> QED BY <2>1, <2>2, <2>3, <2>4, <2>5 DEF SessionsNext
<1> QED BY <1>1, <1>2, PTL DEF SessionsSpec

(* get_by_addr never finds a session that is gone or belongs to another    *)
(* address. *)
THEOREM AddressesNeverDangle == SessionsSpec => []NoDangling
<1>1. SessionsInv => NoDangling
  BY DEF SessionsInv
<1> QED BY <1>1, SessionsInvariant, PTL

-----------------------------------------------------------------------------
(* Replication.  A packet may carry an old value to a client that has the  *)
(* newest, so the invariant orders what is under way: unless a component   *)
(* is gone or queued, the last packet that mentions it carries its newest  *)
(* value, and when no packet mentions it the client has that value.        *)

IsQueued(c) == \E k \in DOMAIN deltas : deltas[k].component = c

Mentions(packet, c) == \E d \in packet : d.component = c

QueueCurrent ==
    /\ \A j, k \in DOMAIN deltas : deltas[j].component = deltas[k].component => j = k
    /\ \A k \in DOMAIN deltas : deltas[k].data = latest[deltas[k].component]

PacketsClear ==
    \A k \in DOMAIN wire : \A d, e \in wire[k] : d.component = e.component => d = e

LastOnWire(c) ==
    \E k \in DOMAIN wire : /\ [component |-> c, data |-> latest[c]] \in wire[k]
                           /\ \A j \in DOMAIN wire : j > k => ~Mentions(wire[j], c)

AtClient(c) ==
    /\ client[c] = latest[c]
    /\ \A j \in DOMAIN wire : ~Mentions(wire[j], c)

Current(c) == c \in gone \/ IsQueued(c) \/ LastOnWire(c) \/ AtClient(c)

ReplicationInv ==
    /\ ReplicationTypeOK
    /\ QueueCurrent
    /\ PacketsClear
    /\ \A c \in Components : Current(c)

(* What SelectInSeq finds: the one place of a component that is queued. *)
LEMMA QueuedPlace ==
    ASSUME ReplicationTypeOK, QueueCurrent, NEW c \in Components
    PROVE  /\ ~IsQueued(c) => Queued(c) = 0
           /\ \A k \in DOMAIN deltas : deltas[k].component = c => Queued(c) = k
<1>1. DOMAIN deltas = 1 .. Len(deltas) /\ Len(deltas) \in Nat
  BY DEF ReplicationTypeOK
<1> DEFINE I == {i \in 1 .. Len(deltas) : deltas[i].component = c}
<1>2. Queued(c) = IF I # {} THEN Min(I) ELSE 0
  BY DEF Queued, SelectInSeq
<1>3. ~IsQueued(c) => I = {}
  BY <1>1 DEF IsQueued
<1>4. ASSUME NEW k \in DOMAIN deltas, deltas[k].component = c
      PROVE  Queued(c) = k
  <2>1. I = {k} /\ k \in Nat
    BY <1>1, <1>4 DEF QueueCurrent
  <2> HIDE DEF I
  <2>2. Min(I) = k
    BY <2>1 DEF Min
  <2> QED BY <1>2, <2>1, <2>2
<1> QED BY <1>2, <1>3, <1>4

(* record leaves the component queued with its newest value, and every     *)
(* other one as it was. *)
LEMMA RecordedQueue ==
    ASSUME ReplicationInv, NEW c \in Components, NEW d \in Delta, d.component = c,
           deltas' = Recorded(d), latest' = [latest EXCEPT ![c] = d.data]
    PROVE  /\ deltas' \in Seq(Delta)
           /\ QueueCurrent'
           /\ IsQueued(c)'
           /\ \A e \in Components \ {c} : IsQueued(e) => IsQueued(e)'
<1>0. deltas \in Seq(Delta) /\ QueueCurrent /\ ReplicationTypeOK /\ latest \in [Components -> 0 .. MaxWrites]
  BY DEF ReplicationInv, ReplicationTypeOK
<1>1. /\ deltas \in Seq(Delta) /\ QueueCurrent /\ ReplicationTypeOK
      /\ DOMAIN deltas = 1 .. Len(deltas) /\ Len(deltas) \in Nat
      /\ latest \in [Components -> 0 .. MaxWrites]
      /\ \A k \in DOMAIN deltas : deltas[k] \in Delta
  BY <1>0
<1>c. \A e \in Delta : e.component \in Components
  BY DEF Delta
<1>2. CASE ~IsQueued(c)
  <2>1. deltas' = Append(deltas, d)
    BY <1>1, <1>2, QueuedPlace DEF Recorded
  <2>2. /\ deltas' \in Seq(Delta) /\ DOMAIN deltas' = 1 .. (Len(deltas) + 1)
        /\ deltas'[Len(deltas) + 1] = d
        /\ \A k \in DOMAIN deltas : deltas'[k] = deltas[k]
    BY <1>1, <2>1
  <2>3. \A k \in DOMAIN deltas' : k = Len(deltas) + 1 \/ (k \in DOMAIN deltas /\ deltas'[k].component # c)
    BY <1>1, <1>2, <2>2 DEF IsQueued
  <2>4. QueueCurrent'
    <3>1. \A j, k \in DOMAIN deltas' : deltas'[j].component = deltas'[k].component => j = k
      BY <1>0, <2>2, <2>3 DEF QueueCurrent
    <3>2. \A k \in DOMAIN deltas' : deltas'[k].data = latest'[deltas'[k].component]
      BY <1>0, <1>1, <1>c, <2>2, <2>3 DEF QueueCurrent
    <3> QED BY <3>1, <3>2 DEF QueueCurrent
  <2>5. IsQueued(c)'
    BY <1>1, <2>2 DEF IsQueued
  <2>6. \A k \in DOMAIN deltas : k \in DOMAIN deltas'
    BY <1>1, <2>2
  <2> QED BY <2>2, <2>4, <2>5, <2>6 DEF IsQueued
<1>3. CASE IsQueued(c)
  <2>1. PICK k \in DOMAIN deltas : deltas[k].component = c
    BY <1>3 DEF IsQueued
  <2>2. deltas' = [deltas EXCEPT ![k] = d]
    <3>1. Queued(d.component) = k /\ k # 0
      BY <1>1, <2>1, QueuedPlace
    <3> QED BY <3>1 DEF Recorded, ReplaceAt
  <2>3. /\ deltas' \in Seq(Delta) /\ DOMAIN deltas' = DOMAIN deltas
        /\ deltas'[k] = d
        /\ \A j \in DOMAIN deltas \ {k} : deltas'[j] = deltas[j]
    BY <1>1, <2>1, <2>2
  <2>4. \A j \in DOMAIN deltas : deltas'[j].component = deltas[j].component
    BY <2>1, <2>3
  <2>5. \A j \in DOMAIN deltas \ {k} : deltas[j].component # c
    BY <1>1, <2>1 DEF QueueCurrent
  <2>6. QueueCurrent'
    <3>1. \A i, j \in DOMAIN deltas' : deltas'[i].component = deltas'[j].component => i = j
      BY <1>0, <2>3, <2>4 DEF QueueCurrent
    <3>2. \A j \in DOMAIN deltas' : deltas'[j].data = latest'[deltas'[j].component]
      BY <1>0, <1>1, <1>c, <2>3, <2>5 DEF QueueCurrent
    <3> QED BY <3>1, <3>2 DEF QueueCurrent
  <2> QED BY <2>1, <2>3, <2>4, <2>6 DEF IsQueued
<1> QED BY <1>2, <1>3

(* A packet that is sent: each component it mentions it brings up to date, *)
(* each other one was not queued, or is gone now. *)
LEMMA SentKeeps ==
    ASSUME ReplicationInv, NEW P \in SUBSET Delta, wire' = Append(wire, P), UNCHANGED <<latest, client>>,
           gone \subseteq gone', \A d, e \in P : d.component = e.component => d = e,
           \A c \in Components : \/ c \in gone'
                                 \/ [component |-> c, data |-> latest[c]] \in P
                                 \/ ~IsQueued(c) /\ ~Mentions(P, c)
    PROVE  wire' \in Seq(SUBSET Delta) /\ PacketsClear' /\ \A c \in Components : Current(c)'
<1>1. wire \in Seq(SUBSET Delta)
  BY DEF ReplicationInv, ReplicationTypeOK
<1>2. /\ wire' \in Seq(SUBSET Delta) /\ Len(wire) \in Nat
      /\ DOMAIN wire = 1 .. Len(wire) /\ DOMAIN wire' = 1 .. (Len(wire) + 1)
      /\ wire'[Len(wire) + 1] = P
      /\ \A k \in DOMAIN wire : k \in DOMAIN wire' /\ wire'[k] = wire[k]
  BY <1>1
<1>3. \A k \in DOMAIN wire' : k = Len(wire) + 1 \/ k \in DOMAIN wire
  BY <1>2
<1>4. PacketsClear'
  BY <1>2, <1>3 DEF ReplicationInv, PacketsClear
<1>5. ASSUME NEW c \in Components
      PROVE  Current(c)'
  <2>1. CASE c \in gone'
    BY <2>1 DEF Current
  <2>2. CASE [component |-> c, data |-> latest[c]] \in P
    <3>1. \A j \in DOMAIN wire' : ~(j > Len(wire) + 1)
      BY <1>2
    <3>2. LastOnWire(c)'
      BY <1>2, <2>2, <3>1 DEF LastOnWire
    <3> QED BY <3>2 DEF Current
  <2>3. CASE ~IsQueued(c) /\ ~Mentions(P, c) /\ c \notin gone'
    <3>1. LastOnWire(c) \/ AtClient(c)
      BY <2>3 DEF ReplicationInv, Current
    <3>2. CASE LastOnWire(c)
      <4>1. PICK k \in DOMAIN wire : /\ [component |-> c, data |-> latest[c]] \in wire[k]
                                     /\ \A j \in DOMAIN wire : j > k => ~Mentions(wire[j], c)
        BY <3>2 DEF LastOnWire
      <4>2. \A j \in DOMAIN wire' : j > k => ~Mentions(wire'[j], c)
        BY <1>2, <1>3, <2>3, <4>1 DEF Mentions
      <4>3. LastOnWire(c)'
        BY <1>2, <4>1, <4>2 DEF LastOnWire, Mentions
      <4> QED BY <4>3 DEF Current
    <3>3. CASE AtClient(c)
      <4>1. \A j \in DOMAIN wire' : ~Mentions(wire'[j], c)
        BY <1>2, <1>3, <2>3, <3>3 DEF AtClient, Mentions
      <4>2. AtClient(c)'
        BY <3>3, <4>1 DEF AtClient, Mentions
      <4> QED BY <4>2 DEF Current
    <3> QED BY <3>1, <3>2, <3>3
  <2> QED BY <2>1, <2>2, <2>3
<1> QED BY <1>2, <1>4, <1>5

(* A packet that leaves the channel, into the client or nowhere. *)
LEMMA LeavesKeeps ==
    ASSUME ReplicationInv, wire # <<>>, wire' = Tail(wire), UNCHANGED <<latest, deltas>>, gone \subseteq gone',
           \A c \in Components :
               \/ c \in gone'
               \/ /\ ~Mentions(Head(wire), c) => client'[c] = client[c]
                  /\ [component |-> c, data |-> latest[c]] \in Head(wire) => client'[c] = latest[c]
    PROVE  wire' \in Seq(SUBSET Delta) /\ PacketsClear' /\ \A c \in Components : Current(c)'
<1>1. wire \in Seq(SUBSET Delta)
  BY DEF ReplicationInv, ReplicationTypeOK
<1>2. /\ wire' \in Seq(SUBSET Delta) /\ Len(wire) \in Nat /\ Len(wire) > 0
      /\ DOMAIN wire = 1 .. Len(wire) /\ DOMAIN wire' = 1 .. (Len(wire) - 1)
      /\ Head(wire) = wire[1]
      /\ \A k \in DOMAIN wire' : k + 1 \in DOMAIN wire /\ wire'[k] = wire[k + 1]
  BY <1>1
<1>3. PacketsClear'
  BY <1>2 DEF ReplicationInv, PacketsClear
<1>4. ASSUME NEW c \in Components
      PROVE  Current(c)'
  <2>1. CASE c \in gone' \/ IsQueued(c)
    BY <2>1 DEF Current, IsQueued
  <2>2. CASE c \notin gone' /\ LastOnWire(c)
    <3>1. PICK k \in DOMAIN wire : /\ [component |-> c, data |-> latest[c]] \in wire[k]
                                   /\ \A j \in DOMAIN wire : j > k => ~Mentions(wire[j], c)
      BY <2>2 DEF LastOnWire
    <3>2. CASE k = 1
      <4>1. \A j \in DOMAIN wire' : ~Mentions(wire'[j], c)
        <5>1. \A j \in DOMAIN wire' : j + 1 > 1
          BY <1>2
        <5> QED BY <1>2, <3>1, <3>2, <5>1
      <4>2. client'[c] = latest[c]
        BY <1>2, <2>2, <3>1, <3>2
      <4>3. AtClient(c)'
        BY <4>1, <4>2 DEF AtClient, Mentions
      <4> QED BY <4>3 DEF Current
    <3>3. CASE k # 1
      <4>1. k - 1 \in DOMAIN wire' /\ wire'[k - 1] = wire[k]
        BY <1>2, <3>3
      <4>2. \A j \in DOMAIN wire' : j > k - 1 => ~Mentions(wire'[j], c)
        <5>1. \A j \in DOMAIN wire' : j > k - 1 => j + 1 > k
          BY <1>2, <3>1
        <5> QED BY <1>2, <3>1, <5>1
      <4>3. LastOnWire(c)'
        BY <3>1, <4>1, <4>2 DEF LastOnWire, Mentions
      <4> QED BY <4>3 DEF Current
    <3> QED BY <3>2, <3>3
  <2>3. CASE c \notin gone' /\ AtClient(c)
    <3>1. \A j \in DOMAIN wire' : ~Mentions(wire'[j], c)
      BY <1>2, <2>3 DEF AtClient
    <3>2. client'[c] = latest[c]
      <4>1. 1 \in DOMAIN wire /\ ~Mentions(Head(wire), c)
        BY <1>2, <2>3 DEF AtClient
      <4> QED BY <2>3, <4>1 DEF AtClient
    <3>3. AtClient(c)'
      BY <3>1, <3>2 DEF AtClient, Mentions
    <3> QED BY <3>3 DEF Current
  <2> QED BY <2>1, <2>2, <2>3 DEF ReplicationInv, Current
<1> QED BY <1>2, <1>3, <1>4

LEMMA RecordKeeps ==
    ASSUME ReplicationInv, NEW c \in Components, record(c)
    PROVE  ReplicationInv'
<1>1. latest \in [Components -> 0 .. MaxWrites] /\ latest[c] + 1 \in 1 .. MaxWrites
  BY ReplicationAssumption DEF ReplicationInv, ReplicationTypeOK, record
<1> DEFINE d == [component |-> c, data |-> latest[c] + 1]
<1>2. d \in Delta /\ d.component = c /\ d.data = latest[c] + 1
  BY <1>1 DEF Delta
<1>3. deltas' = Recorded(d) /\ latest' = [latest EXCEPT ![c] = d.data]
  BY <1>2 DEF record
<1> HIDE DEF d
<1>4. /\ deltas' \in Seq(Delta) /\ QueueCurrent' /\ IsQueued(c)'
      /\ \A e \in Components \ {c} : IsQueued(e) => IsQueued(e)'
  BY <1>2, <1>3, RecordedQueue
<1>5. ReplicationTypeOK'
  BY <1>1, <1>2, <1>3, <1>4 DEF ReplicationInv, ReplicationTypeOK, record
<1>6. PacketsClear'
  BY DEF ReplicationInv, PacketsClear, record
<1>7. ASSUME NEW e \in Components
      PROVE  Current(e)'
  <2>1. CASE e = c
    BY <1>4, <2>1 DEF Current, IsQueued
  <2>2. CASE e # c
    <3>1. latest'[e] = latest[e] /\ (e \in gone => e \in gone') /\ UNCHANGED <<wire, client>>
      BY <1>1, <2>2 DEF record
    <3> QED BY <1>4, <2>2, <3>1 DEF ReplicationInv, Current, LastOnWire, AtClient, Mentions
  <2> QED BY <2>1, <2>2
<1> QED BY <1>4, <1>5, <1>6, <1>7 DEF ReplicationInv

(* An empty queue. *)
LEMMA EmptyQueue ==
    ASSUME deltas' = <<>>
    PROVE  deltas' \in Seq(Delta) /\ QueueCurrent'
  BY DEF QueueCurrent

(* What the queued deltas say, as a set and collapsed into the baseline. *)
LEMMA QueueContents ==
    ASSUME ReplicationInv
    PROVE  /\ ToSet(deltas) \subseteq Delta
           /\ \A d, e \in ToSet(deltas) : d.component = e.component => d = e
           /\ \A c \in Components : IsQueued(c) => [component |-> c, data |-> latest[c]] \in ToSet(deltas)
           /\ \A c \in Components : ~IsQueued(c) => ~Mentions(ToSet(deltas), c) /\ Collapsed[c] = baseline[c]
           /\ \A c \in Components : IsQueued(c) => Collapsed[c] = latest[c] /\ latest[c] # 0
           /\ Collapsed \in [Components -> 0 .. MaxWrites]
<1>1. /\ deltas \in Seq(Delta) /\ QueueCurrent /\ ReplicationTypeOK
      /\ baseline \in [Components -> 0 .. MaxWrites]
  BY DEF ReplicationInv, ReplicationTypeOK
<1>2. \A k \in DOMAIN deltas : deltas[k] \in Delta
  BY <1>1
<1>3. \A d \in Delta : /\ d.component \in Components /\ d.data \in 1 .. MaxWrites
                       /\ d = [component |-> d.component, data |-> d.data]
  BY DEF Delta
<1>4. ToSet(deltas) \subseteq Delta /\ \A d, e \in ToSet(deltas) : d.component = e.component => d = e
  BY <1>1, <1>2 DEF ToSet, QueueCurrent
<1>5. ASSUME NEW c \in Components, NEW k \in DOMAIN deltas, deltas[k].component = c
      PROVE  /\ [component |-> c, data |-> latest[c]] \in ToSet(deltas)
             /\ Collapsed[c] = latest[c] /\ latest[c] # 0 /\ latest[c] \in 0 .. MaxWrites
  <2>1. deltas[k].data = latest[c]
    BY <1>1, <1>5 DEF QueueCurrent
  <2>2. deltas[k] = [component |-> c, data |-> latest[c]] /\ latest[c] \in 1 .. MaxWrites
    BY <1>2, <1>3, <1>5, <2>1
  <2>3. Queued(c) = k /\ k # 0
    BY <1>1, <1>5, QueuedPlace
  <2>4. Collapsed[c] = deltas[Queued(c)].data
    BY <2>3 DEF Collapsed
  <2>5. Collapsed[c] = latest[c]
    BY <2>1, <2>3, <2>4
  <2>6. [component |-> c, data |-> latest[c]] \in ToSet(deltas)
    BY <2>2 DEF ToSet
  <2> QED BY <2>2, <2>5, <2>6
<1>6. ASSUME NEW c \in Components, ~IsQueued(c)
      PROVE  ~Mentions(ToSet(deltas), c) /\ Collapsed[c] = baseline[c]
  <2>1. Queued(c) = 0
    BY <1>1, <1>6, QueuedPlace
  <2> QED BY <1>6, <2>1 DEF IsQueued, Mentions, ToSet, Collapsed
<1>7. \A c \in Components : Collapsed[c] \in 0 .. MaxWrites
  BY <1>1, <1>5, <1>6 DEF IsQueued
<1>8. Collapsed \in [Components -> 0 .. MaxWrites]
  BY <1>7 DEF Collapsed
<1> QED BY <1>4, <1>5, <1>6, <1>8 DEF IsQueued

LEMMA FlushSnapshotKeeps ==
    ASSUME ReplicationInv, flush_snapshot
    PROVE  ReplicationInv'
<1> DEFINE P == Fields(Collapsed)
<1>1. Collapsed \in [Components -> 0 .. MaxWrites]
  BY QueueContents
<1>2. P \in SUBSET Delta
  BY <1>1 DEF Fields, Delta
<1>3. \A d, e \in P : d.component = e.component => d = e
  BY DEF Fields
<1>4. \A c \in Components : Collapsed[c] # 0 => [component |-> c, data |-> Collapsed[c]] \in P
  BY DEF Fields
<1>5. \A c \in Components : Collapsed[c] = 0 => ~Mentions(P, c)
  BY DEF Fields, Mentions
<1> HIDE DEF P
<1>6. ASSUME NEW c \in Components
      PROVE  \/ c \in gone'
             \/ [component |-> c, data |-> latest[c]] \in P
             \/ ~IsQueued(c) /\ ~Mentions(P, c)
  <2>1. CASE Collapsed[c] = 0
    BY <1>5, <2>1, QueueContents
  <2>2. CASE Collapsed[c] = latest[c] /\ Collapsed[c] # 0
    BY <1>4, <2>2
  <2>3. CASE Collapsed[c] \notin {0, latest[c]}
    BY <2>3 DEF flush_snapshot, Overtaken
  <2> QED BY <2>1, <2>2, <2>3
<1>7. wire' = Append(wire, P) /\ UNCHANGED <<latest, client>> /\ gone \subseteq gone' /\ deltas' = <<>>
      /\ baseline' = Collapsed
  BY DEF flush_snapshot, P
<1>8. wire' \in Seq(SUBSET Delta) /\ PacketsClear' /\ \A c \in Components : Current(c)'
  BY <1>2, <1>3, <1>6, <1>7, SentKeeps
<1>9. deltas' \in Seq(Delta) /\ QueueCurrent'
  BY <1>7, EmptyQueue
<1> QED BY <1>1, <1>7, <1>8, <1>9 DEF ReplicationInv, ReplicationTypeOK

LEMMA FlushDeltaKeeps ==
    ASSUME ReplicationInv, flush_delta
    PROVE  ReplicationInv'
<1> DEFINE P == ToSet(deltas)
<1>1. /\ P \in SUBSET Delta
      /\ \A d, e \in P : d.component = e.component => d = e
      /\ \A c \in Components : \/ c \in gone'
                               \/ [component |-> c, data |-> latest[c]] \in P
                               \/ ~IsQueued(c) /\ ~Mentions(P, c)
  BY QueueContents
<1>2. wire' = Append(wire, P) /\ UNCHANGED <<latest, client, baseline>> /\ gone \subseteq gone' /\ deltas' = <<>>
  BY DEF flush_delta
<1> HIDE DEF P
<1>3. wire' \in Seq(SUBSET Delta) /\ PacketsClear' /\ \A c \in Components : Current(c)'
  BY <1>1, <1>2, SentKeeps
<1>4. deltas' \in Seq(Delta) /\ QueueCurrent'
  BY <1>2, EmptyQueue
<1> QED BY <1>2, <1>3, <1>4 DEF ReplicationInv, ReplicationTypeOK

LEMMA CapKeeps ==
    ASSUME ReplicationInv, cap
    PROVE  ReplicationInv'
<1> DEFINE m == Len(deltas) - Cap
<1>1. /\ deltas \in Seq(Delta) /\ Len(deltas) \in Nat /\ DOMAIN deltas = 1 .. Len(deltas) /\ Cap \in Nat
      /\ m \in Nat /\ m >= 1 /\ deltas' = SubSeq(deltas, m + 1, Len(deltas)) /\ UNCHANGED <<latest, baseline, wire, client>>
      /\ gone' = gone \cup {deltas[k].component : k \in 1 .. m}
  BY ReplicationAssumption DEF ReplicationInv, ReplicationTypeOK, cap
<1>2. /\ deltas' \in Seq(Delta) /\ DOMAIN deltas' = 1 .. Cap
      /\ \A k \in 1 .. Cap : m + k \in DOMAIN deltas /\ deltas'[k] = deltas[m + k]
  <2> HIDE DEF m
  <2>1. Len(deltas) = m + Cap
    BY <1>1 DEF m
  <2>2. \A k \in 1 .. Cap : m + k \in 1 .. Len(deltas) /\ (m + 1) + k - 1 = m + k
    BY <1>1, <2>1
  <2>3. deltas' = [k \in 1 .. Cap |-> deltas[(m + 1) + k - 1]]
    BY <1>1, <2>1
  <2>4. deltas' = [k \in 1 .. Cap |-> deltas[m + k]]
    BY <2>2, <2>3
  <2>5. \A k \in 1 .. Cap : deltas[m + k] \in Delta
    <3>1. \A i \in 1 .. Len(deltas) : deltas[i] \in Delta
      BY <1>1
    <3> QED BY <2>2, <3>1
  <2>6. Cap \in Nat /\ DOMAIN deltas = 1 .. Len(deltas)
    BY <1>1
  <2>7. deltas' \in [1 .. Cap -> Delta]
    BY <2>4, <2>5
  <2>8. deltas' \in Seq(Delta)
    BY <2>6, <2>7
  <2>9. DOMAIN deltas' = 1 .. Cap /\ \A k \in 1 .. Cap : deltas'[k] = deltas[m + k]
    BY <2>4
  <2> QED BY <2>2, <2>6, <2>8, <2>9
<1>3. QueueCurrent'
  <2>1. \A j, k \in DOMAIN deltas' : deltas'[j].component = deltas'[k].component => m + j = m + k
    BY <1>2 DEF ReplicationInv, QueueCurrent
  <2>2. \A j, k \in DOMAIN deltas' : deltas'[j].component = deltas'[k].component => j = k
    BY SMTT(60), <1>1, <1>2, <2>1
  <2>3. \A k \in DOMAIN deltas' : deltas'[k].data = latest'[deltas'[k].component]
    BY <1>1, <1>2 DEF ReplicationInv, QueueCurrent
  <2> QED BY <2>2, <2>3 DEF QueueCurrent
<1>4. ASSUME NEW c \in Components
      PROVE  Current(c)'
  <2>1. CASE IsQueued(c)
    <3>1. PICK k \in DOMAIN deltas : deltas[k].component = c
      BY <2>1 DEF IsQueued
    <3>2. CASE k <= m
      BY <1>1, <3>1, <3>2 DEF Current
    <3>3. CASE k > m
      <4>1. k - m \in 1 .. Cap /\ m + (k - m) = k
        BY <1>1, <3>3
      <4>2. deltas'[k - m].component = c
        BY <1>2, <3>1, <4>1
      <4> QED BY <1>2, <4>1, <4>2 DEF Current, IsQueued
    <3> QED BY <1>1, <3>2, <3>3
  <2>2. CASE ~IsQueued(c)
    BY <1>1, <2>2 DEF ReplicationInv, Current, LastOnWire, AtClient, Mentions
  <2> QED BY <2>1, <2>2
<1> QED BY <1>1, <1>2, <1>3, <1>4 DEF ReplicationInv, ReplicationTypeOK, PacketsClear

LEMMA DeliverKeeps ==
    ASSUME ReplicationInv, deliver
    PROVE  ReplicationInv'
<1>1. /\ wire \in Seq(SUBSET Delta) /\ wire # <<>> /\ Head(wire) = wire[1] /\ 1 \in DOMAIN wire
      /\ client \in [Components -> 0 .. MaxWrites]
      /\ UNCHANGED <<latest, deltas, baseline, gone>> /\ wire' = Tail(wire)
  BY DEF ReplicationInv, ReplicationTypeOK, deliver
<1>2. \A d \in Head(wire) : d \in Delta /\ d.data \in 0 .. MaxWrites
  BY <1>1 DEF Delta
<1>3. ASSUME NEW c \in Components, NEW d \in Head(wire), d.component = c
      PROVE  client'[c] = d.data
  <2>1. \A e \in Head(wire) : e.component = c => e = d
    BY <1>1, <1>3 DEF ReplicationInv, PacketsClear
  <2>2. (CHOOSE e \in Head(wire) : e.component = c) = d
    BY <1>3, <2>1
  <2> QED BY <1>3, <2>2 DEF deliver
<1>4. \A c \in Components : ~Mentions(Head(wire), c) => client'[c] = client[c]
  BY DEF deliver, Mentions
<1>5. client' \in [Components -> 0 .. MaxWrites]
  <2>1. \A c \in Components : client'[c] \in 0 .. MaxWrites
    BY <1>1, <1>2, <1>3, <1>4 DEF Mentions
  <2> QED BY <2>1 DEF deliver
<1>6. \A c \in Components : [component |-> c, data |-> latest[c]] \in Head(wire) => client'[c] = latest[c]
  BY <1>3
<1>7. wire' \in Seq(SUBSET Delta) /\ PacketsClear' /\ \A c \in Components : Current(c)'
  BY <1>1, <1>4, <1>6, LeavesKeeps
<1> QED BY <1>1, <1>5, <1>7 DEF ReplicationInv, ReplicationTypeOK, QueueCurrent

LEMMA LoseKeeps ==
    ASSUME ReplicationInv, lose
    PROVE  ReplicationInv'
<1>1. /\ wire # <<>> /\ UNCHANGED <<latest, deltas, baseline, client>> /\ wire' = Tail(wire) /\ gone \subseteq gone'
  BY DEF lose
<1>2. \A c \in Components : [component |-> c, data |-> latest[c]] \in Head(wire) => c \in gone'
  BY DEF lose
<1>3. wire' \in Seq(SUBSET Delta) /\ PacketsClear' /\ \A c \in Components : Current(c)'
  BY <1>1, <1>2, LeavesKeeps
<1> QED BY <1>1, <1>3 DEF ReplicationInv, ReplicationTypeOK, QueueCurrent

(* One step per operation of the tracker and of the channel. *)
THEOREM ReplicationInvariant == ReplicationSpec => []ReplicationInv
<1>1. ReplicationInit => ReplicationInv
  <2> SUFFICES ASSUME ReplicationInit PROVE ReplicationInv
    OBVIOUS
  <2>1. ReplicationTypeOK
    BY ReplicationAssumption DEF ReplicationInit, ReplicationTypeOK, Unset
  <2>2. DOMAIN deltas = {} /\ DOMAIN wire = {} /\ client = latest
    BY DEF ReplicationInit
  <2> QED BY <2>1, <2>2 DEF ReplicationInv, QueueCurrent, PacketsClear, Current, AtClient
<1>2. ReplicationInv /\ [ReplicationNext]_replicationVars => ReplicationInv'
  <2> SUFFICES ASSUME ReplicationInv, [ReplicationNext]_replicationVars
               PROVE  ReplicationInv'
    OBVIOUS
  <2>1. CASE UNCHANGED replicationVars
    <3> USE <2>1 DEF replicationVars
    <3>1. ReplicationTypeOK' /\ QueueCurrent' /\ PacketsClear'
      BY DEF ReplicationInv, ReplicationTypeOK, QueueCurrent, PacketsClear
    <3>2. \A c \in Components : Current(c)'
      BY DEF ReplicationInv, Current, IsQueued, LastOnWire, AtClient, Mentions
    <3> QED BY <3>1, <3>2 DEF ReplicationInv
  <2> QED BY <2>1, RecordKeeps, FlushSnapshotKeeps, FlushDeltaKeeps, CapKeeps, DeliverKeeps, LoseKeeps
          DEF ReplicationNext
<1> QED BY <1>1, <1>2, PTL DEF ReplicationSpec

(* "The latest write for a component wins": for any number of components,  *)
(* writes and packets in flight, the newest value of a component is with   *)
(* the client, queued or on its way, unless the cap dropped it, the        *)
(* channel lost it or a snapshot overtook it. *)
THEOREM NoWriteForgotten == ReplicationSpec => []NothingForgotten
<1>1. ReplicationInv => NothingForgotten
  <2> SUFFICES ASSUME ReplicationInv, NEW c \in Components
               PROVE  \/ latest[c] = client[c]
                      \/ c \in gone
                      \/ {k \in DOMAIN deltas : deltas[k].component = c} = {Queued(c)}
                         /\ deltas[Queued(c)].data = latest[c]
                      \/ \E k \in DOMAIN wire : [component |-> c, data |-> latest[c]] \in wire[k]
    BY DEF NothingForgotten
  <2>1. CASE IsQueued(c)
    <3>1. PICK k \in DOMAIN deltas : deltas[k].component = c
      BY <2>1 DEF IsQueued
    <3>2. Queued(c) = k
      BY <3>1, QueuedPlace DEF ReplicationInv
    <3>3. {j \in DOMAIN deltas : deltas[j].component = c} = {k} /\ deltas[k].data = latest[c]
      BY <3>1 DEF ReplicationInv, QueueCurrent
    <3> QED BY <3>2, <3>3
  <2>2. CASE LastOnWire(c)
    BY <2>2 DEF LastOnWire
  <2> QED BY <2>1, <2>2 DEF ReplicationInv, Current, AtClient
<1> QED BY <1>1, ReplicationInvariant, PTL

-----------------------------------------------------------------------------
(* The receive window.  Lemmas about the remainder first.                  *)

LEMMA DivMod ==
    ASSUME NEW S \in Int, S > 0, NEW a \in Int, NEW d \in Int, d = a \div S, NEW r \in Int, r = a % S
    PROVE  a = d * S + r
  OBVIOUS

LEMMA ModOf ==
    ASSUME NEW S \in Int, S > 0, NEW k \in Int, NEW r \in Int, r >= 0, r < S
    PROVE  (k * S + r) % S = r
  OBVIOUS

LEMMA ModType ==
    ASSUME NEW S \in Int, S > 0, NEW a \in Int
    PROVE  a % S \in 0 .. (S - 1) /\ a \div S \in Int
<1>1. a % S \in 0 .. (S - 1)
  OBVIOUS
<1>2. a \div S \in Int
  OBVIOUS
<1> QED BY <1>1, <1>2

(* The distance of two numbers less than S apart survives the remainder. *)
LEMMA ModDifference ==
    ASSUME NEW S \in Int, S > 0, NEW a \in Int, NEW b \in Int, 0 <= b - a, b - a < S
    PROVE  ((b % S) - (a % S)) % S = b - a
<1>1. a % S \in Int /\ a \div S \in Int /\ b % S \in Int /\ b \div S \in Int
  BY ModType
<1>2. PICK j \in Int, r \in Int : j = a \div S /\ r = a % S
  BY <1>1
<1>3. PICK k \in Int, q \in Int : k = b \div S /\ q = b % S
  BY <1>1
<1>4. a = j * S + r
  BY <1>2, DivMod
<1>5. b = k * S + q
  BY <1>3, DivMod
<1>6. q - r = (j - k) * S + (b - a)
  <2>1. (j - k) * S = j * S - k * S
    OBVIOUS
  <2>2. j * S \in Int /\ k * S \in Int
    OBVIOUS
  <2> QED BY <1>4, <1>5, <2>1, <2>2
<1>7. ((j - k) * S + (b - a)) % S = b - a
  <2>1. j - k \in Int /\ b - a \in Int
    OBVIOUS
  <2> QED BY <2>1, ModOf
<1> QED BY <1>2, <1>3, <1>6, <1>7

(* The same seen from behind. *)
LEMMA ModBehind ==
    ASSUME NEW S \in Int, S > 0, NEW a \in Int, NEW b \in Int, 0 < b - a, b - a < S
    PROVE  ((a % S) - (b % S)) % S = S - (b - a)
<1>1. (a + S) % S = a % S
  <2>1. a % S \in 0 .. (S - 1) /\ a \div S \in Int
    BY ModType
  <2>2. PICK j \in Int, r \in Int : j = a \div S /\ r = a % S /\ r >= 0 /\ r < S
    BY <2>1
  <2>3. a + S = (j + 1) * S + r
    BY <2>2, DivMod
  <2>4. j + 1 \in Int
    OBVIOUS
  <2>5. ((j + 1) * S + r) % S = r
    BY <2>2, <2>4, ModOf
  <2> QED BY <2>2, <2>3, <2>5
<1>2. (((a + S) % S) - (b % S)) % S = (a + S) - b
  <2>1. a + S \in Int /\ 0 <= (a + S) - b /\ (a + S) - b < S
    OBVIOUS
  <2> QED BY <2>1, ModDifference
<1> QED BY <1>1, <1>2

(* The mask is the accepted packets, of those the network may still        *)
(* deliver and the mask reaches; the highest number is the newest packet's,*)
(* and the sender is less than half the space ahead of it.                 *)
WindowMatches ==
    /\ highest = Seq32(newest)
    /\ newest < sent /\ sent - newest <= Half
    /\ 0 \in mask
    /\ \A p \in 0 .. newest :
          newest - p < MaskBits /\ p + Lifetime >= sent => (newest - p \in mask <=> p \in accepted)

WindowInv ==
    /\ ReliabilityTypeOK
    /\ \A p \in accepted : p <= newest
    /\ seen => WindowMatches
    /\ ~seen => accepted = {}
    /\ WindowExact

LEMMA SpaceFacts ==
    /\ Space \in Int /\ Half \in Int /\ Space = 2 * Half /\ Lifetime <= Half /\ Half > 0
    /\ {MaskBits, Window, Lifetime, MaxSent} \subseteq Nat \ {0} /\ MaskBits <= Window /\ Window <= Lifetime
<1>1. 2^SeqBits \in Int /\ 2^(SeqBits - 1) \in Int
  BY ReliabilityAssumption
<1> QED BY <1>1, ReliabilityAssumption DEF Space, Half

(* Where a packet the network may still deliver lies, by its number. *)
LEMMA PacketPlace ==
    ASSUME WindowInv, seen, NEW p \in Nat, p < sent, p + Lifetime >= sent
    PROVE  /\ p = newest => Seq32(p) = highest
           /\ p > newest => Seq32(p) # highest /\ Ahead(Seq32(p)) /\ Forward(Seq32(p)) = p - newest
           /\ p < newest => Seq32(p) # highest /\ ~Ahead(Seq32(p)) /\ Back(Seq32(p)) = newest - p
<1>1. /\ highest = newest % Space /\ newest \in Nat /\ sent \in Nat /\ newest < sent /\ sent - newest <= Half
      /\ Space \in Int /\ Half \in Int /\ Space = 2 * Half /\ Lifetime <= Half /\ Half > 0 /\ Lifetime \in Nat /\ Space > 0
  BY SpaceFacts DEF WindowInv, WindowMatches, ReliabilityTypeOK, Seq32
<1>2. p = newest => Seq32(p) = highest
  BY <1>1 DEF Seq32
<1>3. highest \in Int /\ (highest - highest) % Space = 0
  <2>1. highest \in 0 .. (Space - 1)
    BY <1>1, ModType
  <2>2. highest - highest = 0 * Space + 0
    BY <1>1, <2>1
  <2>3. (0 * Space + 0) % Space = 0
    BY <1>1, ModOf
  <2> QED BY <2>1, <2>2, <2>3
<1>4. CASE p > newest
  <2>1. /\ p - newest > 0 /\ p - newest < Half /\ p - newest < Space
        /\ p \in Int /\ newest \in Int /\ 0 <= p - newest
    BY <1>1, <1>4
  <2>2. ((p % Space) - (newest % Space)) % Space = p - newest
    BY <1>1, <2>1, ModDifference, Zenon
  <2>3. Forward(Seq32(p)) = p - newest
    BY <1>1, <2>2 DEF Forward, Seq32
  <2>4. Seq32(p) # highest
    BY <1>3, <2>1, <2>3 DEF Forward
  <2> QED BY <1>1, <1>4, <2>1, <2>3, <2>4 DEF Ahead
<1>5. CASE p < newest
  <2>1. /\ newest - p > 0 /\ newest - p < Half /\ newest - p < Space
        /\ p \in Int /\ newest \in Int /\ 0 <= newest - p /\ 0 < newest - p
    BY <1>1, <1>5
  <2>2. ((newest % Space) - (p % Space)) % Space = newest - p
    BY <1>1, <2>1, ModDifference, Zenon
  <2>3. Back(Seq32(p)) = newest - p
    BY <1>1, <2>2 DEF Back, Seq32
  <2>4. ((p % Space) - (newest % Space)) % Space = Space - (newest - p)
    BY <1>1, <2>1, ModBehind, Zenon
  <2>5. Forward(Seq32(p)) = Space - (newest - p)
    BY <1>1, <2>4 DEF Forward, Seq32
  <2>6. ~(Forward(Seq32(p)) < Half)
    BY <1>1, <2>1, <2>5
  <2>7. Seq32(p) # highest
    BY <1>3, <2>1, <2>3 DEF Back
  <2> QED BY <1>1, <1>5, <2>3, <2>6, <2>7 DEF Ahead
<1> QED BY <1>1, <1>2, <1>4, <1>5

LEMMA SendKeepsWindow ==
    ASSUME WindowInv, send
    PROVE  WindowInv'
<1>1. /\ sent \in 0 .. MaxSent /\ sent' = sent + 1 /\ sent < MaxSent
      /\ UNCHANGED <<highest, seen, mask, newest, verdict>>
      /\ accepted' = {p \in accepted : p + Lifetime >= sent}
      /\ accepted \subseteq 0 .. (MaxSent - 1) /\ newest \in 0 .. MaxSent /\ Lifetime \in Nat /\ MaxSent \in Nat
      /\ MaskBits \in Nat /\ Half \in Int
  BY SpaceFacts DEF WindowInv, ReliabilityTypeOK, send
<1>2. ReliabilityTypeOK'
  <2>1. sent' \in 0 .. MaxSent
    BY <1>1
  <2>2. accepted' \subseteq 0 .. (MaxSent - 1)
    BY <1>1
  <2> QED BY <1>1, <2>1, <2>2 DEF WindowInv, ReliabilityTypeOK
<1>3. (\A p \in accepted' : p <= newest') /\ (~seen' => accepted' = {})
  BY <1>1 DEF WindowInv
<1>4. ASSUME seen
      PROVE  WindowMatches'
  <2>1. WindowMatches /\ sent + 1 - newest <= Half
    BY <1>4 DEF WindowInv, send
  <2>2. newest' < sent' /\ sent' - newest' <= Half
    BY <1>1, <2>1 DEF WindowMatches
  <2>3. ASSUME NEW p \in 0 .. newest, newest - p < MaskBits, p + Lifetime >= sent + 1
        PROVE  newest - p \in mask <=> p \in accepted'
    <3>1. p + Lifetime >= sent
      BY <1>1, <2>3
    <3>2. p \in accepted' <=> p \in accepted
      BY <1>1, <3>1
    <3> QED BY <2>1, <2>3, <3>1, <3>2 DEF WindowMatches
  <2> QED BY <1>1, <2>1, <2>2, <2>3 DEF WindowMatches, Seq32
<1>5. WindowExact'
  BY <1>1 DEF WindowInv, WindowExact
<1> QED BY <1>1, <1>2, <1>3, <1>4, <1>5 DEF WindowInv

(* The first packet opens the window. *)
LEMMA FirstKeepsWindow ==
    ASSUME WindowInv, NEW p \in 0 .. (MaxSent - 1), receive(p), ~seen
    PROVE  WindowInv'
<1>1. Answer(Seq32(p)) = "Ok" /\ accepted = {}
  BY DEF Answer, WindowInv
<1>2. /\ highest' = Seq32(p) /\ seen' = TRUE /\ mask' = {0} /\ newest' = p /\ accepted' = {p} /\ sent' = sent
      /\ p < sent /\ p + Lifetime >= sent
      /\ ~verdict'.again /\ verdict'.says = "Ok"
  <2>1. highest' = Seq32(p) /\ seen' = TRUE /\ mask' = {0}
    BY DEF receive, validate
  <2>2. newest' = p /\ accepted' = {p} /\ sent' = sent /\ p < sent /\ p + Lifetime >= sent
    BY <1>1 DEF receive
  <2>3. ~verdict'.again /\ verdict'.says = "Ok"
    BY <1>1 DEF receive
  <2> QED BY <2>1, <2>2, <2>3
<1>3. /\ Space \in Int /\ Space > 0 /\ p \in Int /\ sent \in Nat /\ Half \in Int /\ Lifetime <= Half /\ Lifetime \in Nat
      /\ MaskBits \in Nat \ {0} /\ MaxSent \in Nat
  BY SpaceFacts DEF WindowInv, ReliabilityTypeOK
<1>4. highest' \in 0 .. (Space - 1)
  BY <1>2, <1>3, ModType DEF Seq32
<1>5. ReliabilityTypeOK'
  BY <1>2, <1>3, <1>4 DEF WindowInv, ReliabilityTypeOK, Verdicts
<1>6. WindowMatches'
  <2>1. newest' < sent' /\ sent' - newest' <= Half /\ 0 \in mask' /\ highest' = Seq32(newest')
    BY <1>2, <1>3
  <2>2. \A q \in 0 .. p : p - q \in {0} <=> q \in {p}
    BY <1>3
  <2> QED BY <1>2, <2>1, <2>2 DEF WindowMatches, Seq32
<1>7. WindowExact'
  BY <1>2 DEF WindowExact
<1> QED BY <1>2, <1>3, <1>5, <1>6, <1>7 DEF WindowInv

(* A packet ahead of the highest: the mask moves along. *)
LEMMA AheadKeepsWindow ==
    ASSUME WindowInv, NEW p \in 0 .. (MaxSent - 1), receive(p), seen, p > newest
    PROVE  WindowInv'
<1>0. p \in Nat /\ p < sent /\ p + Lifetime >= sent /\ WindowMatches /\ sent' = sent
  BY DEF receive, WindowInv
<1>1. Seq32(p) # highest /\ Ahead(Seq32(p)) /\ Forward(Seq32(p)) = p - newest
  BY <1>0, PacketPlace
<1>2. Answer(Seq32(p)) = "Ok"
  BY <1>1 DEF Answer
<1>3. /\ Space \in Int /\ Space > 0 /\ sent \in Nat /\ Half \in Int /\ Lifetime \in Nat
      /\ MaskBits \in Nat \ {0} /\ MaxSent \in Nat /\ newest \in Nat /\ p \in Int
      /\ mask \subseteq 0 .. (MaskBits - 1) /\ accepted \subseteq 0 .. (MaxSent - 1)
      /\ \A q \in accepted : q <= newest
  BY SpaceFacts DEF WindowInv, ReliabilityTypeOK
<1>4. p \notin accepted
  BY <1>3
<1>5. /\ highest' = Seq32(p) /\ seen' = TRUE /\ mask' = Shifted(Seq32(p)) /\ newest' = p
      /\ accepted' = accepted \cup {p}
  BY <1>1, <1>2 DEF receive, validate
<1>6. ~verdict'.again /\ verdict'.says = "Ok"
  BY <1>2, <1>4 DEF receive
<1>7. \A b : b \in mask' <=> \/ b = 0
                             \/ \E c \in mask : b = c + (p - newest) /\ b < MaskBits
  <2>1. CASE p - newest < MaskBits
    BY <1>1, <1>5, <2>1 DEF Shifted
  <2>2. CASE ~(p - newest < MaskBits)
    <3>1. \A c \in mask : ~(c + (p - newest) < MaskBits)
      BY <1>3, <2>2
    <3> QED BY <1>1, <1>5, <2>2, <3>1 DEF Shifted
  <2> QED BY <2>1, <2>2
<1>8. mask' \subseteq 0 .. (MaskBits - 1)
  BY <1>3, <1>7
<1>9. highest' \in 0 .. (Space - 1)
  BY <1>3, <1>5, ModType DEF Seq32
<1>10. ReliabilityTypeOK'
  BY <1>0, <1>3, <1>5, <1>6, <1>8, <1>9 DEF WindowInv, ReliabilityTypeOK, Verdicts
<1>11. WindowMatches'
  <2>1. newest' < sent' /\ sent' - newest' <= Half /\ 0 \in mask' /\ highest' = Seq32(newest')
    BY <1>0, <1>3, <1>5, <1>7 DEF WindowMatches
  <2>2. ASSUME NEW q \in 0 .. p, p - q < MaskBits, q + Lifetime >= sent
        PROVE  p - q \in mask' <=> q \in accepted'
    <3>1. CASE q = p
      BY <1>3, <1>5, <1>7, <3>1
    <3>2. CASE q > newest /\ q < p
      <4>1. q \notin accepted'
        BY <1>3, <1>5, <3>2
      <4>2. \A c \in mask : p - q # c + (p - newest)
        BY <1>3, <3>2
      <4>3. p - q # 0
        BY <1>3, <3>2
      <4> QED BY <1>7, <4>1, <4>2, <4>3
    <3>3. CASE q <= newest
      <4>1. newest - q < MaskBits /\ q \in 0 .. newest /\ p - q # 0 /\ q # p
        BY <1>3, <2>2, <3>3
      <4>2. newest - q \in mask <=> q \in accepted
        BY <1>0, <2>2, <4>1 DEF WindowMatches
      <4>3. \A c \in mask : p - q = c + (p - newest) <=> c = newest - q
        BY <1>3
      <4>4. p - q \in mask' <=> newest - q \in mask
        BY <1>7, <2>2, <4>1, <4>3
      <4> QED BY <1>5, <4>1, <4>2, <4>4
    <3> QED BY <1>3, <3>1, <3>2, <3>3
  <2> QED BY <1>0, <1>5, <2>1, <2>2 DEF WindowMatches, Seq32
<1>12. WindowExact'
  BY <1>6 DEF WindowExact
<1>13. \A q \in accepted' : q <= newest'
  BY <1>3, <1>5
<1> QED BY <1>5, <1>10, <1>11, <1>12, <1>13 DEF WindowInv

(* A packet at or behind the highest: its bit decides, while it has one. *)
LEMMA BehindKeepsWindow ==
    ASSUME WindowInv, NEW p \in 0 .. (MaxSent - 1), receive(p), seen, p <= newest
    PROVE  WindowInv'
<1>0. p \in Nat /\ p < sent /\ p + Lifetime >= sent /\ WindowMatches /\ sent' = sent
  BY DEF receive, WindowInv
<1>1. /\ Space \in Int /\ Space > 0 /\ sent \in Nat /\ Half \in Int /\ Lifetime \in Nat /\ Window \in Nat
      /\ MaskBits \in Nat \ {0} /\ MaxSent \in Nat /\ newest \in Nat /\ p \in Int /\ MaskBits <= Window
      /\ mask \subseteq 0 .. (MaskBits - 1) /\ accepted \subseteq 0 .. (MaxSent - 1)
      /\ \A q \in accepted : q <= newest
  BY SpaceFacts DEF WindowInv, ReliabilityTypeOK
<1>2. p \in 0 .. newest
  BY <1>1
<1>3. newest - p < MaskBits => (newest - p \in mask <=> p \in accepted)
  BY <1>0, <1>2 DEF WindowMatches
<1>4. ~Ahead(Seq32(p)) /\ UNCHANGED <<highest, seen>>
  <2>1. ~Ahead(Seq32(p))
    BY <1>0, <1>1, PacketPlace DEF Ahead
  <2> QED BY <2>1 DEF receive, validate
<1>5. ~(p > newest) /\ newest' = newest
  BY <1>1 DEF receive
<1>6. Back(Seq32(p)) = newest - p
  <2>1. CASE p < newest
    BY <1>0, <2>1, PacketPlace
  <2>2. CASE p = newest
    <3>1. Seq32(p) = highest
      BY <1>0, <2>2, PacketPlace
    <3>2. highest \in Int /\ newest - p = 0
      BY <1>1, <2>2 DEF WindowInv, ReliabilityTypeOK
    <3>3. highest - highest = 0 * Space + 0
      BY <1>1, <3>2
    <3>4. (0 * Space + 0) % Space = 0
      BY <1>1, ModOf
    <3> QED BY <3>1, <3>2, <3>3, <3>4 DEF Back
  <2> QED BY <1>1, <2>1, <2>2
<1>7. Seq32(p) = highest <=> p = newest
  BY <1>0, <1>1, PacketPlace
<1>8. Answer(Seq32(p)) = IF p = newest THEN "Duplicate"
                         ELSE IF newest - p >= Window THEN "Stale"
                         ELSE IF newest - p < MaskBits /\ newest - p \in mask THEN "Duplicate" ELSE "Ok"
  BY <1>4, <1>6, <1>7 DEF Answer
<1>9. mask' = IF Answer(Seq32(p)) = "Ok" /\ newest - p < MaskBits THEN mask \cup {newest - p} ELSE mask
  BY <1>4, <1>6 DEF receive, validate
<1>10. accepted' = IF Answer(Seq32(p)) = "Ok" THEN accepted \cup {p} ELSE accepted
  BY DEF receive
<1>11. verdict'.again = (p \in accepted) /\ verdict'.says = Answer(Seq32(p)) /\ verdict'.back = newest - p
  BY <1>6 DEF receive
<1>12. mask' \subseteq 0 .. (MaskBits - 1) /\ accepted' \subseteq 0 .. (MaxSent - 1)
       /\ \A q \in accepted' : q <= newest
  BY <1>1, <1>2, <1>9, <1>10
<1>13. verdict'.says \in Verdicts
  BY <1>8, <1>11 DEF Verdicts
<1>14. ReliabilityTypeOK'
  BY <1>0, <1>4, <1>5, <1>12, <1>13 DEF WindowInv, ReliabilityTypeOK
<1>15. WindowMatches'
  <2>1. ASSUME NEW q \in 0 .. newest, newest - q < MaskBits, q + Lifetime >= sent
        PROVE  newest - q \in mask' <=> q \in accepted'
    <3>1. newest - q \in mask <=> q \in accepted
      BY <1>0, <2>1 DEF WindowMatches
    <3>2. newest - q = newest - p <=> q = p
      BY <1>1
    <3> QED BY <1>9, <1>10, <2>1, <3>1, <3>2
  <2>2. 0 \in mask'
    BY <1>0, <1>9 DEF WindowMatches
  <2> QED BY <1>0, <1>4, <1>5, <2>1, <2>2 DEF WindowMatches, Seq32
<1>16. WindowExact'
  <2>1. ASSUME p \in accepted, Answer(Seq32(p)) = "Ok"
        PROVE  newest - p \in MaskBits .. (Window - 1)
    BY <1>1, <1>3, <1>8, <2>1
  <2>2. ASSUME p \notin accepted, Answer(Seq32(p)) # "Ok"
        PROVE  Answer(Seq32(p)) = "Stale" /\ newest - p >= Window
    <3>1. p # newest
      <4>1. ASSUME p = newest PROVE FALSE
        <5>1. newest - p = 0 /\ newest - p < MaskBits
          BY <1>1, <4>1
        <5> QED BY <1>0, <1>3, <2>2, <5>1 DEF WindowMatches
      <4> QED BY <4>1
    <3> QED BY <1>3, <1>8, <2>2, <3>1
  <2> QED BY <1>11, <2>1, <2>2 DEF WindowExact
<1> QED BY <1>4, <1>5, <1>12, <1>14, <1>15, <1>16 DEF WindowInv

(* One step per place of the packet: first, ahead, at or behind. *)
THEOREM WindowInvariant == ReliabilitySpec => []WindowInv
<1>1. ReliabilityInit => WindowInv
  <2>1. Space > 0 /\ Space \in Int /\ MaxSent \in Nat
    BY SpaceFacts
  <2> SUFFICES ASSUME ReliabilityInit PROVE WindowInv
    OBVIOUS
  <2>2. ~seen /\ seen \in BOOLEAN /\ verdict.says = "Ok" /\ ~verdict.again /\ accepted = {}
    BY DEF ReliabilityInit
  <2>3. /\ highest \in 0 .. (Space - 1) /\ mask \subseteq 0 .. (MaskBits - 1) /\ sent \in 0 .. MaxSent
        /\ newest \in 0 .. MaxSent
    BY <2>1 DEF ReliabilityInit
  <2> QED BY <2>2, <2>3 DEF WindowInv, ReliabilityTypeOK, WindowExact, Verdicts
<1>2. WindowInv /\ [ReliabilityNext]_reliabilityVars => WindowInv'
  <2> SUFFICES ASSUME WindowInv, [ReliabilityNext]_reliabilityVars
               PROVE  WindowInv'
    OBVIOUS
  <2>1. CASE send
    BY <2>1, SendKeepsWindow
  <2>2. ASSUME NEW p \in 0 .. (MaxSent - 1), receive(p)
        PROVE  WindowInv'
    <3>1. seen \in BOOLEAN /\ (p > newest \/ p <= newest)
      BY SpaceFacts DEF WindowInv, ReliabilityTypeOK
    <3> QED BY <2>2, <3>1, FirstKeepsWindow, AheadKeepsWindow, BehindKeepsWindow
  <2>3. CASE UNCHANGED reliabilityVars
    BY <2>3 DEF reliabilityVars, WindowInv, ReliabilityTypeOK, WindowMatches, WindowExact, Seq32
  <2> QED BY <2>1, <2>2, <2>3 DEF ReliabilityNext
<1> QED BY <1>1, <1>2, PTL DEF ReliabilitySpec

(* validate tells replays from packets never seen, for any width of the    *)
(* sequence numbers, the mask and the window, over any reordering, any     *)
(* jump and any number of wraps of the sequence space. *)
THEOREM WindowTellsReplays == ReliabilitySpec => []WindowExact
<1>1. WindowInv => WindowExact
  BY DEF WindowInv
<1> QED BY <1>1, WindowInvariant, PTL

-----------------------------------------------------------------------------
(* What reaches a player.  Voice first. *)

ChannelOK(ch) ==
    /\ DOMAIN ch = {"max", "members"} /\ ch.max \in Nat
    /\ IsFiniteSet(ch.members) /\ Cardinality(ch.members) <= ch.max

VoiceInv == \A c \in DOMAIN channels : ChannelOK(channels[c])

(* A channel with other members is still a channel, if it holds them. *)
LEMMA ChannelFilled ==
    ASSUME VoiceInv, NEW c \in DOMAIN channels, NEW M,
           channels' = [channels EXCEPT ![c].members = M],
           IsFiniteSet(M), Cardinality(M) <= channels[c].max
    PROVE  VoiceInv'
<1> DEFINE ch == [channels[c] EXCEPT !.members = M]
<1>1. ChannelOK(channels[c])
  BY DEF VoiceInv
<1>2. ChannelOK(ch)
  BY <1>1 DEF ChannelOK
<1>3. DOMAIN channels' = DOMAIN channels /\ channels'[c] = ch
      /\ \A d \in DOMAIN channels \ {c} : channels'[d] = channels[d]
  OBVIOUS
<1> HIDE DEF ch
<1> QED BY <1>2, <1>3 DEF VoiceInv

LEMMA VoiceStep == VoiceInv /\ [VoiceNext]_voiceVars => VoiceInv'
<1> SUFFICES ASSUME VoiceInv, [VoiceNext]_voiceVars PROVE VoiceInv'
  OBVIOUS
<1>1. ASSUME NEW c, NEW m \in 0..MaxMembers, create_channel(c, m) PROVE VoiceInv'
  <2> DEFINE ch == [max |-> Max({m, 1}), members |-> {}]
  <2>1. Max({m, 1}) \in Nat
    <3>1. MaxMembers \in Nat /\ m \in Nat
      BY <1>1, PresenceAssumption
    <3>2. \E x \in {m, 1} : \A y \in {m, 1} : x >= y
      BY <3>1
    <3> QED BY <3>1, <3>2 DEF Max
  <2>2. ChannelOK(ch)
    BY <2>1, FS_EmptySet DEF ChannelOK
  <2>3. channels' = With(channels, c, ch)
    BY <1>1 DEF create_channel
  <2> HIDE DEF ch
  <2> QED BY <2>2, <2>3 DEF VoiceInv, With
<1>2. ASSUME NEW c, drop_channel(c) PROVE VoiceInv'
  BY <1>2 DEF drop_channel, Without, VoiceInv
<1>3. ASSUME NEW c, NEW p, join_channel(c, p) PROVE VoiceInv'
  <2> DEFINE M == channels[c].members \cup {p}
  <2>1. c \in DOMAIN channels /\ channels' = [channels EXCEPT ![c].members = M] /\ Room(c, p)
    BY <1>3 DEF join_channel
  <2>2. ChannelOK(channels[c])
    BY <2>1 DEF VoiceInv
  <2>3. IsFiniteSet(M) /\ Cardinality(M) = IF p \in channels[c].members THEN Cardinality(channels[c].members)
                                           ELSE Cardinality(channels[c].members) + 1
    BY <2>2, FS_AddElement DEF ChannelOK
  <2>4. Cardinality(channels[c].members) \in Nat
    BY <2>2, FS_CardinalityType DEF ChannelOK
  <2>5. Cardinality(M) <= channels[c].max
    BY <2>1, <2>2, <2>3, <2>4 DEF Room, ChannelOK
  <2> HIDE DEF M
  <2> QED BY <2>1, <2>3, <2>5, ChannelFilled
<1>4. ASSUME NEW c, NEW p, leave_channel(c, p) PROVE VoiceInv'
  <2> DEFINE M == channels[c].members \ {p}
  <2>1. c \in DOMAIN channels /\ channels' = [channels EXCEPT ![c].members = M]
    BY <1>4 DEF leave_channel
  <2>2. ChannelOK(channels[c])
    BY <2>1 DEF VoiceInv
  <2>3. IsFiniteSet(M) /\ Cardinality(M) <= Cardinality(channels[c].members)
    BY <2>2, FS_Subset DEF ChannelOK
  <2>4. Cardinality(channels[c].members) \in Nat /\ Cardinality(M) \in Nat
    BY <2>2, <2>3, FS_CardinalityType DEF ChannelOK
  <2>5. Cardinality(M) <= channels[c].max
    BY <2>2, <2>3, <2>4 DEF ChannelOK
  <2> HIDE DEF M
  <2> QED BY <2>1, <2>3, <2>5, ChannelFilled
<1>5. ASSUME NEW p, NEW on, mute(p, on) \/ deafen(p, on) PROVE VoiceInv'
  BY <1>5 DEF mute, deafen, VoiceInv
<1>6. CASE UNCHANGED voiceVars
  BY <1>6 DEF voiceVars, VoiceInv
<1> QED BY <1>1, <1>2, <1>3, <1>4, <1>5, <1>6 DEF VoiceNext

LEMMA VoiceInvGives == VoiceInv => VoiceConfined
<1> SUFFICES ASSUME VoiceInv, NEW c \in DOMAIN channels
             PROVE  /\ Cardinality(channels[c].members) <= channels[c].max
                    /\ \A p \in Talkers : Cardinality(recipients(p, c))
                         <= channels[c].max - (IF p \in channels[c].members THEN 1 ELSE 0)
  BY DEF VoiceConfined
<1>1. ChannelOK(channels[c])
  BY DEF VoiceInv
<1>2. ASSUME NEW p \in Talkers
      PROVE  Cardinality(recipients(p, c)) <= channels[c].max - (IF p \in channels[c].members THEN 1 ELSE 0)
  <2> DEFINE M == channels[c].members \ {p}
  <2>1. recipients(p, c) \in SUBSET M
    BY DEF recipients
  <2>2. IsFiniteSet(M) /\ Cardinality(M) = IF p \in channels[c].members THEN Cardinality(channels[c].members) - 1
                                           ELSE Cardinality(channels[c].members)
    BY <1>1, FS_RemoveElement DEF ChannelOK
  <2>3. IsFiniteSet(recipients(p, c)) /\ Cardinality(recipients(p, c)) <= Cardinality(M)
    BY <2>1, <2>2, FS_Subset
  <2>4. Cardinality(channels[c].members) \in Nat /\ Cardinality(M) \in Nat /\ Cardinality(recipients(p, c)) \in Nat
    BY <1>1, <2>2, <2>3, FS_CardinalityType DEF ChannelOK
  <2> QED BY <1>1, <2>2, <2>3, <2>4 DEF ChannelOK
<1> QED BY <1>1, <1>2 DEF ChannelOK

-----------------------------------------------------------------------------
(* Game events: the number delivered last is that of the envelope          *)
(* delivered last, and everything under way is near the newest.            *)

EventsInv ==
    /\ produced \in Nat /\ lastSent \in Nat /\ lastSent <= produced
    /\ produced - lastSent < SeqSpace \div 2
    /\ \A n \in transit : n \in Nat /\ 1 <= n /\ n <= produced /\ produced - n < SeqSpace \div 2
    /\ last_seq = (IF lastSent = 0 THEN -1 ELSE lastSent % SeqSpace)

LEMMA HalfSpace == SeqSpace \in Nat /\ SeqSpace > 0 /\ SeqSpace \div 2 \in Nat /\ SeqSpace = 2 * (SeqSpace \div 2)
<1>1. SeqSpace \in Nat /\ SeqSpace > 0 /\ SeqSpace % 2 = 0
  BY PresenceAssumption
<1>2. SeqSpace \div 2 \in Int
  BY <1>1
<1> QED BY <1>1, <1>2

LEMMA EventsStep == EventsInv /\ [EventsNext]_eventVars => EventsInv'
<1> SUFFICES ASSUME EventsInv, [EventsNext]_eventVars PROVE EventsInv'
  OBVIOUS
<1> DEFINE H == SeqSpace \div 2
<1>0. H \in Nat /\ SeqSpace \in Nat
  BY HalfSpace
<1>1. CASE Envelope_new
  <2>1. produced' = produced + 1 /\ produced + 1 - lastSent < H /\ lastSent' = lastSent /\ last_seq' = last_seq
        /\ transit' = {n \in transit : produced + 1 - n < H} \cup {produced + 1}
    BY <1>1 DEF Envelope_new
  <2>2. produced \in Nat /\ lastSent \in Nat /\ lastSent <= produced
    BY DEF EventsInv
  <2>3. 0 < H
    BY <1>0, <2>1, <2>2
  <2>4. ASSUME NEW n \in transit'
        PROVE  n \in Nat /\ 1 <= n /\ n <= produced + 1 /\ produced + 1 - n < H
    <3>1. CASE n = produced + 1
      BY <3>1, <2>2, <2>3, <1>0
    <3>2. CASE n \in transit /\ produced + 1 - n < H
      BY <3>2, <2>2, <1>0 DEF EventsInv
    <3> QED BY <2>1, <3>1, <3>2
  <2> HIDE DEF H
  <2>5. produced' \in Nat /\ lastSent' \in Nat /\ lastSent' <= produced'
    BY <2>1, <2>2
  <2> QED BY <2>1, <2>4, <2>5 DEF EventsInv, H
<1>2. ASSUME NEW n \in transit, publish(n) PROVE EventsInv'
  <2>1. last_seq' = n % SeqSpace /\ lastSent' = n /\ produced' = produced /\ transit' = transit
    BY <1>2 DEF publish
  <2>2. n \in Nat /\ 1 <= n /\ n <= produced /\ produced - n < H
    BY <1>2 DEF EventsInv
  <2>3. n # 0
    BY <2>2
  <2> QED BY <2>1, <2>2, <2>3 DEF EventsInv
<1>3. ASSUME NEW n \in transit, lose_envelope(n) PROVE EventsInv'
  BY <1>3 DEF lose_envelope, EventsInv
<1>4. CASE subscribe \/ register_exact \/ register_edition_default \/ \E id \in subs : unsubscribe(id)
  BY <1>4 DEF subscribe, register_exact, register_edition_default, unsubscribe, EventsInv
<1>5. CASE UNCHANGED eventVars
  BY <1>5 DEF eventVars, EventsInv
<1> QED BY <1>1, <1>2, <1>3, <1>4, <1>5 DEF EventsNext

LEMMA EventsInvGives == EventsInv => EventsOnce
<1> SUFFICES ASSUME EventsInv, NEW n \in transit PROVE Fresh(n) <=> n > lastSent
  BY DEF EventsOnce
<1> DEFINE S == SeqSpace
           H == SeqSpace \div 2
<1>1. S \in Nat /\ S > 0 /\ H \in Nat /\ S = 2 * H
  BY HalfSpace
<1>2. n \in Nat /\ 1 <= n /\ n <= produced /\ produced - n < H /\ produced \in Nat
      /\ lastSent \in Nat /\ lastSent <= produced /\ produced - lastSent < H
  BY DEF EventsInv
<1>3. S \in Int /\ S > 0 /\ n \in Int /\ lastSent \in Int
  BY <1>1, <1>2
<1>4. CASE lastSent = 0
  <2>1. last_seq = -1
    BY <1>4 DEF EventsInv
  <2> QED BY <1>2, <1>4, <2>1 DEF Fresh
<1>5. CASE lastSent # 0
  <2>1. last_seq = lastSent % S
    BY <1>5 DEF EventsInv
  <2>2. lastSent % S \in 0 .. (S - 1) /\ n % S \in 0 .. (S - 1)
    BY <1>3, ModType
  <2>3. Fresh(n) <=> n % S # lastSent % S /\ ((n % S) - (lastSent % S)) % S < H
    <3>1. last_seq # -1
      BY <2>1, <2>2, <1>1
    <3> QED BY <3>1, <2>1 DEF Fresh, seq_is_newer
  <2> HIDE DEF S, H
  <2>4. CASE n = lastSent
    BY <2>3, <2>4, <1>2
  <2>5. CASE n > lastSent
    <3>1. 0 <= n - lastSent /\ n - lastSent < S /\ n - lastSent < H /\ n - lastSent # 0
      BY <1>1, <1>2, <2>5
    <3>2. ((n % S) - (lastSent % S)) % S = n - lastSent
      BY <1>3, <3>1, ModDifference
    <3>3. n % S # lastSent % S
      <4>1. ASSUME n % S = lastSent % S PROVE FALSE
        <5>1. (n % S) - (lastSent % S) = 0
          BY <2>2, <4>1, <1>1
        <5>2. 0 % S = 0
          BY <1>1
        <5> QED BY <3>1, <3>2, <5>1, <5>2
      <4> QED BY <4>1
    <3> QED BY <2>3, <2>5, <3>1, <3>2, <3>3
  <2>6. CASE n < lastSent
    <3>1. 0 < lastSent - n /\ lastSent - n < S /\ ~ (S - (lastSent - n) < H)
      BY <1>1, <1>2, <2>6
    <3>2. ((n % S) - (lastSent % S)) % S = S - (lastSent - n)
      BY <1>3, <3>1, ModBehind
    <3>3. ~ (n > lastSent)
      BY <1>2, <2>6
    <3> QED BY <2>3, <3>1, <3>2, <3>3
  <2>7. n = lastSent \/ n > lastSent \/ n < lastSent
    BY <1>2
  <2> QED BY <2>4, <2>5, <2>6, <2>7
<1> QED BY <1>4, <1>5

-----------------------------------------------------------------------------
(* Callbacks: the requests made are the pending, the answered and the      *)
(* taken ones, and no request is two of these.                             *)

Taken(id) == \E i \in 1..Len(takenIds) : takenIds[i] = id

CallbackInv ==
    /\ next_request \in Nat /\ takenIds \in Seq(Nat)
    /\ \A id : id \in DOMAIN asking \/ id \in answers \/ Taken(id) <=> id \in 0..(next_request - 1)
    /\ \A id \in answers : id \notin DOMAIN asking
    /\ \A i \in 1..Len(takenIds) : takenIds[i] \notin DOMAIN asking /\ takenIds[i] \notin answers
    /\ \A i, j \in 1..Len(takenIds) : takenIds[i] = takenIds[j] => i = j

LEMMA CallbackStep == CallbackInv /\ [CallbackNext]_callbackVars => CallbackInv'
<1> SUFFICES ASSUME CallbackInv, [CallbackNext]_callbackVars PROVE CallbackInv'
  OBVIOUS
<1>1. ASSUME NEW page, NEW cb, register_callback(page, cb) \/ unregister_callback(cb) PROVE CallbackInv'
  BY <1>1 DEF register_callback, unregister_callback, CallbackInv, Taken
<1>2. ASSUME NEW page, NEW cb, invoke(page, cb) PROVE CallbackInv'
  <2>1. next_request \in Nat
    BY DEF CallbackInv
  <2>2. /\ next_request' = next_request + 1 /\ answers' = answers /\ takenIds' = takenIds
        /\ DOMAIN asking' = DOMAIN asking \cup {next_request}
    BY <1>2 DEF invoke, With
  <2>3. \A id : id \in 0..next_request <=> id \in 0..(next_request - 1) \/ id = next_request
    BY <2>1
  <2>4. next_request \notin 0..(next_request - 1) /\ next_request + 1 - 1 = next_request
    BY <2>1
  <2>5. next_request \notin answers /\ ~ Taken(next_request)
    BY <2>4 DEF CallbackInv
  <2>6. next_request' \in Nat /\ next_request' - 1 = next_request
    BY <2>1, <2>2
  <2>7. \A id : Taken(id)' <=> Taken(id)
    BY <2>2 DEF Taken
  <2>8. \A id : (id \in DOMAIN asking \/ id \in answers \/ Taken(id) <=> id \in 0..(next_request - 1))'
    BY <2>2, <2>3, <2>6, <2>7 DEF CallbackInv
  <2>9. \A i \in 1..Len(takenIds) : takenIds[i] # next_request
    BY <2>5 DEF Taken
  <2> QED BY <2>2, <2>5, <2>6, <2>8, <2>9 DEF CallbackInv
<1>3. ASSUME NEW id, respond(id) PROVE CallbackInv'
  <2>1. /\ id \notin answers /\ id \in DOMAIN asking /\ DOMAIN asking' = DOMAIN asking \ {id}
        /\ answers' = answers \cup {id} /\ next_request' = next_request /\ takenIds' = takenIds
    BY <1>3 DEF respond, Without
  <2>2. \A x : Taken(x)' <=> Taken(x)
    BY <2>1 DEF Taken
  <2>3. \A x : (x \in DOMAIN asking \/ x \in answers \/ Taken(x) <=> x \in 0..(next_request - 1))'
    BY <2>1, <2>2 DEF CallbackInv
  <2> QED BY <2>1, <2>3 DEF CallbackInv
<1>4. ASSUME NEW id, take_response(id) PROVE CallbackInv'
  <2>1. /\ id \in answers /\ answers' = answers \ {id} /\ takenIds' = Append(takenIds, id)
        /\ asking' = asking /\ next_request' = next_request
    BY <1>4 DEF take_response
  <2>2. id \in Nat /\ takenIds \in Seq(Nat) /\ next_request \in Nat /\ id \notin DOMAIN asking
    <3>1. id \in 0..(next_request - 1) /\ next_request \in Nat
      BY <2>1 DEF CallbackInv
    <3> QED BY <2>1, <3>1 DEF CallbackInv
  <2>3. /\ takenIds' \in Seq(Nat) /\ Len(takenIds') = Len(takenIds) + 1 /\ Len(takenIds) \in Nat
        /\ takenIds'[Len(takenIds) + 1] = id /\ \A i \in 1..Len(takenIds) : takenIds'[i] = takenIds[i]
    BY <2>1, <2>2
  <2>4. \A i : i \in 1..Len(takenIds') <=> i \in 1..Len(takenIds) \/ i = Len(takenIds) + 1
    BY <2>3
  <2>5. \A x : Taken(x)' <=> Taken(x) \/ x = id
    BY <2>3, <2>4 DEF Taken
  <2>6. \A x : (x \in DOMAIN asking \/ x \in answers \/ Taken(x) <=> x \in 0..(next_request - 1))'
    BY <2>1, <2>5 DEF CallbackInv
  <2>7. \A i \in 1..Len(takenIds) : takenIds[i] # id
    BY <2>1 DEF CallbackInv
  <2>8. \A i \in 1..Len(takenIds') : takenIds'[i] \notin DOMAIN asking' /\ takenIds'[i] \notin answers'
    BY <2>1, <2>2, <2>3, <2>4 DEF CallbackInv
  <2>9. \A i, j \in 1..Len(takenIds') : takenIds'[i] = takenIds'[j] => i = j
    BY <2>3, <2>4, <2>7 DEF CallbackInv
  <2> QED BY <2>1, <2>2, <2>3, <2>6, <2>8, <2>9 DEF CallbackInv
<1>5. CASE UNCHANGED callbackVars
  BY <1>5 DEF callbackVars, CallbackInv, Taken
<1> QED BY <1>1, <1>2, <1>3, <1>4, <1>5 DEF CallbackNext

LEMMA CallbackInvGives == CallbackInv => AnsweredOnce
<1> SUFFICES ASSUME CallbackInv PROVE AnsweredOnce
  OBVIOUS
<1>1. DOMAIN takenIds = 1..Len(takenIds)
  BY DEF CallbackInv
<1>2. IsInjective(takenIds)
  BY <1>1 DEF IsInjective, CallbackInv
<1>3. ASSUME NEW id \in 0..(next_request - 1)
      PROVE  Cardinality({x \in {"asking", "answered", "taken"} :
                 \/ x = "asking" /\ id \in DOMAIN asking
                 \/ x = "answered" /\ id \in answers
                 \/ x = "taken" /\ id \in ToSet(takenIds)}) = 1
  <2> DEFINE A == {x \in {"asking", "answered", "taken"} :
                     \/ x = "asking" /\ id \in DOMAIN asking
                     \/ x = "answered" /\ id \in answers
                     \/ x = "taken" /\ id \in ToSet(takenIds)}
  <2>1. id \in ToSet(takenIds) <=> Taken(id)
    BY <1>1 DEF ToSet, Taken
  <2>2. id \in DOMAIN asking \/ id \in answers \/ Taken(id)
    BY DEF CallbackInv
  <2>3. /\ id \in answers => id \notin DOMAIN asking
        /\ Taken(id) => id \notin DOMAIN asking /\ id \notin answers
    BY DEF CallbackInv, Taken
  <2>4. \E x : A = {x}
    <3>1. CASE id \in DOMAIN asking
      <4>1. A = {"asking"}
        BY <2>1, <2>3, <3>1
      <4> QED BY <4>1
    <3>2. CASE id \in answers
      <4>1. A = {"answered"}
        BY <2>1, <2>3, <3>2
      <4> QED BY <4>1
    <3>3. CASE Taken(id)
      <4>1. A = {"taken"}
        BY <2>1, <2>3, <3>3
      <4> QED BY <4>1
    <3> QED BY <2>2, <3>1, <3>2, <3>3
  <2> HIDE DEF A
  <2>5. Cardinality(A) = 1
    BY <2>4, FS_Singleton
  <2> QED BY <2>5 DEF A
<1> QED BY <1>2, <1>3 DEF AnsweredOnce

-----------------------------------------------------------------------------
(* The focus, and the queue of messages. *)

FocusInv ==
    /\ messages \in Seq(Nat) /\ messageCount \in Nat /\ dropped \in Nat /\ drained \in Nat
    /\ InputNeverStuck

LEMMA FocusStep == FocusInv /\ [FocusNext]_focusVars => FocusInv'
<1> SUFFICES ASSUME FocusInv, [FocusNext]_focusVars PROVE FocusInv'
  OBVIOUS
<1>0. QueueCap \in Nat /\ QueueCap > 0 /\ NoPage \notin Pages
  BY PresenceAssumption
<1>1. ASSUME NEW page \in Pages, NEW on \in BOOLEAN, set_ui_open(page, on) PROVE FocusInv'
  <2>1. UNCHANGED <<messages, messageCount, dropped, drained>>
    BY <1>1 DEF set_ui_open
  <2>2. (focused # NoPage => focused \in ui_open)' /\ (grabbed => focused # NoPage)'
    BY <1>1 DEF set_ui_open, Closed, FocusInv, InputNeverStuck
  <2> QED BY <2>1, <2>2 DEF FocusInv, InputNeverStuck
<1>2. ASSUME NEW page, NEW on \in BOOLEAN, set_focus(page, on) PROVE FocusInv'
  <2>1. UNCHANGED <<messages, messageCount, dropped, drained>>
    BY <1>2 DEF set_focus
  <2>2. (focused # NoPage => focused \in ui_open)' /\ (grabbed => focused # NoPage)'
    BY <1>2 DEF set_focus
  <2> QED BY <2>1, <2>2 DEF FocusInv, InputNeverStuck
<1>3. CASE send_message
  <2> DEFINE kept == IF Len(messages) >= QueueCap THEN Tail(messages) ELSE messages
             lapsed == IF Len(messages) >= QueueCap THEN 1 ELSE 0
  <2>1. /\ messageCount' = messageCount + 1 /\ messages' = Append(kept, messageCount + 1)
        /\ UNCHANGED <<ui_open, focused, grabbed, drained>>
    BY <1>3 DEF send_message
  <2>2. /\ messages \in Seq(Nat) /\ Len(messages) \in Nat /\ messageCount \in Nat
        /\ dropped \in Nat /\ drained \in Nat
        /\ messageCount = Len(messages) + drained + dropped /\ Len(messages) <= QueueCap
        /\ \A i \in 1..Len(messages) : messages[i] = messageCount - Len(messages) + i
    BY DEF FocusInv, InputNeverStuck
  <2>3. dropped' = dropped + lapsed /\ lapsed \in Nat
    BY <1>3, <2>2 DEF send_message
  <2>4. kept \in Seq(Nat) /\ Len(kept) = Len(messages) - lapsed /\ Len(kept) < QueueCap
    BY <1>0, <2>2
  <2>5. \A i \in 1..Len(kept) : kept[i] = messageCount - Len(kept) + i
    <3>1. CASE Len(messages) >= QueueCap
      <4>1. messages # <<>> /\ kept = Tail(messages) /\ Len(kept) = Len(messages) - 1
        BY <1>0, <2>2, <2>4, <3>1
      <4>2. \A i \in 1..Len(kept) : kept[i] = messages[i + 1]
        BY <2>2, <4>1
      <4>3. \A i \in 1..Len(kept) : i + 1 \in 1..Len(messages) /\ i \in Nat
        BY <2>2, <4>1
      <4>4. \A i \in 1..Len(kept) : kept[i] = messageCount - Len(messages) + (i + 1)
        BY <2>2, <4>2, <4>3
      <4>5. \A i \in Nat : messageCount - Len(messages) + (i + 1) = messageCount - (Len(messages) - 1) + i
        BY <2>2
      <4> QED BY <4>1, <4>3, <4>4, <4>5
    <3>2. CASE ~ (Len(messages) >= QueueCap)
      BY <2>2, <3>2
    <3> QED BY <3>1, <3>2
  <2> HIDE DEF kept, lapsed
  <2>6. Len(kept) \in Nat
    BY <2>4
  <2>7. /\ messages' \in Seq(Nat) /\ Len(messages') = Len(kept) + 1
        /\ messages'[Len(kept) + 1] = messageCount + 1 /\ \A i \in 1..Len(kept) : messages'[i] = kept[i]
        /\ DOMAIN messages' = 1..(Len(kept) + 1)
    BY <2>1, <2>2, <2>4
  <2>8. \A i \in DOMAIN messages' : messages'[i] = messageCount' - Len(messages') + i
    <3> SUFFICES ASSUME NEW i \in DOMAIN messages' PROVE messages'[i] = messageCount' - Len(messages') + i
      OBVIOUS
    <3>1. i \in 1..Len(kept) \/ i = Len(kept) + 1
      BY <2>6, <2>7
    <3>2. CASE i \in 1..Len(kept)
      <4>1. messages'[i] = messageCount - Len(kept) + i
        BY <2>5, <2>7, <3>2
      <4> QED BY <4>1, <2>1, <2>2, <2>6, <2>7, <3>2
    <3>3. CASE i = Len(kept) + 1
      BY <2>1, <2>2, <2>6, <2>7, <3>3
    <3> QED BY <3>1, <3>2, <3>3
  <2>9. messageCount' \in Nat /\ dropped' \in Nat /\ drained' \in Nat
    BY <2>1, <2>2, <2>3
  <2>10. messageCount' = Len(messages') + drained' + dropped' /\ Len(messages') <= QueueCap
    <3>1. Len(messages') = Len(messages) - lapsed + 1 /\ Len(kept) + 1 <= QueueCap
      BY <1>0, <2>4, <2>6, <2>7
    <3>2. messageCount + 1 = (Len(messages) - lapsed + 1) + drained + (dropped + lapsed)
      BY <2>2, <2>3
    <3> QED BY <2>1, <2>3, <2>7, <3>1, <3>2
  <2>11. (focused # NoPage => focused \in ui_open)' /\ (grabbed => focused # NoPage)'
    BY <2>1 DEF FocusInv, InputNeverStuck
  <2> QED BY <2>7, <2>8, <2>9, <2>10, <2>11 DEF FocusInv, InputNeverStuck
<1>4. CASE drain
  <2>1. /\ drained' = drained + Len(messages) /\ messages' = <<>>
        /\ UNCHANGED <<ui_open, focused, grabbed, messageCount, dropped>>
    BY <1>4 DEF drain
  <2>2. /\ Len(messages) \in Nat /\ messageCount \in Nat /\ dropped \in Nat /\ drained \in Nat
        /\ messageCount = Len(messages) + drained + dropped
    BY DEF FocusInv, InputNeverStuck
  <2>3. messages' \in Seq(Nat) /\ Len(messages') = 0 /\ DOMAIN messages' = {}
    BY <2>1
  <2>4. drained' \in Nat /\ messageCount' = Len(messages') + drained' + dropped' /\ Len(messages') <= QueueCap
    BY <1>0, <2>1, <2>2, <2>3
  <2> QED BY <2>1, <2>3, <2>4 DEF FocusInv, InputNeverStuck
<1>5. CASE UNCHANGED focusVars
  BY <1>5 DEF focusVars, FocusInv, InputNeverStuck
<1> QED BY <1>1, <1>2, <1>3, <1>4, <1>5 DEF FocusNext

-----------------------------------------------------------------------------
(* Textures and key bindings. *)

TextureOK(t) == DOMAIN t = {"width", "url"} /\ t.width \in 1..MaxDim

DeviceInv ==
    /\ \A t \in DOMAIN textures : TextureOK(textures[t])
    /\ IsFiniteSet(DOMAIN bindings)
    /\ \A id \in DOMAIN bindings :
         bindings[id] \in Claims /\ (bindings[id].key = ConsoleKey => everAllowed)
    /\ allow_console => everAllowed

LEMMA DeviceStep == DeviceInv /\ [DeviceNext]_deviceVars => DeviceInv'
<1> SUFFICES ASSUME DeviceInv, [DeviceNext]_deviceVars PROVE DeviceInv'
  OBVIOUS
<1>1. ASSUME NEW t, destroy_texture(t) PROVE DeviceInv'
  BY <1>1 DEF destroy_texture, Without, bindingVars, DeviceInv, TextureOK
<1>2. ASSUME NEW t, NEW w, create_texture(t, w) PROVE DeviceInv'
  <2> DEFINE n == [width |-> w, url |-> ""]
  <2>1. TextureOK(n)
    BY <1>2 DEF create_texture, TextureOK
  <2>2. textures' = With(textures, t, n) /\ UNCHANGED bindingVars
    BY <1>2 DEF create_texture
  <2> HIDE DEF n
  <2>3. \A x \in DOMAIN textures' : TextureOK(textures'[x])
    BY <2>1, <2>2 DEF With, DeviceInv
  <2> QED BY <2>2, <2>3 DEF DeviceInv, bindingVars, TextureOK
<1>3. ASSUME NEW t, NEW url, navigate(t, url) PROVE DeviceInv'
  <2> DEFINE n == [textures[t] EXCEPT !.url = url]
  <2>1. t \in DOMAIN textures /\ textures' = [textures EXCEPT ![t] = n] /\ UNCHANGED bindingVars
    BY <1>3 DEF navigate
  <2>2. TextureOK(n)
    BY <2>1 DEF DeviceInv, TextureOK
  <2> HIDE DEF n
  <2>3. \A x \in DOMAIN textures' : TextureOK(textures'[x])
    BY <2>1, <2>2 DEF DeviceInv
  <2> QED BY <2>1, <2>3 DEF DeviceInv, bindingVars, TextureOK
<1>4. ASSUME NEW on \in BOOLEAN, set_allow_console_key(on) PROVE DeviceInv'
  BY <1>4 DEF set_allow_console_key, DeviceInv, TextureOK
<1>5. ASSUME NEW claim \in Claims, bind(claim) PROVE DeviceInv'
  <2>1. bindings' = With(bindings, next_id, claim) /\ UNCHANGED <<textures, allow_console, everAllowed>> /\ Bindable(claim.key)
    BY <1>5 DEF bind
  <2>2. IsFiniteSet(DOMAIN bindings \cup {next_id})
    BY FS_AddElement DEF DeviceInv
  <2>3. DOMAIN bindings' = DOMAIN bindings \cup {next_id}
        /\ \A id \in DOMAIN bindings' : bindings'[id] = IF id = next_id THEN claim ELSE bindings[id]
    BY <2>1 DEF With
  <2>4. claim.key = ConsoleKey => everAllowed
    BY <2>1 DEF Bindable, DeviceInv
  <2> QED BY <2>1, <2>2, <2>3, <2>4 DEF DeviceInv, TextureOK
<1>6. ASSUME NEW id, unbind(id) PROVE DeviceInv'
  <2>1. DOMAIN bindings' = DOMAIN bindings \ {id} /\ (\A x \in DOMAIN bindings' : bindings'[x] = bindings[x])
        /\ UNCHANGED <<textures, allow_console, everAllowed>>
    BY <1>6 DEF unbind, Without
  <2>2. IsFiniteSet(DOMAIN bindings \ {id})
    BY FS_RemoveElement DEF DeviceInv
  <2> QED BY <2>1, <2>2 DEF DeviceInv, TextureOK
<1>7. CASE UNCHANGED deviceVars
  BY <1>7 DEF deviceVars, DeviceInv, TextureOK
<1> QED BY <1>1, <1>2, <1>3, <1>4, <1>5, <1>6, <1>7 DEF DeviceNext

LEMMA DeviceInvGives == DeviceInv => DevicesSafe
<1> SUFFICES ASSUME DeviceInv PROVE DevicesSafe
  OBVIOUS
<1>1. ASSUME NEW t \in DOMAIN textures, NEW x \in -1..(MaxDim + 1)
      PROVE  forward_mouse(t, x) \in 0..(textures[t].width - 1)
  <2>1. MaxDim \in Nat
    BY PresenceAssumption
  <2>2. PICK w \in Nat : w = textures[t].width /\ w >= 1
    BY <2>1 DEF DeviceInv, TextureOK
  <2>3. x \in Int
    BY <1>1, <2>1
  <2>4. PICK m \in Int : m = Min({x, w - 1}) /\ m <= w - 1
    <3>1. \E y \in {x, w - 1} : \A z \in {x, w - 1} : y =< z
      BY <2>2, <2>3
    <3>2. Min({x, w - 1}) \in {x, w - 1} /\ \A z \in {x, w - 1} : Min({x, w - 1}) =< z
      BY <3>1 DEF Min
    <3> QED BY <2>2, <2>3, <3>2
  <2>5. Max({0, m}) \in 0..(w - 1)
    <3>1. \E y \in {0, m} : \A z \in {0, m} : y >= z
      BY <2>4
    <3>2. Max({0, m}) \in {0, m} /\ \A z \in {0, m} : Max({0, m}) >= z
      BY <3>1 DEF Max
    <3> QED BY <2>2, <2>4, <3>2
  <2> QED BY <2>2, <2>4, <2>5 DEF forward_mouse
<1>2. \A c \in Claims : c.key = ConsoleKey /\ resolve_for(c) # {} => everAllowed
  BY DEF resolve_for, DeviceInv
<1>3. ASSUME NEW i \in DOMAIN bindings, NEW j \in DOMAIN bindings, i # j, bindings[i] = bindings[j]
      PROVE  \E e \in conflicts : {i, j} \subseteq e.claimants
  <2> DEFINE R == resolve_for(bindings[i])
  <2>1. IsFiniteSet(R)
    <3>1. R \in SUBSET DOMAIN bindings
      BY DEF resolve_for
    <3> QED BY <3>1, FS_Subset DEF DeviceInv
  <2>2. {i} \cup {j} \in SUBSET R
    BY <1>3 DEF resolve_for
  <2>3. Cardinality({i} \cup {j}) = 2
    <3>1. IsFiniteSet({i}) /\ Cardinality({i}) = 1 /\ j \notin {i}
      BY <1>3, FS_Singleton
    <3>2. Cardinality({i} \cup {j}) = Cardinality({i}) + 1
      BY <3>1, FS_AddElement
    <3> QED BY <3>1, <3>2
  <2>4. 2 <= Cardinality(R)
    BY <2>1, <2>2, <2>3, FS_Subset
  <2>5. Cardinality(R) > 1
    BY <2>1, <2>4, FS_CardinalityType
  <2> DEFINE e == [key |-> bindings[i].key, claimants |-> R]
  <2>6. bindings[i] \in Claims
    BY DEF DeviceInv
  <2>7. e \in conflicts
    BY <2>5, <2>6 DEF conflicts
  <2>8. {i, j} \subseteq e.claimants
    BY <2>2
  <2> QED BY <2>7, <2>8
<1>4. ASSUME NEW i \in DOMAIN bindings, NEW j \in DOMAIN bindings, NEW e \in conflicts, {i, j} \subseteq e.claimants
      PROVE  bindings[i] = bindings[j]
  <2>1. PICK c \in Claims : e = [key |-> c.key, claimants |-> resolve_for(c)]
    BY DEF conflicts
  <2>2. i \in resolve_for(c) /\ j \in resolve_for(c)
    BY <1>4, <2>1
  <2> QED BY <2>2 DEF resolve_for
<1>5. ASSUME NEW i \in DOMAIN bindings, NEW j \in DOMAIN bindings
      PROVE  bindings[i] = bindings[j] <=> bindings[i].key = bindings[j].key /\ bindings[i].press = bindings[j].press
  <2>1. bindings[i] \in Claims /\ bindings[j] \in Claims
    BY DEF DeviceInv
  <2>2. \A c, d \in Claims : c = d <=> c.key = d.key /\ c.press = d.press
    BY DEF Claims
  <2> QED BY <2>1, <2>2
<1>6. \A i, j \in DOMAIN bindings : i # j =>
         ((\E e \in conflicts : {i, j} \subseteq e.claimants) <=>
             bindings[i].key = bindings[j].key /\ bindings[i].press = bindings[j].press)
  BY <1>3, <1>4, <1>5
<1> QED BY <1>1, <1>2, <1>6 DEF DevicesSafe

-----------------------------------------------------------------------------
(* The machines of a player's presence, each moving as it likes. *)

PresenceSpec ==
    /\ VoiceInit /\ EventsInit /\ CallbackInit /\ FocusInit /\ DeviceInit
    /\ [][VoiceNext]_voiceVars /\ [][EventsNext]_eventVars /\ [][CallbackNext]_callbackVars
    /\ [][FocusNext]_focusVars /\ [][DeviceNext]_deviceVars

(* For any players, channels, pages, keys and sizes, and any even sequence *)
(* space: voice stays within the capacity of its channel, an envelope is   *)
(* delivered exactly if it is newer than the last across the wrap, a       *)
(* request is answered once, no closed page keeps the input, no message is *)
(* lost uncounted, the mouse stays inside the texture, and two bindings    *)
(* are reported as a conflict exactly if key and press type agree.         *)
THEOREM PresenceAlwaysSound == PresenceSpec => []PresenceSound
<1>1. VoiceInit => VoiceInv
  BY DEF VoiceInit, VoiceInv
<1>2. EventsInit => EventsInv
  <2>1. 0 - 0 < SeqSpace \div 2
    BY HalfSpace
  <2> QED BY <2>1 DEF EventsInit, EventsInv
<1>3. CallbackInit => CallbackInv
  BY DEF CallbackInit, CallbackInv, Taken
<1>4. FocusInit => FocusInv
  BY PresenceAssumption DEF FocusInit, FocusInv, InputNeverStuck
<1>5. DeviceInit => DeviceInv
  BY FS_EmptySet DEF DeviceInit, DeviceInv
<1>6. VoiceInv /\ EventsInv /\ CallbackInv /\ FocusInv /\ DeviceInv => PresenceSound
  BY VoiceInvGives, EventsInvGives, CallbackInvGives, DeviceInvGives DEF FocusInv, PresenceSound
<1> QED BY <1>1, <1>2, <1>3, <1>4, <1>5, <1>6, VoiceStep, EventsStep, CallbackStep, FocusStep, DeviceStep, PTL
        DEF PresenceSpec
=============================================================================
