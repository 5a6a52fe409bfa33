--------------------------- MODULE AdmissionProofs ---------------------------
(***************************************************************************)
(* Proofs about the admission queue for every number of players, slots,    *)
(* reserved slots and waiting places, and about admission for any peers    *)
(* and messages: the AdmissionManager lets nobody into the world without a *)
(* slot, and a client that runs holds one, whatever the network does to    *)
(* its packets.                                                            *)
(***************************************************************************)
EXTENDS AstrynJoin, FiniteSetTheorems, TLAPS

-----------------------------------------------------------------------------
(* The admission queue. *)

\* The inductive invariant: the four safety properties need each other.
QueueInv ==
    /\ QueueTypeOK
    /\ IsFiniteSet(playing)
    /\ SlotCaps
    /\ OnePlace
    /\ NoIdleSlot

\* Players without a reservation in a set of playing entries.
NonHolders(P) == {e \in P : ~e.holds}

(* Removing one position of a waitlist gives a sequence one shorter, whose
   entries are the old ones (VecDeque::remove). *)
LEMMA WithoutProperties ==
    ASSUME NEW S, NEW s \in Seq(S), NEW i \in DOMAIN s
    PROVE  /\ Without(s, i) \in Seq(S)
           /\ Len(Without(s, i)) = Len(s) - 1
           /\ \A j \in DOMAIN Without(s, i) :
                 Without(s, i)[j] = s[IF j < i THEN j ELSE j + 1]
  BY DEF Without

(* A step that keeps the playing set and turns the waitlist into a selection
   of its own entries keeps the invariant: queue_leave and expire_stale. *)
LEMMA SelectionKeepsInv ==
    ASSUME QueueInv, UNCHANGED playing,
           NEW n \in Nat, NEW f \in [1 .. n -> DOMAIN waitlist],
           n <= Len(waitlist),
           \A a, b \in 1 .. n : f[a] = f[b] => a = b,
           waitlist' = [k \in 1 .. n |-> waitlist[f[k]]]
    PROVE  QueueInv'
  <1>1. /\ waitlist' \in Seq(QueuedEntry)
        /\ Len(waitlist') = n
        /\ DOMAIN waitlist' = 1 .. n
    BY DEF QueueInv, QueueTypeOK
  <1>2. QueueTypeOK'
    BY <1>1, QueueConfigAssumption DEF QueueInv, QueueTypeOK
  <1>3. IsFiniteSet(playing)' /\ SlotCaps'
    BY DEF QueueInv, SlotCaps, open_slots
  <1>4. OnePlace'
    BY <1>1 DEF QueueInv, OnePlace, is_playing
  <1>5. NoIdleSlot'
    BY <1>1 DEF QueueInv, NoIdleSlot, slot_free_for, fits, open_slots
  <1>6. QED
    BY <1>2, <1>3, <1>4, <1>5 DEF QueueInv

(* Adding a player to a set of playing entries it is not in. *)
LEMMA AddPlayer ==
    ASSUME NEW P, IsFiniteSet(P), NEW p, NEW h \in BOOLEAN,
           \A e \in P : e.id # p
    PROVE  LET e == [id |-> p, holds |-> h]
           IN  /\ IsFiniteSet(P \cup {e})
               /\ Cardinality(P) \in Nat
               /\ Cardinality(P \cup {e}) = Cardinality(P) + 1
               /\ Cardinality(NonHolders(P)) \in Nat
               /\ Cardinality(NonHolders(P)) <= Cardinality(P)
               /\ Cardinality(NonHolders(P \cup {e}))
                     = Cardinality(NonHolders(P)) + (IF h THEN 0 ELSE 1)
  <1> DEFINE e == [id |-> p, holds |-> h]
  <1>1. e \notin P
    OBVIOUS
  <1>2. /\ IsFiniteSet(P \cup {e})
        /\ Cardinality(P \cup {e}) = Cardinality(P) + 1
        /\ Cardinality(P) \in Nat
    BY <1>1, FS_AddElement, FS_CardinalityType
  <1>3. /\ IsFiniteSet(NonHolders(P))
        /\ Cardinality(NonHolders(P)) <= Cardinality(P)
        /\ Cardinality(NonHolders(P)) \in Nat
    BY FS_Subset, FS_CardinalityType DEF NonHolders
  <1>4. CASE h
    <2>1. NonHolders(P \cup {e}) = NonHolders(P)
      BY <1>4 DEF NonHolders
    <2>2. QED
      BY <1>2, <1>3, <1>4, <2>1
  <1>5. CASE ~h
    <2>1. NonHolders(P \cup {e}) = NonHolders(P) \cup {e}
      BY <1>5 DEF NonHolders
    <2>2. e \notin NonHolders(P)
      BY <1>1 DEF NonHolders
    <2>3. Cardinality(NonHolders(P \cup {e})) = Cardinality(NonHolders(P)) + 1
      BY <1>3, <2>1, <2>2, FS_AddElement
    <2>4. QED
      BY <1>2, <1>3, <1>5, <2>3
  <1>6. QED
    BY <1>4, <1>5

(* Removing a playing entry. *)
LEMMA RemovePlayer ==
    ASSUME NEW P, IsFiniteSet(P), NEW e \in P
    PROVE  /\ IsFiniteSet(P \ {e})
           /\ Cardinality(P) \in Nat
           /\ Cardinality(P \ {e}) \in Nat
           /\ Cardinality(P \ {e}) = Cardinality(P) - 1
           /\ Cardinality(NonHolders(P \ {e})) <= Cardinality(NonHolders(P))
           /\ Cardinality(NonHolders(P \ {e})) \in Nat
           /\ Cardinality(NonHolders(P)) \in Nat
  <1>1. /\ IsFiniteSet(P \ {e})
        /\ Cardinality(P \ {e}) = Cardinality(P) - 1
        /\ Cardinality(P \ {e}) \in Nat
        /\ Cardinality(P) \in Nat
    BY FS_RemoveElement, FS_CardinalityType
  <1>2. IsFiniteSet(NonHolders(P)) /\ IsFiniteSet(NonHolders(P \ {e}))
    BY <1>1, FS_Subset DEF NonHolders
  <1>3. NonHolders(P \ {e}) \in SUBSET NonHolders(P)
    BY DEF NonHolders
  <1>4. QED
    BY <1>1, <1>2, <1>3, FS_Subset, FS_CardinalityType

-----------------------------------------------------------------------------
LEMMA JoinAdmittedKeepsInv ==
    ASSUME QueueInv, NEW p \in Players, NEW h \in BOOLEAN, JoinAdmitted(p, h)
    PROVE  QueueInv'
  <1> DEFINE e == [id |-> p, holds |-> h]
  <1>1. /\ playing' = playing \cup {e}
        /\ waitlist' = waitlist
        /\ \A x \in playing : x.id # p
        /\ \A i \in DOMAIN waitlist : waitlist[i].id # p
        /\ slot_free_for(h)
    BY DEF JoinAdmitted, AlreadyPresent, is_playing, is_queued
  <1>2. /\ IsFiniteSet(playing')
        /\ Cardinality(playing) \in Nat
        /\ Cardinality(playing') = Cardinality(playing) + 1
        /\ Cardinality(NonHolders(playing)) \in Nat
        /\ Cardinality(NonHolders(playing)) <= Cardinality(playing)
        /\ Cardinality(NonHolders(playing'))
              = Cardinality(NonHolders(playing)) + (IF h THEN 0 ELSE 1)
    BY <1>1, AddPlayer DEF QueueInv
  <1>3. QueueTypeOK'
    BY <1>1 DEF QueueInv, QueueTypeOK, PlayingEntry
  <1>4. SlotCaps'
    BY <1>1, <1>2, QueueConfigAssumption
       DEF QueueInv, SlotCaps, slot_free_for, fits, open_slots, NonHolders
  <1>5. OnePlace'
    BY <1>1 DEF QueueInv, OnePlace, is_playing
  <1>6. NoIdleSlot'
    BY <1>1, <1>2, QueueConfigAssumption
       DEF QueueInv, QueueTypeOK, QueuedEntry, NoIdleSlot, slot_free_for, fits,
           open_slots
  <1>7. QED
    BY <1>2, <1>3, <1>4, <1>5, <1>6 DEF QueueInv

LEMMA JoinQueuedKeepsInv ==
    ASSUME QueueInv, NEW p \in Players, NEW h \in BOOLEAN, NEW t \in Times,
           JoinQueued(p, h, t)
    PROVE  QueueInv'
  <1> DEFINE e == [id |-> p, holds |-> h, at |-> t]
  <1>1. /\ playing' = playing
        /\ waitlist' = Append(waitlist, e)
        /\ Len(waitlist) < MaxQueueLen
        /\ \A x \in playing : x.id # p
        /\ \A i \in DOMAIN waitlist : waitlist[i].id # p
        /\ ~slot_free_for(h)
    BY DEF JoinQueued, AlreadyPresent, is_playing, is_queued
  <1>2. e \in QueuedEntry
    BY DEF QueuedEntry
  <1>3. /\ waitlist' \in Seq(QueuedEntry)
        /\ Len(waitlist') = Len(waitlist) + 1
        /\ DOMAIN waitlist = 1 .. Len(waitlist)
        /\ DOMAIN waitlist' = 1 .. (Len(waitlist) + 1)
        /\ \A i \in DOMAIN waitlist : waitlist'[i] = waitlist[i]
        /\ waitlist'[Len(waitlist) + 1] = e
        /\ Len(waitlist) \in Nat
    BY <1>1, <1>2 DEF QueueInv, QueueTypeOK
  <1>4. QueueTypeOK'
    BY <1>1, <1>3, QueueConfigAssumption DEF QueueInv, QueueTypeOK
  <1>5. IsFiniteSet(playing)' /\ SlotCaps'
    BY <1>1 DEF QueueInv, SlotCaps, open_slots
  <1>6. OnePlace'
    <2>1. \A i \in DOMAIN waitlist' : i \in DOMAIN waitlist \/ i = Len(waitlist) + 1
      BY <1>3
    <2>2. QED
      BY <1>1, <1>3, <2>1 DEF QueueInv, OnePlace, is_playing
  <1>7. NoIdleSlot'
    BY <1>1, <1>3 DEF QueueInv, NoIdleSlot, slot_free_for, fits, open_slots
  <1>8. QED
    BY <1>4, <1>5, <1>6, <1>7 DEF QueueInv

LEMMA PlayingLeaveKeepsInv ==
    ASSUME QueueInv, NEW p \in Players, playing_leave(p)
    PROVE  QueueInv'
  <1>1. PICK e \in playing : e.id = p /\ promote_front_fit(playing \ {e})
    BY DEF playing_leave
  <1> DEFINE rest == playing \ {e}
             fit  == {i \in DOMAIN waitlist :
                        fits(Cardinality(rest), waitlist[i].holds)}
  <1>2. /\ IsFiniteSet(rest)
        /\ Cardinality(playing) \in Nat
        /\ Cardinality(rest) \in Nat
        /\ Cardinality(rest) = Cardinality(playing) - 1
        /\ Cardinality(NonHolders(rest)) <= Cardinality(NonHolders(playing))
        /\ Cardinality(NonHolders(rest)) \in Nat
        /\ Cardinality(NonHolders(playing)) \in Nat
    BY RemovePlayer DEF QueueInv
  <1>3. CASE fit = {} /\ playing' = rest /\ UNCHANGED waitlist
    <2>1. QueueTypeOK'
      BY <1>3 DEF QueueInv, QueueTypeOK
    <2>2. IsFiniteSet(playing') /\ SlotCaps'
      BY <1>2, <1>3, QueueConfigAssumption
         DEF QueueInv, SlotCaps, open_slots, NonHolders
    <2>3. OnePlace'
      BY <1>3 DEF QueueInv, OnePlace, is_playing
    <2>4. NoIdleSlot'
      BY <1>3 DEF NoIdleSlot, slot_free_for, fits, open_slots
    <2>5. QED
      BY <2>1, <2>2, <2>3, <2>4 DEF QueueInv
  <1>4. ASSUME NEW i \in fit,
               playing' = rest \cup {[id |-> waitlist[i].id,
                                      holds |-> waitlist[i].holds]},
               waitlist' = Without(waitlist, i)
        PROVE  QueueInv'
    <2> DEFINE w == waitlist[i]
    <2>1. /\ i \in DOMAIN waitlist
          /\ fits(Cardinality(rest), w.holds)
          /\ w.id \in Players
          /\ w.holds \in BOOLEAN
      <3>1. i \in DOMAIN waitlist /\ fits(Cardinality(rest), w.holds)
        OBVIOUS
      <3>2. waitlist \in Seq(QueuedEntry)
        BY DEF QueueInv, QueueTypeOK
      <3>3. w \in QueuedEntry
        BY <3>1, <3>2
      <3>4. QED
        BY <3>1, <3>3 DEF QueuedEntry
    <2>2. \A x \in rest : x.id # w.id
      BY <2>1 DEF QueueInv, OnePlace, is_playing
    <2>3. /\ IsFiniteSet(playing')
          /\ Cardinality(playing') = Cardinality(rest) + 1
          /\ Cardinality(NonHolders(rest)) <= Cardinality(rest)
          /\ Cardinality(NonHolders(playing'))
                = Cardinality(NonHolders(rest)) + (IF w.holds THEN 0 ELSE 1)
      BY <1>2, <1>4, <2>1, <2>2, AddPlayer
    <2>4. /\ waitlist' \in Seq(QueuedEntry)
          /\ Len(waitlist') = Len(waitlist) - 1
          /\ Len(waitlist) \in Nat
          /\ \A j \in DOMAIN waitlist' :
                waitlist'[j] = waitlist[IF j < i THEN j ELSE j + 1]
      BY <1>4, <2>1, WithoutProperties DEF QueueInv, QueueTypeOK
    <2>5. QueueTypeOK'
      BY <1>4, <2>1, <2>4, QueueConfigAssumption
         DEF QueueInv, QueueTypeOK, PlayingEntry
    <2>6. SlotCaps'
      BY <1>2, <2>1, <2>3, QueueConfigAssumption
         DEF QueueInv, SlotCaps, fits, open_slots, NonHolders
    <2>7. OnePlace'
      <3>1. \A j \in DOMAIN waitlist' :
               /\ (IF j < i THEN j ELSE j + 1) \in DOMAIN waitlist
               /\ (IF j < i THEN j ELSE j + 1) # i
               /\ j \in Int
        BY <2>1, <2>4 DEF QueueInv, QueueTypeOK
      <3>2. \A j, k \in DOMAIN waitlist' :
               waitlist'[j].id = waitlist'[k].id => j = k
        BY <2>1, <2>4, <3>1 DEF QueueInv, QueueTypeOK, OnePlace
      <3>3. \A j \in DOMAIN waitlist' : waitlist'[j].id # w.id
        BY <2>1, <2>4, <3>1 DEF QueueInv, OnePlace
      <3>4. \A j \in DOMAIN waitlist' : \A x \in rest : x.id # waitlist'[j].id
        BY <2>4, <3>1 DEF QueueInv, OnePlace, is_playing
      <3>5. \A x, y \in playing' : x.id = y.id => x = y
        BY <1>4, <2>2 DEF QueueInv, OnePlace
      <3>6. QED
        BY <1>4, <3>2, <3>3, <3>4, <3>5 DEF OnePlace, is_playing
    <2>8. NoIdleSlot'
      <3>1. Cardinality(playing') = Cardinality(playing)
        BY <1>2, <2>3
      <3>2. \A j \in DOMAIN waitlist' :
               (IF j < i THEN j ELSE j + 1) \in DOMAIN waitlist
        BY <2>1, <2>4 DEF QueueInv, QueueTypeOK
      <3>3. QED
        BY <2>4, <3>1, <3>2 DEF QueueInv, NoIdleSlot, slot_free_for, fits, open_slots
    <2>9. QED
      BY <2>3, <2>5, <2>6, <2>7, <2>8 DEF QueueInv
  <1>5. QED
    BY <1>1, <1>3, <1>4 DEF promote_front_fit

LEMMA QueueLeaveKeepsInv ==
    ASSUME QueueInv, NEW p \in Players, queue_leave(p)
    PROVE  QueueInv'
  <1>1. PICK i \in DOMAIN waitlist :
           waitlist' = Without(waitlist, i) /\ UNCHANGED playing
    BY DEF queue_leave
  <1> DEFINE n == Len(waitlist) - 1
             f == [k \in 1 .. n |-> IF k < i THEN k ELSE k + 1]
  <1>2. /\ n \in Nat
        /\ n <= Len(waitlist)
        /\ f \in [1 .. n -> DOMAIN waitlist]
        /\ \A a, b \in 1 .. n : f[a] = f[b] => a = b
        /\ waitlist' = [k \in 1 .. n |-> waitlist[f[k]]]
    BY <1>1 DEF QueueInv, QueueTypeOK, Without
  <1>3. QED
    BY <1>1, <1>2, SelectionKeepsInv

LEMMA ExpireStaleKeepsInv ==
    ASSUME QueueInv, NEW t \in Times, expire_stale(t)
    PROVE  QueueInv'
  <1> DEFINE kept == {i \in DOMAIN waitlist : ~stale(waitlist[i], t)}
             n == Cardinality(kept)
  <1>1. PICK f \in Ascending(kept) :
           waitlist' = [k \in 1 .. n |-> waitlist[f[k]]]
    BY DEF expire_stale
  <1>2. UNCHANGED playing
    BY DEF expire_stale
  <1>3. n \in Nat /\ n <= Len(waitlist)
    <2>1. /\ DOMAIN waitlist = 1 .. Len(waitlist)
          /\ Len(waitlist) \in Nat
      BY DEF QueueInv, QueueTypeOK
    <2>2. /\ IsFiniteSet(DOMAIN waitlist)
          /\ Cardinality(DOMAIN waitlist) = Len(waitlist)
      <3>1. 1 \in Int /\ Len(waitlist) \in Int
        BY <2>1
      <3>2. /\ IsFiniteSet(1 .. Len(waitlist))
            /\ Cardinality(1 .. Len(waitlist))
                  = IF 1 > Len(waitlist) THEN 0 ELSE Len(waitlist) - 1 + 1
        BY <3>1, FS_Interval, Zenon
      <3>3. (IF 1 > Len(waitlist) THEN 0 ELSE Len(waitlist) - 1 + 1) = Len(waitlist)
        BY <2>1
      <3>4. QED
        BY <2>1, <3>2, <3>3, Zenon
    <2>3. kept \in SUBSET DOMAIN waitlist
      OBVIOUS
    <2>4. QED
      BY <2>2, <2>3, FS_Subset, FS_CardinalityType
  <1>4. /\ f \in [1 .. n -> DOMAIN waitlist]
        /\ \A a, b \in 1 .. n : f[a] = f[b] => a = b
    <2>1. /\ f \in [1 .. n -> kept]
          /\ \A a, b \in 1 .. n : a < b => f[a] < f[b]
      BY <1>1 DEF Ascending
    <2>2. f \in [1 .. n -> DOMAIN waitlist] /\ DOMAIN waitlist \subseteq Nat
      BY <2>1 DEF QueueInv, QueueTypeOK
    <2>3. QED
      BY <1>3, <2>1, <2>2
  <1>5. QED
    BY <1>1, <1>2, <1>3, <1>4, SelectionKeepsInv

-----------------------------------------------------------------------------
(* The invariant of the queue: one step per operation of ald-queue. *)
THEOREM QueueInvariant == QueueSpec => []QueueInv
  <1>1. QueueInit => QueueInv
    BY FS_EmptySet, QueueConfigAssumption
       DEF QueueInit, QueueInv, QueueTypeOK, SlotCaps, OnePlace, NoIdleSlot,
           is_playing, open_slots
  <1>2. QueueInv /\ [QueueNext]_queueVars => QueueInv'
    <2> SUFFICES ASSUME QueueInv, [QueueNext]_queueVars
                 PROVE  QueueInv'
      OBVIOUS
    <2>1. CASE UNCHANGED queueVars
      BY <2>1 DEF queueVars, QueueInv, QueueTypeOK, SlotCaps, OnePlace,
                  NoIdleSlot, is_playing, slot_free_for, fits, open_slots
    <2>2. ASSUME NEW p \in Players, NEW h \in BOOLEAN, JoinRejected(p, h)
          PROVE  QueueInv'
      BY <2>1, <2>2 DEF JoinRejected
    <2>3. QED
      BY <2>1, <2>2, JoinAdmittedKeepsInv, JoinQueuedKeepsInv,
         PlayingLeaveKeepsInv, QueueLeaveKeepsInv, ExpireStaleKeepsInv
         DEF QueueNext
  <1>3. QED
    BY <1>1, <1>2, PTL DEF QueueSpec

(* The types of the queue: entries are well formed and the waitlist never
   outgrows max_queue_len. *)
THEOREM QueueTypeCorrect == QueueSpec => []QueueTypeOK
  BY QueueInvariant, PTL DEF QueueInv

(* No oversold slot, no reserved slot given away, for every configuration
   QueueConfig::new accepts. *)
THEOREM NoOversoldSlot == QueueSpec => []SlotCaps
  BY QueueInvariant, PTL DEF QueueInv

(* A player id is in one place only. *)
THEOREM OnePlacePerPlayer == QueueSpec => []OnePlace
  BY QueueInvariant, PTL DEF QueueInv

(* No slot is idle while someone waits who may take it. *)
THEOREM NoSlotLeftIdle == QueueSpec => []NoIdleSlot
  BY QueueInvariant, PTL DEF QueueInv

-----------------------------------------------------------------------------
(* The waitlist read as a set, as the refinement mapping reads it. *)
Seen(e) == [id |-> e.id, holds |-> e.holds]

(* As many guests stand as the waitlist is long, or fewer: the length that
   Queue::join compares with max_queue_len bounds the set. *)
LEMMA WaitingBound ==
    ASSUME QueueInv
    PROVE  Cardinality(Waiting) \in Nat /\ Cardinality(Waiting) <= Len(waitlist)
  <1> DEFINE n == Len(waitlist)
             f == [i \in 1 .. n |-> Seen(waitlist[i])]
  <1>1. n \in Nat /\ DOMAIN waitlist = 1 .. n
    BY DEF QueueInv, QueueTypeOK
  <1>2. Waiting = {Seen(waitlist[i]) : i \in 1 .. n}
    BY <1>1 DEF Waiting, Seen
  <1>3. f \in Surjection(1 .. n, Waiting)
    BY <1>2 DEF Surjection
  <1>4. ExistsSurjection(1 .. n, Waiting)
    BY <1>3 DEF ExistsSurjection
  <1>5. IsFiniteSet(1 .. n)
    <2>1. 1 \in Int /\ n \in Int
      BY <1>1
    <2>2. QED
      BY <2>1, FS_Interval
  <1>6. IsFiniteSet(Waiting)
    BY <1>3, <1>5, FS_Surjection
  <1>7. QED
    BY <1>1, <1>4, <1>6, FS_SurjCardinalityBound, FS_CardinalityType

(* Known of the slot server is AlreadyPresent of the queue. *)
LEMMA KnownIsPresent ==
    ASSUME NEW p PROVE Slots!Known(p) <=> AlreadyPresent(p)
  <1>1. (\E g \in Waiting : g.id = p) <=> is_queued(p)
    <2>1. ASSUME NEW i \in DOMAIN waitlist
          PROVE  Seen(waitlist[i]) \in Waiting /\ Seen(waitlist[i]).id = waitlist[i].id
      BY DEF Waiting, Seen
    <2>2. ASSUME NEW g \in Waiting
          PROVE  \E i \in DOMAIN waitlist : waitlist[i].id = g.id
      BY DEF Waiting
    <2>3. QED
      BY <2>1, <2>2 DEF is_queued
  <1>2. QED
    BY <1>1 DEF Slots!Known, AlreadyPresent, is_playing

(* Suits of the slot server is the queue's test of a free slot. *)
LEMMA SuitsIsFits ==
    ASSUME NEW S, NEW p, NEW h \in BOOLEAN
    PROVE  Slots!Suits(S, [id |-> p, holds |-> h]) <=> fits(Cardinality(S), h)
  BY DEF Slots!Suits, fits, open_slots

(* Removing one position from the waitlist removes that guest, and no other,
   from those who stand: an id waits once. *)
LEMMA WithoutOne ==
    ASSUME QueueInv, NEW i \in DOMAIN waitlist, waitlist' = Without(waitlist, i)
    PROVE  Waiting' = Waiting \ {Seen(waitlist[i])}
  <1>1. /\ Len(waitlist) \in Nat
        /\ DOMAIN waitlist = 1 .. Len(waitlist)
        /\ DOMAIN waitlist' = 1 .. (Len(waitlist) - 1)
        /\ \A j \in DOMAIN waitlist' :
              waitlist'[j] = waitlist[IF j < i THEN j ELSE j + 1]
    BY DEF QueueInv, QueueTypeOK, Without
  <1>2. Waiting' = {Seen(waitlist'[j]) : j \in DOMAIN waitlist'}
    BY DEF Waiting, Seen
  <1>3. Waiting = {Seen(waitlist[j]) : j \in DOMAIN waitlist}
    BY DEF Waiting, Seen
  <1>4. ASSUME NEW j \in DOMAIN waitlist'
        PROVE  Seen(waitlist'[j]) \in Waiting \ {Seen(waitlist[i])}
    <2> DEFINE k == IF j < i THEN j ELSE j + 1
    <2>1. k \in DOMAIN waitlist /\ k # i /\ waitlist'[j] = waitlist[k]
      BY <1>1, <1>4
    <2>2. waitlist[k].id # waitlist[i].id
      BY <2>1 DEF QueueInv, OnePlace
    <2>3. Seen(waitlist[k]) # Seen(waitlist[i])
      BY <2>2 DEF Seen
    <2>4. QED
      BY <1>3, <2>1, <2>3
  <1>5. ASSUME NEW k \in DOMAIN waitlist, Seen(waitlist[k]) # Seen(waitlist[i])
        PROVE  \E j \in DOMAIN waitlist' : Seen(waitlist'[j]) = Seen(waitlist[k])
    <2> DEFINE j == IF k < i THEN k ELSE k - 1
    <2>1. k # i
      BY <1>5
    <2>2. j \in DOMAIN waitlist' /\ waitlist'[j] = waitlist[k]
      BY <1>1, <1>5, <2>1
    <2>3. QED
      BY <2>2
  <1>6. QED
    BY <1>2, <1>3, <1>4, <1>5

(* A departure from the queue, with its promotion, is one of the server's. *)
LEMMA LeaveIsDepart ==
    ASSUME QueueInv, NEW p \in Players, playing_leave(p)
    PROVE  Slots!SlotNext
  <1>1. PICK e \in playing : e.id = p /\ promote_front_fit(playing \ {e})
    BY DEF playing_leave
  <1> DEFINE rest == playing \ {e}
             fit  == {i \in DOMAIN waitlist : fits(Cardinality(rest), waitlist[i].holds)}
             next == {w \in Waiting : Slots!Suits(rest, w)}
  <1>2. \A i \in DOMAIN waitlist :
           /\ waitlist[i].holds \in BOOLEAN
           /\ Seen(waitlist[i]) \in Waiting
           /\ Slots!Suits(rest, Seen(waitlist[i])) <=> i \in fit
    <2>1. \A i \in DOMAIN waitlist :
             waitlist[i].holds \in BOOLEAN /\ Seen(waitlist[i]) \in Waiting
      <3>1. \A i \in DOMAIN waitlist : waitlist[i] \in QueuedEntry
        BY DEF QueueInv, QueueTypeOK
      <3>2. \A i \in DOMAIN waitlist : waitlist[i].holds \in BOOLEAN
        BY <3>1 DEF QueuedEntry
      <3>3. \A i \in DOMAIN waitlist : Seen(waitlist[i]) \in Waiting
        BY DEF Waiting, Seen
      <3>4. QED
        BY <3>2, <3>3
    <2>2. QED
      BY <2>1, SuitsIsFits DEF Seen
  <1>3. CASE fit = {} /\ playing' = rest /\ UNCHANGED waitlist
    <2>1. next = {}
      BY <1>2, <1>3 DEF Waiting, Seen
    <2>2. Slots!Depart(e)
      BY <1>3, <2>1 DEF Slots!Depart, Waiting
    <2>3. QED
      BY <2>2 DEF Slots!SlotNext
  <1>4. ASSUME NEW i \in fit,
               playing' = rest \cup {[id |-> waitlist[i].id,
                                      holds |-> waitlist[i].holds]},
               waitlist' = Without(waitlist, i)
        PROVE  Slots!SlotNext
    <2>1. Waiting' = Waiting \ {Seen(waitlist[i])}
      BY <1>4, WithoutOne
    <2>2. Seen(waitlist[i]) \in next /\ playing' = rest \cup {Seen(waitlist[i])}
      BY <1>2, <1>4 DEF Seen
    <2>3. Slots!Depart(e)
      BY <2>1, <2>2 DEF Slots!Depart
    <2>4. QED
      BY <2>3 DEF Slots!SlotNext
  <1>5. QED
    BY <1>1, <1>3, <1>4 DEF promote_front_fit

(* The queue implements the slot server for every configuration: every call
   of Queue is a step of it, or changes nothing it speaks of. *)
THEOREM QueueImplementsSlots == QueueSpec => ImplementsSlots
  <1>1. QueueInit => Slots!SlotInit
    BY DEF QueueInit, Slots!SlotInit, Waiting
  <1>2. QueueInv /\ [QueueNext]_queueVars => [Slots!SlotNext]_(Slots!slotVars)
    <2> SUFFICES ASSUME QueueInv, [QueueNext]_queueVars
                 PROVE  Slots!SlotNext \/ UNCHANGED Slots!slotVars
      OBVIOUS
    <2>1. CASE UNCHANGED queueVars
      BY <2>1 DEF queueVars, Slots!slotVars, Waiting
    <2>2. ASSUME NEW p \in Players, NEW h \in BOOLEAN, JoinAdmitted(p, h)
          PROVE  Slots!SlotNext
      <3> DEFINE g == [id |-> p, holds |-> h]
      <3>1. ~Slots!Known(g.id) /\ Slots!Suits(playing, g)
        BY <2>2, KnownIsPresent, SuitsIsFits DEF JoinAdmitted, slot_free_for
      <3>2. Slots!BeSeated(g)
        BY <2>2, <3>1 DEF JoinAdmitted, Slots!BeSeated, Waiting
      <3>3. g \in Slots!Guest
        BY DEF Slots!Guest
      <3>4. QED
        BY <3>2, <3>3 DEF Slots!SlotNext
    <2>3. ASSUME NEW p \in Players, NEW h \in BOOLEAN, NEW t \in Times, JoinQueued(p, h, t)
          PROVE  Slots!SlotNext
      <3> DEFINE g == [id |-> p, holds |-> h]
                 e == [id |-> p, holds |-> h, at |-> t]
      <3>1. ~Slots!Known(g.id) /\ ~Slots!Suits(playing, g)
        BY <2>3, KnownIsPresent, SuitsIsFits DEF JoinQueued, slot_free_for
      <3>2. Waiting' = Waiting \cup {g}
        <4>1. /\ Len(waitlist) \in Nat /\ DOMAIN waitlist = 1 .. Len(waitlist)
              /\ DOMAIN waitlist' = 1 .. (Len(waitlist) + 1)
              /\ \A j \in 1 .. Len(waitlist) : waitlist'[j] = waitlist[j]
              /\ waitlist'[Len(waitlist) + 1] = e
          BY <2>3 DEF JoinQueued, QueueInv, QueueTypeOK, QueuedEntry
        <4>2. DOMAIN waitlist' = DOMAIN waitlist \cup {Len(waitlist) + 1}
          BY <4>1
        <4>3. Seen(e) = g
          BY DEF Seen
        <4>4. Waiting' = {Seen(waitlist'[j]) : j \in DOMAIN waitlist'}
          BY DEF Waiting, Seen
        <4>5. Waiting = {Seen(waitlist[j]) : j \in DOMAIN waitlist}
          BY DEF Waiting, Seen
        <4>6. QED
          BY <4>1, <4>2, <4>3, <4>4, <4>5
      <3>3. Cardinality(Waiting) < MaxQueueLen
        BY <2>3, WaitingBound, QueueConfigAssumption DEF JoinQueued, QueueInv, QueueTypeOK
      <3>4. Slots!Stand(g) /\ g \in Slots!Guest
        BY <2>3, <3>1, <3>2, <3>3 DEF JoinQueued, Slots!Stand, Slots!Guest
      <3>5. QED
        BY <3>4 DEF Slots!SlotNext
    <2>4. ASSUME NEW p \in Players, queue_leave(p)
          PROVE  Slots!SlotNext
      <3>1. PICK i \in DOMAIN waitlist :
               waitlist' = Without(waitlist, i) /\ UNCHANGED playing
        BY <2>4 DEF queue_leave
      <3>2. Waiting' = Waiting \ {Seen(waitlist[i])} /\ Seen(waitlist[i]) \in Waiting
        BY <3>1, WithoutOne DEF Waiting, Seen
      <3>3. Slots!GoAway({Seen(waitlist[i])})
        BY <3>1, <3>2 DEF Slots!GoAway
      <3>4. QED
        BY <3>2, <3>3 DEF Slots!SlotNext
    <2>5. ASSUME NEW t \in Times, expire_stale(t)
          PROVE  Slots!SlotNext
      <3>1. Waiting' \subseteq Waiting /\ UNCHANGED playing
        <4> DEFINE kept == {i \in DOMAIN waitlist : ~stale(waitlist[i], t)}
                   n == Cardinality(kept)
        <4>1. PICK f \in Ascending(kept) :
                 waitlist' = [k \in 1 .. n |-> waitlist[f[k]]]
          BY <2>5 DEF expire_stale
        <4>2. f \in [1 .. n -> DOMAIN waitlist]
          BY DEF Ascending
        <4>3. \A k \in DOMAIN waitlist' : f[k] \in DOMAIN waitlist /\ waitlist'[k] = waitlist[f[k]]
          BY <4>1, <4>2
        <4>4. QED
          BY <2>5, <4>3 DEF expire_stale, Waiting
      <3>2. Slots!GoAway(Waiting \ Waiting')
        BY <3>1 DEF Slots!GoAway
      <3>3. QED
        BY <3>2 DEF Slots!SlotNext
    <2>6. ASSUME NEW p \in Players, NEW h \in BOOLEAN, JoinRejected(p, h)
          PROVE  UNCHANGED queueVars
      BY <2>6 DEF JoinRejected
    <2>7. QED
      BY <2>1, <2>2, <2>3, <2>4, <2>5, <2>6, LeaveIsDepart DEF QueueNext
  <1>3. QED
    BY <1>1, <1>2, QueueInvariant, PTL DEF QueueSpec, ImplementsSlots, Slots!SlotSpec

-----------------------------------------------------------------------------
(* What NoOvertaking says of one step. *)
FairStep ==
    \A e \in playing' \ playing :
       \A i \in DOMAIN waitlist :
          (/\ waitlist[i].holds = e.holds
           /\ waitlist[i].id # e.id)
          => \E j \in 1 .. (i - 1) : waitlist[j].id = e.id

(* The promotion of Queue::playing_leave overtakes nobody: it takes the first
   entry that fits, and entries of a class fit together or not at all. *)
LEMMA LeaveIsFair ==
    ASSUME QueueInv, NEW p \in Players, playing_leave(p)
    PROVE  FairStep
  <1>1. PICK d \in playing : promote_front_fit(playing \ {d})
    BY DEF playing_leave
  <1> DEFINE rest == playing \ {d}
             fit  == {i \in DOMAIN waitlist : fits(Cardinality(rest), waitlist[i].holds)}
  <1>2. CASE playing' = rest
    BY <1>2 DEF FairStep
  <1>3. ASSUME NEW i \in fit, \A j \in fit : i <= j,
               playing' = rest \cup {[id |-> waitlist[i].id,
                                      holds |-> waitlist[i].holds]}
        PROVE  FairStep
    <2>1. SUFFICES ASSUME NEW k \in DOMAIN waitlist,
                          waitlist[k].holds = waitlist[i].holds,
                          waitlist[k].id # waitlist[i].id
                   PROVE  \E j \in 1 .. (k - 1) : waitlist[j].id = waitlist[i].id
      BY <1>3 DEF FairStep
    <2>2. k \in fit /\ k # i
      BY <2>1
    <2>3. i \in Nat \ {0} /\ k \in Nat
      BY <2>1 DEF QueueInv, QueueTypeOK
    <2>4. i <= k
      BY <1>3, <2>2, Zenon
    <2>5. i \in 1 .. (k - 1)
      <3> HIDE DEF fit
      <3>1. QED
        BY <2>2, <2>3, <2>4
    <2>6. QED
      BY <2>5
  <1>4. QED
    BY <1>1, <1>2, <1>3 DEF promote_front_fit

(* Nobody is overtaken within a class, for every configuration: a newcomer is
   let in only when no one of its class waits (NoIdleSlot), and a promotion
   takes the first of its class. *)
THEOREM NobodyOvertaken == QueueSpec => NoOvertaking
  <1>1. QueueInv /\ [QueueNext]_queueVars => [FairStep]_queueVars
    <2> SUFFICES ASSUME QueueInv, QueueNext
                 PROVE  FairStep
      BY DEF QueueNext
    <2>1. ASSUME NEW p \in Players, NEW h \in BOOLEAN, JoinAdmitted(p, h)
          PROVE  FairStep
      <3>1. \A i \in DOMAIN waitlist : waitlist[i].holds # h
        BY <2>1 DEF JoinAdmitted, QueueInv, NoIdleSlot
      <3>2. \A e \in playing' \ playing : e.holds = h
        BY <2>1 DEF JoinAdmitted
      <3>3. QED
        BY <3>1, <3>2 DEF FairStep
    <2>2. CASE UNCHANGED playing
      BY <2>2 DEF FairStep
    <2>3. ASSUME NEW p \in Players, playing_leave(p)
          PROVE  FairStep
      BY <2>3, LeaveIsFair
    <2>4. QED
      BY <2>1, <2>2, <2>3
         DEF QueueNext, JoinQueued, JoinRejected, queue_leave, expire_stale, queueVars
  <1>2. QED
    BY <1>1, QueueInvariant, PTL DEF QueueSpec, NoOvertaking, FairStep

-----------------------------------------------------------------------------
(* The manager and the client. *)

(* AdmissionSound needs the types, for a Ready session's id to be an       *)
(* account's; the queue's own invariant comes along, since the manager     *)
(* calls nothing but join. *)
AdmissionInv ==
    /\ QueueInv
    /\ AdmissionTypeOK
    /\ WorldHoldsSlot
    /\ OneReadyPeer

(* Nothing a server does takes a slot away: it never calls remove. *)
KeepsPlaying == \A p : is_playing(p) => is_playing(p)'

(* The outcomes of Queue::join keep the queue's invariant and its players. *)
LEMMA JoinOutcome ==
    ASSUME QueueInv, NEW p \in Players, NEW t \in Times,
           JoinAdmitted(p, FALSE) \/ JoinQueued(p, FALSE, t) \/ JoinRejected(p, FALSE) \/ UNCHANGED queueVars
    PROVE  QueueInv' /\ KeepsPlaying
<1>1. CASE JoinAdmitted(p, FALSE)
  BY <1>1, JoinAdmittedKeepsInv DEF JoinAdmitted, KeepsPlaying, is_playing
<1>2. CASE JoinQueued(p, FALSE, t)
  BY <1>2, JoinQueuedKeepsInv DEF JoinQueued, KeepsPlaying, is_playing
<1>3. CASE UNCHANGED queueVars
  BY <1>3 DEF queueVars, QueueInv, QueueTypeOK, SlotCaps, OnePlace, NoIdleSlot, is_playing, slot_free_for,
              fits, open_slots, KeepsPlaying
<1> QED
  BY <1>1, <1>2, <1>3 DEF JoinRejected

(* Whoever is admitted plays. *)
LEMMA AdmittedPlays ==
    ASSUME NEW p, NEW r, JoinAdmitted(p, r)
    PROVE  \E e \in playing' : e.id = p
<1> DEFINE e == [id |-> p, holds |-> r]
<1>1. e \in playing' /\ e.id = p
  BY DEF JoinAdmitted
<1> HIDE DEF e
<1> QED BY <1>1

(* A step that moves one session, to a state that is not Ready. *)
LEMMA NotReadyStep ==
    ASSUME AdmissionInv, QueueInv', KeepsPlaying, UNCHANGED online, NEW peer \in Peers,
           NEW s \in AdmissionSession, s.state # "Ready",
           sessions' = [sessions EXCEPT ![peer] = s], next_session' \in 1 .. (MaxSessions + 1)
    PROVE  AdmissionInv'
<1>1. sessions \in [Peers -> AdmissionSession] /\ online \subseteq Uuids
  BY DEF AdmissionInv, AdmissionTypeOK
<1>2. sessions' \in [Peers -> AdmissionSession] /\ sessions'[peer] = s
      /\ \A q \in Peers \ {peer} : sessions'[q] = sessions[q]
  BY <1>1
<1>3. AdmissionTypeOK'
  BY <1>1, <1>2 DEF AdmissionTypeOK, QueueInv
<1>4. WorldHoldsSlot'
  <2>1. \A q \in Peers : sessions'[q].state = "Ready" => is_playing(sessions[q].id)' /\ sessions'[q] = sessions[q]
    BY <1>2 DEF AdmissionInv, WorldHoldsSlot, KeepsPlaying
  <2>2. \A p \in online : is_playing(p)'
    BY DEF AdmissionInv, WorldHoldsSlot, KeepsPlaying
  <2> QED BY <2>1, <2>2 DEF WorldHoldsSlot, is_playing
<1>5. OneReadyPeer'
  BY <1>2 DEF AdmissionInv, OneReadyPeer
<1> QED BY <1>3, <1>4, <1>5 DEF AdmissionInv

(* A step that leaves the sessions alone. *)
LEMMA QuietSessions ==
    ASSUME AdmissionInv, QueueInv', KeepsPlaying, UNCHANGED <<sessions, next_session, online>>
    PROVE  AdmissionInv'
<1>1. AdmissionTypeOK'
  BY DEF AdmissionInv, AdmissionTypeOK, QueueInv
<1>2. WorldHoldsSlot'
  <2>1. /\ \A q \in Peers : sessions[q].state = "Ready" => is_playing(sessions[q].id)'
        /\ \A p \in online : is_playing(p)'
    BY DEF AdmissionInv, WorldHoldsSlot, KeepsPlaying
  <2> QED BY <2>1 DEF WorldHoldsSlot, is_playing
<1>3. OneReadyPeer'
  BY DEF AdmissionInv, OneReadyPeer
<1> QED BY <1>1, <1>2, <1>3 DEF AdmissionInv

(* SetState to a state other than Ready. *)
LEMMA SetStateStep ==
    ASSUME AdmissionInv, QueueInv', KeepsPlaying, UNCHANGED <<online, next_session>>, NEW peer \in Peers,
           NEW st \in HandshakeState \ {"Ready"}, SetState(peer, st)
    PROVE  AdmissionInv'
<1>1. sessions[peer] \in AdmissionSession /\ next_session \in 1 .. (MaxSessions + 1)
  BY DEF AdmissionInv, AdmissionTypeOK
<1> DEFINE s == [sessions[peer] EXCEPT !.state = st]
<1>2. s \in AdmissionSession /\ s.state = st
  BY <1>1 DEF AdmissionSession
<1>3. sessions' = [sessions EXCEPT ![peer] = s]
  BY DEF SetState
<1> QED BY <1>1, <1>2, <1>3, NotReadyStep

(* on_hello opens a new session, which is not Ready and has no account. *)
LEMMA HelloKeeps ==
    ASSUME AdmissionInv, NEW peer \in Peers, NEW current \in BOOLEAN, on_hello(peer, current)
    PROVE  AdmissionInv' /\ KeepsPlaying
<1>1. QueueInv' /\ KeepsPlaying
  BY DEF AdmissionInv, on_hello, queueVars, QueueInv, QueueTypeOK, SlotCaps, OnePlace, NoIdleSlot, is_playing,
         slot_free_for, fits, open_slots, KeepsPlaying
<1>2. CASE UNCHANGED <<sessions, next_session, online>>
  BY <1>1, <1>2, QuietSessions
<1>3. CASE current /\ next_session <= MaxSessions
  <2> DEFINE s == [state |-> "WaitingAuth", sid |-> next_session, id |-> Blank, queued |-> FALSE]
  <2>1. next_session \in 1 .. MaxSessions
    BY <1>3, AdmissionAssumption DEF AdmissionInv, AdmissionTypeOK
  <2>2. s \in AdmissionSession /\ s.state # "Ready"
    BY <2>1, AdmissionAssumption DEF AdmissionSession, HandshakeState
  <2>3. sessions' = [sessions EXCEPT ![peer] = s] /\ next_session' \in 1 .. (MaxSessions + 1) /\ UNCHANGED online
    BY <1>3, <2>1, AdmissionAssumption DEF on_hello
  <2> QED BY <1>1, <2>2, <2>3, NotReadyStep
<1> QED BY <1>1, <1>2, <1>3 DEF on_hello

(* on_auth binds a session to an account, and on_identity moves it on from *)
(* whatever state it is in. *)
LEMMA AuthKeeps ==
    ASSUME AdmissionInv, NEW peer \in Peers, NEW id \in Players \cup {Blank}, NEW resp, on_auth(peer, id, resp)
    PROVE  AdmissionInv' /\ KeepsPlaying
<1>1. QueueInv' /\ KeepsPlaying
  BY DEF AdmissionInv, on_auth, queueVars, QueueInv, QueueTypeOK, SlotCaps, OnePlace, NoIdleSlot, is_playing,
         slot_free_for, fits, open_slots, KeepsPlaying
<1>2. CASE UNCHANGED sessions
  BY <1>1, <1>2, QuietSessions DEF on_auth
<1>3. CASE SetState(peer, "Rejected")
  BY <1>1, <1>3, SetStateStep DEF on_auth, HandshakeState
<1>4. CASE sessions' = [sessions EXCEPT ![peer].state = "WaitingIdentity", ![peer].id = id]
  <2> DEFINE s == [sessions[peer] EXCEPT !.state = "WaitingIdentity", !.id = id]
  <2>1. sessions[peer] \in AdmissionSession /\ next_session \in 1 .. (MaxSessions + 1)
        /\ sessions \in [Peers -> AdmissionSession]
    BY DEF AdmissionInv, AdmissionTypeOK
  <2>2. s \in AdmissionSession /\ s.state # "Ready"
    BY <2>1 DEF AdmissionSession, HandshakeState
  <2>3. sessions' = [sessions EXCEPT ![peer] = s]
    BY <1>4, <2>1 DEF AdmissionSession
  <2> QED BY <1>1, <2>1, <2>2, <2>3, NotReadyStep DEF on_auth
<1> QED BY <1>1, <1>2, <1>3, <1>4 DEF on_auth

LEMMA IdentityKeeps ==
    ASSUME AdmissionInv, NEW peer \in Peers, NEW device \in BOOLEAN, on_identity(peer, device)
    PROVE  AdmissionInv' /\ KeepsPlaying
<1>1. QueueInv' /\ KeepsPlaying
  BY DEF AdmissionInv, on_identity, queueVars, QueueInv, QueueTypeOK, SlotCaps, OnePlace, NoIdleSlot,
         is_playing, slot_free_for, fits, open_slots, KeepsPlaying
<1>2. CASE UNCHANGED sessions
  BY <1>1, <1>2, QuietSessions DEF on_identity
<1>3. CASE SetState(peer, "Rejected") \/ SetState(peer, "WaitingQueue")
  BY <1>1, <1>3, SetStateStep DEF on_identity, HandshakeState
<1> QED BY <1>1, <1>2, <1>3 DEF on_identity

LEMMA EntitlementKeeps ==
    ASSUME AdmissionInv, NEW peer \in Peers, on_entitlement(peer)
    PROVE  AdmissionInv' /\ KeepsPlaying
<1>1. QueueInv' /\ KeepsPlaying
  BY DEF AdmissionInv, on_entitlement, queueVars, QueueInv, QueueTypeOK, SlotCaps, OnePlace, NoIdleSlot,
         is_playing, slot_free_for, fits, open_slots, KeepsPlaying
<1> QED BY <1>1, QuietSessions DEF on_entitlement

(* on_ready: whoever is made Ready has just been admitted under an account *)
(* that was not playing, hence was Ready nowhere else. *)
LEMMA ReadyKeeps ==
    ASSUME AdmissionInv, NEW peer \in Peers, NEW t \in Times, on_ready(peer, t)
    PROVE  AdmissionInv' /\ KeepsPlaying
<1> DEFINE id == sessions[peer].id
<1>t. /\ sessions \in [Peers -> AdmissionSession] /\ sessions[peer] \in AdmissionSession
      /\ id \in Players \cup {Blank} /\ online \subseteq Uuids /\ next_session' = next_session
      /\ QueueInv /\ next_session \in 1 .. (MaxSessions + 1)
  BY DEF AdmissionInv, AdmissionTypeOK, AdmissionSession, on_ready
<1>1. QueueInv' /\ KeepsPlaying
  <2>1. CASE UNCHANGED queueVars
    BY <1>t, <2>1 DEF queueVars, QueueInv, QueueTypeOK, SlotCaps, OnePlace, NoIdleSlot, is_playing,
                      slot_free_for, fits, open_slots, KeepsPlaying
  <2>2. CASE id \in Players /\ (JoinAdmitted(id, FALSE) \/ JoinQueued(id, FALSE, t) \/ JoinRejected(id, FALSE))
    BY <1>t, <2>2, JoinOutcome
  <2> QED BY <1>t, <2>1, <2>2 DEF on_ready
<1>2. CASE UNCHANGED <<sessions, online>>
  BY <1>1, <1>2, <1>t, QuietSessions
<1>3. CASE sessions[peer].state = "Ready" /\ register(id) /\ UNCHANGED sessions
  <2>1. is_playing(id)
    BY <1>3 DEF AdmissionInv, WorldHoldsSlot
  <2>2. online' \subseteq Uuids /\ \A p \in online' : p = id \/ p \in online
    BY <1>3, <1>t DEF register
  <2>3. AdmissionTypeOK' /\ OneReadyPeer'
    BY <1>1, <1>3, <1>t, <2>2 DEF AdmissionInv, AdmissionTypeOK, QueueInv, OneReadyPeer
  <2>4. WorldHoldsSlot'
    <3>1. \A q \in Peers : sessions[q].state = "Ready" => is_playing(sessions[q].id)'
      BY <1>1, <1>3 DEF AdmissionInv, WorldHoldsSlot, KeepsPlaying, is_playing
    <3>2. \A p \in online' : is_playing(p)'
      <4>1. \A p \in online' : is_playing(p)
        BY <2>1, <2>2 DEF AdmissionInv, WorldHoldsSlot
      <4> QED BY <1>1, <4>1 DEF KeepsPlaying
    <3> QED BY <1>3, <3>1, <3>2 DEF WorldHoldsSlot, is_playing
  <2> QED BY <1>1, <2>3, <2>4 DEF AdmissionInv
<1>4. CASE id # Blank /\ JoinAdmitted(id, FALSE) /\ SetState(peer, "Ready") /\ register(id)
  <2>1. /\ sessions' \in [Peers -> AdmissionSession]
        /\ sessions'[peer].id = id
        /\ \A q \in Peers \ {peer} : sessions'[q] = sessions[q]
    BY <1>4, <1>t DEF SetState, AdmissionSession, HandshakeState
  <2>2. ~is_playing(id) /\ is_playing(id)'
    <3>1. ~is_playing(id)
      BY <1>4 DEF JoinAdmitted, AlreadyPresent
    <3>2. \E e \in playing' : e.id = id
      BY <1>4, AdmittedPlays
    <3> QED BY <2>1, <3>1, <3>2 DEF is_playing
  <2>3. online' \subseteq Uuids /\ \A p \in online' : p = id \/ p \in online
    BY <1>4, <1>t DEF register
  <2>4. AdmissionTypeOK'
    BY <1>1, <1>t, <2>1, <2>3 DEF AdmissionTypeOK, QueueInv
  <2>5. WorldHoldsSlot'
    <3>1. \A q \in Peers \ {peer} : sessions'[q].state = "Ready" => is_playing(sessions[q].id)'
      BY <1>1, <2>1 DEF AdmissionInv, WorldHoldsSlot, KeepsPlaying
    <3>2. \A p \in online' : is_playing(p)'
      <4>1. \A p \in online : is_playing(p)'
        BY <1>1 DEF AdmissionInv, WorldHoldsSlot, KeepsPlaying
      <4> QED BY <2>1, <2>2, <2>3, <4>1 DEF is_playing
    <3> QED BY <2>1, <2>2, <3>1, <3>2 DEF WorldHoldsSlot, is_playing
  <2>6. OneReadyPeer'
    <3>1. \A q \in Peers \ {peer} : sessions[q].state = "Ready" => sessions[q].id # id
      BY <2>2 DEF AdmissionInv, WorldHoldsSlot
    <3> QED BY <2>1, <3>1 DEF AdmissionInv, OneReadyPeer
  <2> QED BY <1>1, <2>4, <2>5, <2>6 DEF AdmissionInv
<1>5. CASE sessions[peer].state # "Ready" /\ sessions' = [sessions EXCEPT ![peer].queued = TRUE] /\ UNCHANGED online
  <2> DEFINE s == [sessions[peer] EXCEPT !.queued = TRUE]
  <2>1. s \in AdmissionSession /\ s.state # "Ready" /\ sessions' = [sessions EXCEPT ![peer] = s]
    BY <1>5, <1>t DEF AdmissionSession
  <2> QED BY <1>1, <1>5, <1>t, <2>1, NotReadyStep
<1>6. CASE SetState(peer, "Rejected") /\ UNCHANGED online
  BY <1>1, <1>6, <1>t, SetStateStep DEF HandshakeState
<1> QED BY <1>1, <1>2, <1>3, <1>4, <1>5, <1>6 DEF on_ready

LEMMA AdmissionInitInv == AdmissionInit => AdmissionInv
<1> SUFFICES ASSUME AdmissionInit PROVE AdmissionInv
  OBVIOUS
<1>1. QueueInv
  BY FS_EmptySet, QueueConfigAssumption
  DEF AdmissionInit, QueueInit, QueueInv, QueueTypeOK, SlotCaps, OnePlace, NoIdleSlot, is_playing, open_slots
<1>2. AdmissionTypeOK /\ WorldHoldsSlot /\ OneReadyPeer
  BY <1>1, AdmissionAssumption
  DEF AdmissionInit, QueueInv, AdmissionTypeOK, AdmissionSession, HandshakeState, NoSession, WorldHoldsSlot, OneReadyPeer
<1> QED BY <1>1, <1>2 DEF AdmissionInv

(* One step per handler of AdmissionManager::handle. *)
THEOREM AdmissionInvariant == AdmissionSpec => []AdmissionInv
<1>1. AdmissionInv /\ [AdmissionNext]_admissionVars => AdmissionInv'
  <2> SUFFICES ASSUME AdmissionInv, [AdmissionNext]_admissionVars
               PROVE  AdmissionInv'
    OBVIOUS
  <2>1. CASE UNCHANGED admissionVars
    <3>1. QueueInv' /\ KeepsPlaying
      BY <2>1 DEF AdmissionInv, admissionVars, QueueInv, QueueTypeOK, SlotCaps, OnePlace, NoIdleSlot, is_playing,
                  slot_free_for, fits, open_slots, KeepsPlaying
    <3> QED BY <2>1, <3>1, QuietSessions DEF admissionVars
  <2>2. ASSUME NEW peer \in Peers, handle(peer)
        PROVE  AdmissionInv'
    BY <2>2, HelloKeeps, AuthKeeps, IdentityKeeps, EntitlementKeeps, ReadyKeeps DEF handle
  <2> QED BY <2>1, <2>2 DEF AdmissionNext, dropped
<1> QED BY <1>1, AdmissionInitInv, PTL DEF AdmissionSpec

(* Whoever the AdmissionManager let into the world holds a slot, and an    *)
(* account is in the world through one peer only: for any number of peers  *)
(* that repeat, reorder and share whatever messages and accounts they      *)
(* like. *)
THEOREM AdmissionIsSound == AdmissionSpec => []AdmissionSound
<1>1. AdmissionInv => AdmissionSound
  BY DEF AdmissionInv, AdmissionSound
<1> QED BY <1>1, AdmissionInvariant, PTL

(* The slots behind the handshake are those of the queue: whatever packets *)
(* come, no more than max_players play, and nobody idles beside a slot. *)
THEOREM AdmissionKeepsQueue == AdmissionSpec => [](SlotCaps /\ OnePlace /\ NoIdleSlot)
<1>1. AdmissionInv => SlotCaps /\ OnePlace /\ NoIdleSlot
  BY DEF AdmissionInv, QueueInv
<1> QED BY <1>1, AdmissionInvariant, PTL

-----------------------------------------------------------------------------
(* The join: the server above behind a network that loses, delays, repeats *)
(* and reorders packets.                                                   *)

MsgNames == {"ServerHello", "AuthChallenge", "AuthResult", "IdentityRequest", "DeferralDone",
             "EntitlementRequest", "EntitlementResult", "QueueAdmitted", "QueueUpdate",
             "ManifestOffer", "ServerReady", "Reject"}

Packet == [t : MsgNames, n : 0 .. MaxSessions]

(* A client acts on a ServerReady that may be late, so the invariant       *)
(* follows it from the account of the session, over the packets under way  *)
(* and the wait for the welcome event, to the client that runs.            *)
JoinInv ==
    /\ AdmissionInv
    /\ JoinTypeOK
    /\ to_client \in [Peers -> SUBSET Packet]
    /\ \A peer \in Peers : sessions[peer].id \in {Blank, peer}
    /\ \A peer \in Peers : \A m \in to_client[peer] : m.t = "ServerReady" => is_playing(peer)
    /\ \A peer \in Peers : cli[peer].pc \in {"welcome", "running"} => is_playing(peer)

(* What a step of the client of peer leaves behind. *)
ClientKeeps(peer) ==
    /\ cli' \in [Peers -> Client]
    /\ \A q \in Peers \ {peer} : cli'[q] = cli[q]
    /\ cli'[peer].pc \in {"welcome", "running"} => is_playing(peer)

SendsOwn == \A m \in to_server' : m \in to_server \/ m.peer \in Peers

LEMMA SendKeeps ==
    ASSUME NEW peer \in Peers, NEW t, NEW n, Send(peer, t, n)
    PROVE  SendsOwn
  BY DEF Send, SendsOwn

LEMMA BecomeKeeps ==
    ASSUME JoinInv, NEW peer \in Peers, NEW c \in Client, Become(peer, c),
           c.pc \in {"welcome", "running"} => is_playing(peer)
    PROVE  ClientKeeps(peer)
  BY DEF JoinInv, JoinTypeOK, Become, ClientKeeps

(* The ways a task ends or starts another pass. *)
LEMMA EndingKeeps ==
    ASSUME JoinInv, NEW peer \in Peers,
           \/ Fail(peer) \/ Stop(peer) \/ RetryHello(peer)
           \/ AgainOr(peer, Failed(peer)) /\ cli[peer].pc \in {"auth", "identity", "entitlement"}
           \/ UNCHANGED cli
    PROVE  ClientKeeps(peer)
<1>1. cli[peer] \in Client /\ cli \in [Peers -> Client]
  BY DEF JoinInv, JoinTypeOK
<1>2. Failed(peer) \in Client /\ Failed(peer).pc = "done"
  BY <1>1 DEF Failed, Client, Pcs, ClientState
<1>3. CASE Fail(peer)
  BY <1>2, <1>3, BecomeKeeps DEF Fail
<1>4. CASE Stop(peer)
  <2> DEFINE c == [cli[peer] EXCEPT !.pc = "done", !.state = "Idle"]
  <2>1. c \in Client /\ c.pc = "done"
    BY <1>1 DEF Client, Pcs, ClientState
  <2> QED BY <1>4, <2>1, BecomeKeeps DEF Stop
<1>5. CASE RetryHello(peer)
  <2>1. CASE cli[peer].left > 1
    <3> DEFINE c == [cli[peer] EXCEPT !.pc = "send_hello", !.left = @ - 1]
    <3>1. c \in Client /\ c.pc = "send_hello"
      <4>1. cli[peer].left - 1 \in Nat
        BY <1>1, <2>1 DEF Client
      <4> QED BY <1>1, <4>1 DEF Client, Pcs
    <3> QED BY <1>5, <2>1, <3>1, BecomeKeeps DEF RetryHello
  <2>2. CASE ~(cli[peer].left > 1)
    BY <1>2, <1>5, <2>2, BecomeKeeps DEF RetryHello
  <2> QED BY <2>1, <2>2
<1>6. CASE AgainOr(peer, Failed(peer)) /\ cli[peer].pc \in {"auth", "identity", "entitlement"}
  <2>1. CASE cli[peer].left > 1
    <3> DEFINE c == [cli[peer] EXCEPT !.left = @ - 1]
    <3>1. c \in Client /\ c.pc = cli[peer].pc
      BY <1>1, <2>1 DEF Client
    <3> QED BY <1>6, <2>1, <3>1, BecomeKeeps DEF AgainOr
  <2>2. CASE ~(cli[peer].left > 1)
    BY <1>2, <1>6, <2>2, BecomeKeeps DEF AgainOr
  <2> QED BY <2>1, <2>2
<1>7. CASE UNCHANGED cli
  BY <1>1, <1>7 DEF JoinInv, ClientKeeps
<1> QED BY <1>3, <1>4, <1>5, <1>6, <1>7

LEMMA LoadingKeeps ==
    ASSUME JoinInv, NEW peer \in Peers, NEW b \in BOOLEAN,
           Loading(peer, [cli[peer] EXCEPT !.authed = b])
    PROVE  ClientKeeps(peer) /\ SendsOwn
<1>1. cli[peer] \in Client
  BY DEF JoinInv, JoinTypeOK
<1> DEFINE c == [[cli[peer] EXCEPT !.authed = b] EXCEPT !.pc = "identity", !.left = IdentityRecvs, !.state = "Loading"]
<1>2. c \in Client /\ c.pc = "identity"
  BY <1>1, JoinAssumption DEF Client, Pcs, ClientState
<1>3. CASE Become(peer, c) /\ Send(peer, "IdentityResponse", 0)
  <2>1. ClientKeeps(peer)
    BY <1>2, <1>3, BecomeKeeps
  <2>2. SendsOwn
    BY <1>3, SendKeeps
  <2> QED BY <2>1, <2>2
<1>4. CASE Fail(peer) /\ UNCHANGED to_server
  BY <1>4, EndingKeeps DEF SendsOwn
<1> QED BY <1>3, <1>4 DEF Loading

(* A step that moves the program counter of a client, before its welcome. *)
LEMMA MoveKeeps ==
    ASSUME JoinInv, NEW peer \in Peers, NEW pc \in Pcs, NEW left \in Nat, NEW n \in 0 .. MaxSessions,
           Become(peer, [cli[peer] EXCEPT !.pc = pc, !.left = left, !.nonce = n]),
           pc \in {"welcome", "running"} => is_playing(peer)
    PROVE  ClientKeeps(peer)
<1> DEFINE c == [cli[peer] EXCEPT !.pc = pc, !.left = left, !.nonce = n]
<1>1. cli[peer] \in Client
  BY DEF JoinInv, JoinTypeOK
<1>2. c \in Client /\ c.pc = pc
  BY <1>1 DEF Client
<1> QED BY <1>2, BecomeKeeps

(* What the client does with a packet: only the ServerReady moves it to    *)
(* the welcome, and that one is sent to a peer that plays. *)
LEMMA ReceiveKeeps ==
    ASSUME JoinInv, NEW peer \in Peers, NEW m \in to_client[peer],
           \/ recv_hello(peer, m) \/ recv_challenge(peer, m) \/ recv_auth(peer, m) \/ recv_identity(peer, m)
           \/ recv_entitlement(peer, m) \/ recv_ready(peer, m) \/ recv_welcome(peer)
    PROVE  ClientKeeps(peer) /\ SendsOwn
<1>1. /\ cli[peer] \in Client /\ m \in Packet /\ m.n \in 0 .. MaxSessions
      /\ cli[peer].left \in Nat /\ cli[peer].nonce \in 0 .. MaxSessions /\ cli[peer].authed \in BOOLEAN
  BY DEF JoinInv, JoinTypeOK, Packet, Client
<1>2. UNCHANGED to_server => SendsOwn
  BY DEF SendsOwn
<1>3. CASE recv_hello(peer, m)
  <2>1. CASE Become(peer, [cli[peer] EXCEPT !.pc = "challenge"])
    <3> DEFINE c == [cli[peer] EXCEPT !.pc = "challenge"]
    <3>1. c \in Client /\ c.pc = "challenge"
      BY <1>1 DEF Client, Pcs
    <3> QED BY <1>2, <1>3, <2>1, <3>1, BecomeKeeps DEF recv_hello
  <2> QED BY <1>2, <1>3, <2>1, EndingKeeps DEF recv_hello
<1>4. CASE recv_challenge(peer, m)
  <2>1. CASE /\ Become(peer, [cli[peer] EXCEPT !.pc = "auth", !.left = AuthRecvs, !.nonce = m.n])
             /\ Send(peer, "ClientAuth", m.n)
    <3>1. "auth" \in Pcs /\ AuthRecvs \in Nat
      BY JoinAssumption DEF Pcs
    <3>2. ClientKeeps(peer)
      BY <1>1, <2>1, <3>1, MoveKeeps
    <3> QED BY <2>1, <3>2, SendKeeps
  <2> QED BY <1>2, <1>4, <2>1, EndingKeeps DEF recv_challenge
<1>5. CASE recv_auth(peer, m)
  <2> DEFINE ok == cli[peer].authed \/ m.t = "AuthResult"
             c  == [cli[peer] EXCEPT !.authed = ok]
  <2>1. ok \in BOOLEAN /\ cli[peer].pc = "auth"
    BY <1>1, <1>5 DEF recv_auth, At
  <2>2. CASE Fail(peer) /\ UNCHANGED to_server
    BY <1>2, <2>2, EndingKeeps
  <2>3. CASE Loading(peer, c)
    BY <2>1, <2>3, LoadingKeeps
  <2>4. CASE c.left > 1 /\ Become(peer, [c EXCEPT !.left = @ - 1]) /\ UNCHANGED to_server
    <3> DEFINE d == [c EXCEPT !.left = @ - 1]
    <3>1. c \in Client /\ c.left = cli[peer].left /\ c.pc = "auth"
      BY <1>1, <2>1 DEF Client
    <3> HIDE DEF c
    <3>2. c.left - 1 \in Nat
      BY <1>1, <2>4, <3>1
    <3>3. d \in Client /\ d.pc = "auth"
      BY <3>1, <3>2 DEF Client
    <3> QED BY <1>2, <2>4, <3>3, BecomeKeeps
  <2> QED BY <1>5, <2>2, <2>3, <2>4 DEF recv_auth
<1>6. CASE recv_identity(peer, m)
  <2>1. CASE /\ Become(peer, [cli[peer] EXCEPT !.pc = "entitlement", !.left = EntitlementRecvs])
             /\ Send(peer, "EntitlementRequest", 0)
    <3> DEFINE c == [cli[peer] EXCEPT !.pc = "entitlement", !.left = EntitlementRecvs]
    <3>1. c \in Client /\ c.pc = "entitlement"
      BY <1>1, JoinAssumption DEF Client, Pcs
    <3>2. ClientKeeps(peer)
      BY <2>1, <3>1, BecomeKeeps
    <3> QED BY <2>1, <3>2, SendKeeps
  <2>2. cli[peer].pc = "identity"
    BY <1>6 DEF recv_identity, At
  <2> QED BY <1>2, <1>6, <2>1, <2>2, EndingKeeps DEF recv_identity
<1>7. CASE recv_entitlement(peer, m)
  <2>1. CASE /\ Become(peer, [cli[peer] EXCEPT !.pc = "ready", !.left = 0])
             /\ Send(peer, "ClientReady", 0)
    <3> DEFINE c == [cli[peer] EXCEPT !.pc = "ready", !.left = 0]
    <3>1. c \in Client /\ c.pc = "ready"
      BY <1>1 DEF Client, Pcs
    <3>2. ClientKeeps(peer)
      BY <2>1, <3>1, BecomeKeeps
    <3> QED BY <2>1, <3>2, SendKeeps
  <2>2. cli[peer].pc = "entitlement"
    BY <1>7 DEF recv_entitlement, At
  <2> QED BY <1>2, <1>7, <2>1, <2>2, EndingKeeps DEF recv_entitlement
<1>8. CASE recv_ready(peer, m)
  <2>1. CASE m.t = "ServerReady" /\ Become(peer, [cli[peer] EXCEPT !.pc = "welcome"])
    <3> DEFINE c == [cli[peer] EXCEPT !.pc = "welcome"]
    <3>1. c \in Client /\ is_playing(peer)
      BY <1>1, <2>1 DEF Client, Pcs, JoinInv
    <3> QED BY <1>2, <1>8, <2>1, <3>1, BecomeKeeps DEF recv_ready
  <2> QED BY <1>2, <1>8, <2>1, EndingKeeps DEF recv_ready
<1>9. CASE recv_welcome(peer)
  <2> DEFINE c == [cli[peer] EXCEPT !.pc = "running", !.state = "Running"]
  <2>1. c \in Client /\ is_playing(peer)
    BY <1>1, <1>9 DEF Client, Pcs, ClientState, JoinInv, recv_welcome, At
  <2> QED BY <1>2, <1>9, <2>1, BecomeKeeps DEF recv_welcome
<1> QED BY <1>3, <1>4, <1>5, <1>6, <1>7, <1>8, <1>9

(* The steps of a client without a packet. *)
LEMMA AloneKeeps ==
    ASSUME JoinInv, NEW peer \in Peers,
           send_hello(peer) \/ timed_out(peer) \/ interrupted(peer) \/ shutdown(peer) \/ shutdown_returns(peer)
    PROVE  ClientKeeps(peer) /\ SendsOwn /\ UNCHANGED <<to_client, dups>>
<1>1. cli[peer] \in Client
  BY DEF JoinInv, JoinTypeOK
<1>2. UNCHANGED to_server => SendsOwn
  BY DEF SendsOwn
<1>3. CASE send_hello(peer)
  <2>1. CASE Become(peer, [cli[peer] EXCEPT !.pc = "hello"]) /\ Send(peer, "ClientHello", cli[peer].left)
    <3> DEFINE c == [cli[peer] EXCEPT !.pc = "hello"]
    <3>1. c \in Client /\ c.pc = "hello"
      BY <1>1 DEF Client, Pcs
    <3>2. ClientKeeps(peer)
      BY <2>1, <3>1, BecomeKeeps
    <3> QED BY <1>3, <2>1, <3>2, SendKeeps DEF send_hello
  <2> QED BY <1>2, <1>3, <2>1, EndingKeeps DEF send_hello
<1>4. CASE timed_out(peer)
  <2>1. CASE recv_welcome(peer)
    <3> DEFINE c == [cli[peer] EXCEPT !.pc = "running", !.state = "Running"]
    <3>1. c \in Client /\ is_playing(peer)
      BY <1>1, <2>1 DEF Client, Pcs, ClientState, JoinInv, recv_welcome, At
    <3> QED BY <1>2, <1>4, <2>1, <3>1, BecomeKeeps DEF recv_welcome, timed_out
  <2>2. CASE out_of_time(peer)
    <3>1. CASE Loading(peer, cli[peer])
      <4>1. cli[peer] = [cli[peer] EXCEPT !.authed = cli[peer].authed] /\ cli[peer].authed \in BOOLEAN
        BY <1>1 DEF Client
      <4> QED BY <1>4, <3>1, <4>1, LoadingKeeps DEF timed_out
    <3> QED BY <1>2, <1>4, <2>2, <3>1, EndingKeeps DEF out_of_time, timed_out
  <2> QED BY <1>2, <1>4, <2>1, <2>2, EndingKeeps DEF timed_out
<1>5. CASE interrupted(peer)
  BY <1>2, <1>5, EndingKeeps DEF interrupted
<1>6. CASE shutdown(peer) \/ shutdown_returns(peer)
  <2> DEFINE c == [cli[peer] EXCEPT !.shut = "asked", !.state = IF @ = "Failed" THEN @ ELSE "Stopping"]
             d == [cli[peer] EXCEPT !.shut = "over", !.state = "Idle"]
  <2>1. c \in Client /\ d \in Client /\ c.pc = cli[peer].pc /\ d.pc = cli[peer].pc
    BY <1>1 DEF Client, ClientState
  <2>2. cli[peer].pc \in {"welcome", "running"} => is_playing(peer)
    BY DEF JoinInv
  <2>3. ClientKeeps(peer)
    BY <1>6, <2>1, <2>2, BecomeKeeps DEF shutdown, shutdown_returns
  <2> QED BY <1>2, <1>6, <2>3 DEF shutdown, shutdown_returns
<1> QED BY <1>3, <1>4, <1>5, <1>6

(* A client's step keeps the invariant: the server has not moved. *)
LEMMA ClientStepKeeps ==
    ASSUME JoinInv, NEW peer \in Peers, ClientKeeps(peer), SendsOwn, UNCHANGED <<dups, admissionVars>>,
           to_client' \in [Peers -> SUBSET Packet], \A q \in Peers : to_client'[q] \subseteq to_client[q]
    PROVE  JoinInv'
<1>1. QueueInv' /\ KeepsPlaying
  BY DEF JoinInv, AdmissionInv, admissionVars, QueueInv, QueueTypeOK, SlotCaps, OnePlace, NoIdleSlot, is_playing,
         slot_free_for, fits, open_slots, KeepsPlaying
<1>2. AdmissionInv'
  BY <1>1, QuietSessions DEF JoinInv, admissionVars
<1>3. JoinTypeOK'
  BY <1>2 DEF JoinInv, JoinTypeOK, AdmissionInv, ClientKeeps, SendsOwn
<1>4. \A q \in Peers : is_playing(q)' <=> is_playing(q)
  BY DEF is_playing, admissionVars
<1>5. \A q \in Peers : sessions'[q].id \in {Blank, q}
  BY DEF JoinInv, admissionVars
<1>6. \A q \in Peers : \A m \in to_client'[q] : m.t = "ServerReady" => is_playing(q)'
  BY <1>4 DEF JoinInv
<1>7. \A q \in Peers : cli'[q].pc \in {"welcome", "running"} => is_playing(q)'
  BY <1>4 DEF JoinInv, ClientKeeps
<1> QED BY <1>2, <1>3, <1>5, <1>6, <1>7 DEF JoinInv, is_playing

(* The messages a call of handle returned. *)
Replies == {out'.msgs[i] : i \in DOMAIN out'.msgs}

LEMMA ReplyOne ==
    ASSUME NEW peer, NEW m, Reply(peer, <<m>>)
    PROVE  Replies = {m}
  BY DEF Reply, Replies

LEMMA ReplyTwo ==
    ASSUME NEW peer, NEW m, NEW n, Reply(peer, <<m, n>>)
    PROVE  Replies = {m, n}
  BY DEF Reply, Replies

LEMMA ReplyThree ==
    ASSUME NEW peer, NEW m, NEW n, NEW o, Reply(peer, <<m, n, o>>)
    PROVE  Replies = {m, n, o}
  BY DEF Reply, Replies

(* What a handler called with the peer's own account leaves behind. *)
ServerKeeps(peer) ==
    /\ Replies \subseteq Packet
    /\ \A m \in Replies : m.t = "ServerReady" => is_playing(peer)'
    /\ \A q \in Peers : sessions'[q].id \in {Blank, q}

LEMMA DispatchKeeps ==
    ASSUME JoinInv, NEW m \in to_server, dispatch(m)
    PROVE  AdmissionInv' /\ KeepsPlaying /\ ServerKeeps(m.peer)
<1> DEFINE peer == m.peer
<1>1. /\ AdmissionInv /\ peer \in Peers /\ peer \in Players
      /\ sessions \in [Peers -> AdmissionSession] /\ sessions[peer] \in AdmissionSession
      /\ \A q \in Peers : sessions[q].id \in {Blank, q}
      /\ next_session \in 1 .. (MaxSessions + 1)
  BY JoinAssumption DEF JoinInv, JoinTypeOK, AdmissionInv, AdmissionTypeOK
<1>2. \A t \in MsgNames : Msg(t) \in Packet /\ Msg(t).t = t
  BY AdmissionAssumption DEF Msg, Packet
<1>3. Reject(peer) => Replies = {Msg("Reject")}
  BY ReplyOne DEF Reject
<1>9. ASSUME NEW st, SetState(peer, st)
      PROVE  \A q \in Peers : sessions'[q].id \in {Blank, q}
  BY <1>1, <1>9 DEF SetState, AdmissionSession
<1>10. ASSUME sessions' = [sessions EXCEPT ![peer].queued = TRUE]
       PROVE  \A q \in Peers : sessions'[q].id \in {Blank, q}
  BY <1>1, <1>10 DEF AdmissionSession
<1>4. CASE m.t = "ClientHello" /\ on_hello(peer, TRUE)
  <2>1. AdmissionInv' /\ KeepsPlaying
    BY <1>1, <1>4, HelloKeeps
  <2>2. next_session \in 0 .. MaxSessions
    BY <1>1, <1>4, AdmissionAssumption DEF on_hello
  <2>3. \A t \in MsgNames : MsgOf(t, next_session) \in Packet /\ MsgOf(t, next_session).t = t
    BY <2>2 DEF MsgOf, Packet
  <2>4. Replies = {MsgOf("ServerHello", next_session), MsgOf("AuthChallenge", next_session)}
    BY <1>4, ReplyTwo DEF on_hello
  <2>5. \A q \in Peers : sessions'[q].id \in {Blank, q}
    BY <1>1, <1>4 DEF on_hello
  <2> QED BY <2>1, <2>3, <2>4, <2>5 DEF ServerKeeps, MsgNames
<1>5. CASE m.t = "ClientAuth" /\ on_auth(peer, peer, m.n)
  <2>1. AdmissionInv' /\ KeepsPlaying
    BY <1>1, <1>5, AuthKeeps
  <2>2. Replies \in {{Msg("Reject")}, {Msg("AuthResult"), Msg("IdentityRequest")}}
    BY <1>3, <1>5, ReplyTwo DEF on_auth
  <2>3. \A q \in Peers : sessions'[q].id \in {Blank, q}
    BY <1>1, <1>5, <1>9 DEF on_auth, AdmissionSession
  <2> QED BY <1>2, <2>1, <2>2, <2>3 DEF ServerKeeps, MsgNames
<1>6. CASE m.t = "IdentityResponse" /\ on_identity(peer, TRUE)
  <2>1. AdmissionInv' /\ KeepsPlaying
    BY <1>1, <1>6, IdentityKeeps
  <2>2. Replies \in {{Msg("Reject")}, {Msg("DeferralDone"), Msg("EntitlementRequest")}}
    BY <1>3, <1>6, ReplyTwo DEF on_identity
  <2>3. \A q \in Peers : sessions'[q].id \in {Blank, q}
    BY <1>1, <1>6, <1>9 DEF on_identity
  <2> QED BY <1>2, <2>1, <2>2, <2>3 DEF ServerKeeps, MsgNames
<1>7. CASE m.t = "EntitlementRequest" /\ on_entitlement(peer)
  <2>1. AdmissionInv' /\ KeepsPlaying
    BY <1>1, <1>7, EntitlementKeeps
  <2>2. Replies \in {{Msg("Reject")}, {Msg("EntitlementResult")}}
    BY <1>3, <1>7, ReplyOne DEF on_entitlement
  <2> QED BY <1>1, <1>2, <1>7, <2>1, <2>2 DEF ServerKeeps, on_entitlement, MsgNames
<1>8. ASSUME NEW t \in Times, on_ready(peer, t)
      PROVE  AdmissionInv' /\ KeepsPlaying /\ ServerKeeps(peer)
  <2>1. AdmissionInv' /\ KeepsPlaying
    BY <1>1, <1>8, ReadyKeeps
  <2>2. \A q \in Peers : sessions'[q].id \in {Blank, q}
    BY <1>1, <1>8, <1>9, <1>10 DEF on_ready
  <2>3. Replies \subseteq Packet
    <3>1. \/ Replies = {Msg("Reject")} \/ Replies = {Msg("ServerReady")}
          \/ Replies = {Msg("QueueAdmitted"), Msg("ManifestOffer"), Msg("ServerReady")}
          \/ Replies = {Msg("QueueUpdate"), Msg("ManifestOffer")}
      BY ZenonT(60), <1>3, <1>8, ReplyOne, ReplyTwo, ReplyThree DEF on_ready
    <3> QED BY <1>2, <3>1 DEF MsgNames
  <2>4. ASSUME NEW r \in Replies, r.t = "ServerReady"
        PROVE  sessions'[peer].state = "Ready" /\ sessions'[peer].id # Blank
    <3>1. CASE sessions[peer].id # Blank /\ sessions[peer].state = "Ready" /\ UNCHANGED sessions
      BY <3>1
    <3>2. CASE sessions[peer].id # Blank /\ SetState(peer, "Ready")
      BY <1>1, <3>2 DEF SetState, AdmissionSession
    <3>3. CASE Replies = {Msg("Reject")} \/ Replies = {Msg("QueueUpdate"), Msg("ManifestOffer")}
      BY <1>2, <2>4, <3>3 DEF MsgNames
    <3> QED BY <1>3, <1>8, <3>1, <3>2, <3>3, ReplyTwo DEF on_ready
  <2>5. ASSUME NEW r \in Replies, r.t = "ServerReady"
        PROVE  is_playing(peer)'
    BY <1>1, <2>1, <2>2, <2>4, <2>5 DEF AdmissionInv, WorldHoldsSlot, is_playing
  <2> QED BY <2>1, <2>2, <2>3, <2>5 DEF ServerKeeps
<1> QED BY <1>4, <1>5, <1>6, <1>7, <1>8 DEF dispatch

LEMMA ServeKeeps ==
    ASSUME JoinInv, NEW m \in to_server, serve(m)
    PROVE  JoinInv'
<1>1. /\ m.peer \in Peers /\ cli \in [Peers -> Client] /\ UNCHANGED cli
      /\ to_client \in [Peers -> SUBSET Packet] /\ dups \in 0 .. MaxDups
      /\ \A n \in to_server : n.peer \in Peers
  BY DEF JoinInv, JoinTypeOK, serve
<1>2. dups' \in 0 .. MaxDups /\ \A n \in to_server' : n.peer \in Peers
  BY <1>1, JoinAssumption DEF serve
<1>3. CASE dispatch(m) /\ to_client' = [to_client EXCEPT ![m.peer] = @ \cup Replies]
  <2>1. AdmissionInv' /\ KeepsPlaying /\ ServerKeeps(m.peer)
    BY <1>3, DispatchKeeps
  <2>2. JoinTypeOK'
    BY <1>1, <1>2, <2>1 DEF JoinTypeOK, AdmissionInv
  <2>3. to_client' \in [Peers -> SUBSET Packet]
    BY <1>1, <1>3, <2>1 DEF ServerKeeps
  <2>4. \A q \in Peers : \A r \in to_client'[q] : r.t = "ServerReady" => is_playing(q)'
    <3> SUFFICES ASSUME NEW q \in Peers, NEW r \in to_client'[q], r.t = "ServerReady"
                 PROVE  is_playing(q)'
      OBVIOUS
    <3>1. CASE r \in to_client[q]
      BY <2>1, <3>1 DEF JoinInv, KeepsPlaying
    <3>2. CASE q = m.peer /\ r \in Replies
      BY <2>1, <3>2 DEF ServerKeeps, is_playing
    <3> QED BY <1>1, <1>3, <3>1, <3>2
  <2>5. \A q \in Peers : cli'[q].pc \in {"welcome", "running"} => is_playing(q)'
    BY <1>1, <2>1 DEF JoinInv, KeepsPlaying
  <2> QED BY <2>1, <2>2, <2>3, <2>4, <2>5 DEF JoinInv, ServerKeeps, is_playing
<1>4. CASE UNCHANGED <<to_client, admissionVars>>
  <2>1. ClientKeeps(m.peer) /\ \A q \in Peers : is_playing(q)' <=> is_playing(q)
    BY <1>1, <1>4 DEF ClientKeeps, JoinInv, is_playing, admissionVars
  <2>2. QueueInv' /\ KeepsPlaying
    BY <1>4 DEF JoinInv, AdmissionInv, admissionVars, QueueInv, QueueTypeOK, SlotCaps, OnePlace, NoIdleSlot,
                is_playing, slot_free_for, fits, open_slots, KeepsPlaying
  <2>3. AdmissionInv'
    BY <1>4, <2>2, QuietSessions DEF JoinInv, admissionVars
  <2>4. JoinTypeOK'
    BY <1>1, <1>2, <2>3 DEF JoinTypeOK, AdmissionInv
  <2> QED BY <1>1, <1>4, <2>1, <2>3, <2>4 DEF JoinInv, is_playing, admissionVars
<1> QED BY <1>3, <1>4 DEF serve, Replies

LEMMA OtherJoinsKeeps ==
    ASSUME JoinInv, NEW p \in Players, other_joins(p)
    PROVE  JoinInv'
<1>1. QueueInv' /\ KeepsPlaying
  <2>1. CASE JoinAdmitted(p, FALSE)
    BY <2>1, JoinAdmittedKeepsInv DEF JoinInv, AdmissionInv, JoinAdmitted, KeepsPlaying, is_playing
  <2>2. ASSUME NEW t \in Times, JoinQueued(p, FALSE, t)
        PROVE  QueueInv' /\ KeepsPlaying
    BY <2>2, JoinOutcome DEF JoinInv, AdmissionInv
  <2> QED BY <2>1, <2>2 DEF other_joins
<1>2. AdmissionInv'
  BY <1>1, QuietSessions DEF JoinInv, other_joins
<1>3. JoinTypeOK'
  BY <1>2 DEF JoinInv, JoinTypeOK, AdmissionInv, other_joins, clientVars
<1>4. /\ \A q \in Peers : \A r \in to_client[q] : r.t = "ServerReady" => is_playing(q)'
      /\ \A q \in Peers : cli[q].pc \in {"welcome", "running"} => is_playing(q)'
  BY <1>1 DEF JoinInv, KeepsPlaying
<1> QED BY <1>2, <1>3, <1>4 DEF JoinInv, other_joins, clientVars, is_playing

(* One step per action: the client's, the server's, another player's. *)
THEOREM JoinInvariant == JoinSpec => []JoinInv
<1>1. JoinInit => JoinInv
  <2> SUFFICES ASSUME JoinInit PROVE JoinInv
    OBVIOUS
  <2>1. AdmissionInv
    BY AdmissionInitInv DEF JoinInit
  <2>2. JoinTypeOK
    BY <2>1, JoinAssumption, AdmissionAssumption
    DEF JoinInit, JoinTypeOK, AdmissionInv, Client, Pcs, ClientState
  <2> QED BY <2>1, <2>2 DEF JoinInit, JoinInv, AdmissionInit, NoSession
<1>2. JoinInv /\ [JoinNext]_joinVars => JoinInv'
  <2> SUFFICES ASSUME JoinInv, [JoinNext]_joinVars
               PROVE  JoinInv'
    OBVIOUS
  <2>0. to_client \in [Peers -> SUBSET Packet]
    BY DEF JoinInv
  <2>1. ASSUME NEW peer \in Peers, UNCHANGED admissionVars,
               send_hello(peer) \/ timed_out(peer) \/ interrupted(peer) \/ shutdown(peer) \/ shutdown_returns(peer)
        PROVE  JoinInv'
    BY <2>0, <2>1, AloneKeeps, ClientStepKeeps
  <2>2. ASSUME NEW peer \in Peers, UNCHANGED admissionVars, receive(peer)
        PROVE  JoinInv'
    <3>1. PICK m \in to_client[peer] :
            /\ to_client' = [to_client EXCEPT ![peer] = @ \ {m}]
            /\ UNCHANGED dups
            /\ \/ recv_hello(peer, m) \/ recv_challenge(peer, m) \/ recv_auth(peer, m) \/ recv_identity(peer, m)
               \/ recv_entitlement(peer, m) \/ recv_ready(peer, m) \/ recv_welcome(peer)
      BY <2>2 DEF receive
    <3>2. ClientKeeps(peer) /\ SendsOwn
      BY <3>1, ReceiveKeeps
    <3>3. to_client' \in [Peers -> SUBSET Packet] /\ \A q \in Peers : to_client'[q] \subseteq to_client[q]
      BY <2>0, <3>1
    <3> QED BY <2>2, <3>1, <3>2, <3>3, ClientStepKeeps
  <2>3. ASSUME NEW m \in to_server, serve(m)
        PROVE  JoinInv'
    BY <2>3, ServeKeeps
  <2>4. ASSUME NEW p \in Players \ Peers, other_joins(p)
        PROVE  JoinInv'
    BY <2>4, OtherJoinsKeeps
  <2>5. CASE UNCHANGED joinVars
    <3>1. QueueInv' /\ KeepsPlaying
      BY <2>5 DEF JoinInv, AdmissionInv, joinVars, admissionVars, QueueInv, QueueTypeOK, SlotCaps, OnePlace,
                  NoIdleSlot, is_playing, slot_free_for, fits, open_slots, KeepsPlaying
    <3>2. AdmissionInv'
      BY <2>5, <3>1, QuietSessions DEF JoinInv, joinVars, admissionVars
    <3> QED BY <2>5, <3>2 DEF JoinInv, JoinTypeOK, AdmissionInv, is_playing, joinVars, admissionVars, clientVars
  <2> QED BY <2>1, <2>2, <2>3, <2>4, <2>5 DEF JoinNext, task
<1> QED BY <1>1, <1>2, PTL DEF JoinSpec

(* A client that runs holds a playing slot on the server, for any number   *)
(* of clients, tries and duplicates: run_connect_task reports Running only *)
(* after a ServerReady, and the server sends that only to an account it    *)
(* has given a slot, which it never takes back. *)
THEOREM RunningAlwaysHoldsSlot == JoinSpec => []RunningHoldsSlot
<1>1. JoinInv => RunningHoldsSlot
  BY DEF JoinInv, RunningHoldsSlot
<1> QED BY <1>1, JoinInvariant, PTL
=============================================================================
