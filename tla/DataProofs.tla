----------------------------- MODULE DataProofs ------------------------------
(***************************************************************************)
(* Proofs about the server's data, for any keys and values and any number  *)
(* of crashes and failed writes: what the journal acknowledged survives,   *)
(* and the database layer's transfers, migrations and conformance runs     *)
(* keep what they promise; about the records of time: the clock estimate,  *)
(* the position history, the replay and the snapshot; and about what the   *)
(* operator writes: includes, server.cfg and manifests.                    *)
(***************************************************************************)
EXTENDS Persistence, Database, Timeline, Config, Sums, WellFoundedInduction, NaturalsInduction, FiniteSetTheorems, SequenceTheorems, TLAPS

-----------------------------------------------------------------------------
(* Extreme elements of sets of numbers. *)

LEMMA Least ==
    ASSUME NEW S, S \subseteq Nat, S # {}
    PROVE  \E x \in S : \A y \in S : x <= y
<1>1. PICK x \in S : \A y \in S : <<y, x>> \notin OpToRel(<, Nat)
  BY NatLessThanWellFounded, WFMin
<1>2. \A y \in S : <<y, x>> \in Nat \X Nat /\ ~(y < x)
  BY <1>1 DEF OpToRel
<1>3. ASSUME NEW y \in S PROVE x <= y
  <2>1. x \in Nat /\ y \in Nat /\ ~(y < x)
    BY <1>2
  <2> QED BY <2>1
<1> QED BY <1>3

LEMMA Greatest ==
    ASSUME NEW S, S \subseteq Nat, S # {}, NEW n \in Nat, \A x \in S : x <= n
    PROVE  \E x \in S : \A y \in S : y <= x
<1> DEFINE U == {m \in Nat : \A x \in S : x <= m}
<1>1. n \in U
  OBVIOUS
<1>2. PICK m \in U : \A l \in U : m <= l
  BY <1>1, Least
<1>3. m \in S
  <2> SUFFICES ASSUME m \notin S PROVE FALSE
    OBVIOUS
  <2>1. \A x \in S : x < m
    BY <1>2
  <2>2. m - 1 \in U
    <3>1. PICK y \in S : TRUE
      OBVIOUS
    <3>2. y < m /\ y \in Nat /\ m \in Nat
      BY <2>1, <1>2
    <3>3. m - 1 \in Nat
      BY <3>2
    <3> QED BY <2>1, <1>2, <3>3
  <2> QED BY <2>2, <1>2
<1> QED BY <1>2, <1>3

(* The records of a journal have a highest sequence number. *)
LEMMA Bounded ==
    ASSUME NEW s \in Seq(Record)
    PROVE  \E m \in Nat : \A i \in 1..Len(s) : s[i].seq <= m
<1> DEFINE T == {n \in Nat : ~\E m \in Nat : \A i \in 1..Len(s) : i <= n => s[i].seq <= m}
<1>0. \A i \in 1..Len(s) : s[i].seq \in Nat
  <2>1. \A i \in 1..Len(s) : s[i] \in Record
    OBVIOUS
  <2> QED BY <2>1 DEF Record
<1>a. Len(s) \in Nat
  OBVIOUS
<1>b. ASSUME T = {} PROVE \E m \in Nat : \A i \in 1..Len(s) : s[i].seq <= m
  <2>1. \E m \in Nat : \A i \in 1..Len(s) : i <= Len(s) => s[i].seq <= m
    BY <1>a, <1>b
  <2>2. \A i \in 1..Len(s) : i <= Len(s)
    BY <1>a
  <2> QED BY <2>1, <2>2
<1>1. SUFFICES ASSUME T # {} PROVE FALSE
  BY <1>b
<1>2. PICK n \in T : \A l \in T : n <= l
  BY <1>1, Least
<1>3. 0 \notin T
  OBVIOUS
<1>4. n \in Nat /\ n - 1 \in Nat /\ n - 1 < n
  BY <1>2, <1>3
<1>5. n - 1 \notin T
  <2>1. ~(n <= n - 1)
    BY <1>4
  <2> HIDE DEF T
  <2> QED BY <1>2, <2>1
<1>6. PICK m \in Nat : \A i \in 1..Len(s) : i <= n - 1 => s[i].seq <= m
  BY <1>4, <1>5
<1>7. ~\E l \in Nat : \A i \in 1..Len(s) : i <= n => s[i].seq <= l
  BY <1>2
<1> HIDE DEF T
<1>8. CASE n \in 1..Len(s)
  <2>1. \A i \in 1..Len(s) : i <= n => i <= n - 1 \/ i = n
    BY <1>4
  <2>2. CASE s[n].seq <= m
    BY <1>6, <1>7, <2>1, <2>2
  <2>3. CASE ~(s[n].seq <= m)
    <3>1. \A i \in 1..Len(s) : i <= n => s[i].seq <= s[n].seq
      BY <1>0, <1>6, <1>8, <2>1, <2>3
    <3> QED BY <3>1, <1>0, <1>7, <1>8
  <2> QED BY <2>2, <2>3
<1>9. CASE n \notin 1..Len(s)
  <2>1. \A i \in 1..Len(s) : i <= n => i <= n - 1
    BY <1>4, <1>9
  <2> QED BY <2>1, <1>6, <1>7
<1> QED BY <1>8, <1>9

LEMMA LatestRecord ==
    ASSUME NEW s \in Seq(Record), NEW own, own \subseteq ToSet(s), own # {}
    PROVE  \E r \in own : \A o \in own : o.seq <= r.seq
<1> DEFINE N == {r.seq : r \in own}
<1>1. \A r \in own : \E i \in 1..Len(s) : r = s[i]
  BY DEF ToSet
<1>2. \A i \in 1..Len(s) : s[i] \in Record
  OBVIOUS
<1>3. PICK m \in Nat : \A i \in 1..Len(s) : s[i].seq <= m
  BY Bounded
<1>4. \A r \in own : r.seq \in Nat /\ r.seq <= m
  BY <1>1, <1>2, <1>3 DEF Record
<1>5. N \subseteq Nat /\ N # {} /\ \A x \in N : x <= m
  BY <1>4
<1>6. PICK x \in N : \A y \in N : y <= x
  <2> HIDE DEF N
  <2> QED BY <1>5, Greatest
<1> QED BY <1>6

LEMMA HighestNumber ==
    ASSUME NEW s \in Seq(Record), NEW rs, rs \subseteq ToSet(s), NEW b \in Nat
    PROVE  LET S == {b} \cup {r.seq : r \in rs}
           IN  Max(S) \in Nat /\ \A x \in S : x <= Max(S)
<1> DEFINE S == {b} \cup {r.seq : r \in rs}
<1>1. \A r \in rs : \E i \in 1..Len(s) : r = s[i]
  BY DEF ToSet
<1>2. \A i \in 1..Len(s) : s[i] \in Record
  OBVIOUS
<1>3. PICK m \in Nat : \A i \in 1..Len(s) : s[i].seq <= m
  BY Bounded
<1>4. \A r \in rs : r.seq \in Nat /\ r.seq <= m
  BY <1>1, <1>2, <1>3 DEF Record
<1>5. S \subseteq Nat /\ S # {}
  BY <1>4
<1>6. m + b \in Nat /\ \A x \in S : x <= m + b
  BY <1>4
<1>7. \E x \in S : \A y \in S : y <= x
  <2> HIDE DEF S
  <2> QED BY <1>5, <1>6, Greatest
<1>8. Max(S) \in S /\ \A y \in S : y <= Max(S)
  <2> HIDE DEF S
  <2> QED BY <1>7 DEF Max
<1> QED BY <1>5, <1>8

-----------------------------------------------------------------------------
(* The history of appends. *)
Entry == [seq : Nat \ {0}, key : Keys, val : Values \cup {Absent}, ok : BOOLEAN]

Acked(q, b, k) == q[b].ok /\ q[b].key = k

(* x is what key k may hold after the acknowledged appends of q numbered up to
   s and any of the others. *)
Covered(q, k, x, s) ==
    \/ x = Absent /\ \A b \in 1..Len(q) : Acked(q, b, k) => ~(q[b].seq <= s)
    \/ \E a \in 1..Len(q) :
          /\ q[a].key = k /\ q[a].val = x
          /\ \A b \in 1..Len(q) : Acked(q, b, k) /\ q[b].seq <= s => b <= a

LEMMA CoveredAsked ==
    ASSUME NEW q \in Seq(Entry), NEW e \in Entry, ~e.ok, NEW k, NEW x, NEW s, Covered(q, k, x, s)
    PROVE  Covered(Append(q, e), k, x, s)
<1> DEFINE p == Append(q, e)
<1>1. Len(p) = Len(q) + 1 /\ \A b \in 1..Len(q) : p[b] = q[b]
  OBVIOUS
<1>2. \A b \in 1..Len(p) : Acked(p, b, k) => b \in 1..Len(q) /\ Acked(q, b, k) /\ p[b] = q[b]
  BY <1>1 DEF Acked
<1>3. \A b \in 1..Len(q) : b \in 1..Len(p)
  BY <1>1
<1> SUFFICES Covered(p, k, x, s)
  OBVIOUS
<1> HIDE DEF p
<1>4. CASE x = Absent /\ \A b \in 1..Len(q) : Acked(q, b, k) => ~(q[b].seq <= s)
  BY <1>2, <1>4 DEF Covered
<1>5. CASE \E a \in 1..Len(q) :
          /\ q[a].key = k /\ q[a].val = x
          /\ \A b \in 1..Len(q) : Acked(q, b, k) /\ q[b].seq <= s => b <= a
  BY <1>1, <1>2, <1>3, <1>5 DEF Covered
<1> QED BY <1>4, <1>5 DEF Covered

LEMMA LastAcked ==
    ASSUME NEW q \in Seq(Entry), q # <<>>
    PROVE  LET p == [q EXCEPT ![Len(q)].ok = TRUE]
           IN  /\ p \in Seq(Entry) /\ Len(p) = Len(q)
               /\ \A b \in 1..Len(q) : p[b] = IF b = Len(q) THEN [q[b] EXCEPT !.ok = TRUE] ELSE q[b]
<1> DEFINE p == [q EXCEPT ![Len(q)].ok = TRUE]
<1>1. DOMAIN q = 1..Len(q) /\ Len(q) \in Nat /\ q = [b \in 1..Len(q) |-> q[b]]
  OBVIOUS
<1>2. \A b \in 1..Len(q) : p[b] = IF b = Len(q) THEN [q[b] EXCEPT !.ok = TRUE] ELSE q[b]
  BY <1>1, Zenon
<1>3. p = [b \in 1..Len(q) |-> p[b]]
  BY <1>1, Zenon
<1>4. \A b \in 1..Len(q) : q[b] \in Entry
  OBVIOUS
<1> HIDE DEF p
<1>5. \A b \in 1..Len(q) : p[b] \in Entry
  BY ZenonT(60), <1>2, <1>4 DEF Entry
<1>6. p \in Seq(Entry) /\ Len(p) = Len(q)
  BY <1>1, <1>3, <1>5
<1> QED BY <1>2, <1>6 DEF p

LEMMA CoveredAcked ==
    ASSUME NEW q \in Seq(Entry), q # <<>>, NEW k, NEW x, NEW s, Covered(q, k, x, s),
           q[Len(q)].key # k \/ ~(q[Len(q)].seq <= s)
    PROVE  Covered([q EXCEPT ![Len(q)].ok = TRUE], k, x, s)
<1> DEFINE p == [q EXCEPT ![Len(q)].ok = TRUE]
<1>0. \A b \in 1..Len(q) : p[b] = IF b = Len(q) THEN [q[b] EXCEPT !.ok = TRUE] ELSE q[b]
  BY LastAcked
<1>1. Len(p) = Len(q) /\ Len(q) \in 1..Len(q) /\ Len(q) \in Nat
  OBVIOUS
<1>2. \A b \in 1..Len(q) : p[b].key = q[b].key /\ p[b].val = q[b].val /\ p[b].seq = q[b].seq
  <2>1. \A b \in 1..Len(q) : q[b] \in Entry
    OBVIOUS
  <2> HIDE DEF p
  <2> QED BY <2>1, <1>0 DEF Entry
<1>3. \A b \in 1..Len(q) : b # Len(q) => p[b].ok = q[b].ok
  BY <1>0
<1> SUFFICES Covered(p, k, x, s)
  OBVIOUS
<1> HIDE DEF p
<1>4. \A b \in 1..Len(q) : Acked(p, b, k) /\ p[b].seq <= s => Acked(q, b, k) /\ q[b].seq <= s
  BY <1>1, <1>2, <1>3 DEF Acked
<1>5. CASE x = Absent /\ \A b \in 1..Len(q) : Acked(q, b, k) => ~(q[b].seq <= s)
  BY <1>1, <1>4, <1>5 DEF Covered
<1>6. CASE \E a \in 1..Len(q) :
          /\ q[a].key = k /\ q[a].val = x
          /\ \A b \in 1..Len(q) : Acked(q, b, k) /\ q[b].seq <= s => b <= a
  BY <1>1, <1>2, <1>4, <1>6 DEF Covered
<1> QED BY <1>5, <1>6 DEF Covered

LEMMA CoveredByLast ==
    ASSUME NEW q \in Seq(Entry), q # <<>>, NEW s
    PROVE  Covered(q, q[Len(q)].key, q[Len(q)].val, s)
<1>1. Len(q) \in 1..Len(q) /\ \A b \in 1..Len(q) : b <= Len(q)
  OBVIOUS
<1> QED BY <1>1 DEF Covered

LEMMA CoveredTo ==
    ASSUME NEW q \in Seq(Entry), NEW k, NEW x, NEW s, NEW t, Covered(q, k, x, s),
           \A b \in 1..Len(q) : Acked(q, b, k) /\ q[b].seq <= t => q[b].seq <= s
    PROVE  Covered(q, k, x, t)
  BY DEF Covered

LEMMA PossibleIs ==
    ASSUME asked \in Seq(Entry), NEW k, NEW x, NEW s,
           \A b \in 1..Len(asked) : Acked(asked, b, k) => asked[b].seq <= s,
           Covered(asked, k, x, s)
    PROVE  x \in Possible(k)
<1>1. DOMAIN asked = 1..Len(asked)
  OBVIOUS
<1>2. CASE x = Absent /\ \A b \in 1..Len(asked) : Acked(asked, b, k) => ~(asked[b].seq <= s)
  BY <1>1, <1>2 DEF Possible, Acked
<1>3. CASE \E a \in 1..Len(asked) :
          /\ asked[a].key = k /\ asked[a].val = x
          /\ \A b \in 1..Len(asked) : Acked(asked, b, k) /\ asked[b].seq <= s => b <= a
  <2>1. PICK a \in 1..Len(asked) :
          /\ asked[a].key = k /\ asked[a].val = x
          /\ \A b \in 1..Len(asked) : Acked(asked, b, k) => b <= a
    BY <1>3
  <2>2. a \in {i \in {b \in DOMAIN asked : asked[b].key = k} :
                  \A j \in {c \in {b \in DOMAIN asked : asked[b].key = k} : asked[c].ok} : j <= i}
    BY <1>1, <2>1 DEF Acked
  <2> QED BY <2>1, <2>2 DEF Possible
<1> QED BY <1>2, <1>3 DEF Covered

-----------------------------------------------------------------------------
(* The journal and its recovery. *)
JournalTypeOK ==
    /\ journal \in Seq(Record)
    /\ ckpt \in [seq : Nat, map : [Keys -> Values \cup {Absent}],
                 st : {"none", "ok", "torn", "bad"}]
    /\ mode \in {"up", "truncate", "down", "halted"}
    /\ next_seq \in Nat \ {0}
    /\ mem \in [Keys -> Values \cup {Absent}]
    /\ asked \in Seq(Entry)
    /\ buried \in BOOLEAN /\ damage \in Nat

(* The append in flight is the last one asked for, and not acknowledged. *)
InFlight ==
    \/ pending = NoAppend
    \/ /\ mode = "up" /\ pending \in Record /\ pending.st = "whole" /\ asked # <<>>
       /\ asked[Len(asked)] = [seq |-> pending.seq, key |-> pending.key, val |-> pending.val, ok |-> FALSE]
       /\ pending.seq # 0 /\ next_seq = pending.seq + 1

TornAtEnd == ~buried => \A i \in 1..Len(journal) : journal[i].st = "torn" => i = Len(journal)

DamageCounted ==
    /\ ckpt.st \in {"torn", "bad"} => damage > 0
    /\ \A i \in 1..Len(journal) : journal[i].st \in {"bad", "long"} => damage > 0

(* No completed append has this number or a higher one. *)
Unused == IF pending = NoAppend THEN next_seq ELSE pending.seq

(* The files hold every acknowledged append, and what they hold for a key up
   to any number is what the appends up to it may have left. *)
OnDisk ==
    /\ \A i \in 1..Len(journal) :
         journal[i].st = "whole" /\ journal[i].seq > Base.seq
             => Covered(asked, journal[i].key, journal[i].val, journal[i].seq)
    /\ \A b \in 1..Len(asked) :
         asked[b].ok /\ asked[b].seq > Base.seq
             => \E i \in 1..Len(journal) : /\ journal[i].st = "whole"
                                           /\ journal[i].key = asked[b].key
                                           /\ journal[i].seq = asked[b].seq
    /\ \A k \in Keys : Covered(asked, k, Base.map[k], Base.seq)

InMemory ==
    /\ \A k \in Keys, s \in Nat : Covered(asked, k, mem[k], s)
    /\ Base.seq < Unused
    /\ \A b \in 1..Len(asked) : asked[b].ok => asked[b].seq < Unused
    /\ \A i \in 1..Len(journal) : journal[i].st = "whole" => journal[i].seq < Unused

Intact == ~buried /\ damage = 0

JournalInv ==
    /\ JournalTypeOK /\ InFlight /\ TornAtEnd /\ DamageCounted
    /\ Intact => OnDisk
    /\ Intact /\ mode \in {"up", "truncate"} => InMemory
    /\ Intact /\ mode = "truncate" => Base.seq + 1 = next_seq

LEMMA BaseType == JournalTypeOK => Base.seq \in Nat /\ Base.map \in [Keys -> Values \cup {Absent}]
  BY DEF JournalTypeOK, Base, NoCheckpoint, Nothing

LEMMA JournalInit == PersistInit => JournalInv
<1> SUFFICES ASSUME PersistInit PROVE JournalInv
  OBVIOUS
<1>1. JournalTypeOK
  <2>1. Nothing \in [Keys -> Values \cup {Absent}]
    BY DEF Nothing
  <2>2. NoCheckpoint \in [seq : Nat, map : [Keys -> Values \cup {Absent}], st : {"none", "ok", "torn", "bad"}]
    BY <2>1 DEF NoCheckpoint
  <2>3. <<>> \in Seq(Record) /\ <<>> \in Seq(Entry)
    OBVIOUS
  <2>4. 0 \in Nat /\ 1 \in Nat \ {0}
    OBVIOUS
  <2> QED BY <2>1, <2>2, <2>3, <2>4, Zenon DEF PersistInit, JournalTypeOK
<1>2. InFlight /\ TornAtEnd /\ DamageCounted
  BY DEF PersistInit, InFlight, TornAtEnd, DamageCounted, NoCheckpoint
<1>3. \A k \in Keys : \A s : Covered(asked, k, Absent, s)
  BY DEF PersistInit, Covered
<1>4. Base.seq = 0 /\ \A k \in Keys : Base.map[k] = Absent
  BY DEF PersistInit, Base, NoCheckpoint, Nothing
<1>5. OnDisk
  BY <1>3, <1>4 DEF PersistInit, OnDisk
<1>6. InMemory
  BY <1>3, <1>4 DEF PersistInit, InMemory, Nothing, Unused
<1>7. mode = "up"
  BY DEF PersistInit
<1> QED BY <1>1, <1>2, <1>5, <1>6, <1>7 DEF JournalInv

LEMMA AppendStep ==
    ASSUME JournalInv, NEW k \in Keys, NEW v \in Values \cup {Absent}, append(k, v)
    PROVE  JournalInv'
<1> DEFINE e == [seq |-> next_seq, key |-> k, val |-> v, ok |-> FALSE]
<1>1. e \in Entry /\ ~e.ok
  BY DEF JournalInv, JournalTypeOK, Entry
<1>2. /\ asked' = Append(asked, e) /\ pending = NoAppend /\ mode = "up"
      /\ pending' = [seq |-> next_seq, key |-> k, val |-> v, st |-> "whole"]
      /\ next_seq' = next_seq + 1
      /\ UNCHANGED <<journal, ckpt, mode, mem, buried, faults, damage>>
  BY DEF append
<1>3. asked \in Seq(Entry) /\ asked' \in Seq(Entry)
  BY <1>1, <1>2 DEF JournalInv, JournalTypeOK
<1>4. Len(asked') = Len(asked) + 1 /\ asked'[Len(asked')] = e /\ \A b \in 1..Len(asked) : asked'[b] = asked[b]
  BY <1>2, <1>3
<1>5. JournalTypeOK'
  BY <1>2, <1>3 DEF JournalInv, JournalTypeOK
<1>6. pending'.st = "whole" /\ pending' # NoAppend /\ pending'.seq = next_seq
  BY <1>2 DEF NoAppend
<1>7. InFlight'
  <2>1. asked' # <<>>
    BY <1>3, <1>4
  <2>2. pending' \in Record
    BY <1>2 DEF JournalInv, JournalTypeOK, Record
  <2> QED BY <1>2, <1>4, <1>6, <2>1, <2>2 DEF InFlight, JournalInv, JournalTypeOK
<1>8. TornAtEnd' /\ DamageCounted'
  BY <1>2 DEF JournalInv, TornAtEnd, DamageCounted
<1>9. Unused' = next_seq /\ Unused = next_seq /\ Base' = Base
  BY <1>2, <1>6 DEF Unused, Base
<1> HIDE DEF e
<1>10. \A c, x, s : Covered(asked, c, x, s) => Covered(asked', c, x, s)
  BY <1>1, <1>2, <1>3, CoveredAsked
<1>11. \A b \in 1..Len(asked') : asked'[b].ok => b \in 1..Len(asked) /\ asked'[b] = asked[b]
  BY <1>1, <1>3, <1>4
<1>12. Intact' => OnDisk'
  <2> SUFFICES ASSUME Intact' PROVE OnDisk'
    OBVIOUS
  <2>1. OnDisk
    BY <1>2 DEF Intact, JournalInv
  <2> QED BY <2>1, <1>2, <1>9, <1>10, <1>11 DEF OnDisk
<1>13. Intact' => InMemory'
  <2> SUFFICES ASSUME Intact' PROVE InMemory'
    OBVIOUS
  <2>1. InMemory
    BY <1>2 DEF Intact, JournalInv
  <2> QED BY <2>1, <1>2, <1>9, <1>10, <1>11 DEF InMemory
<1> QED BY <1>2, <1>5, <1>7, <1>8, <1>12, <1>13 DEF JournalInv

LEMMA AppendOkStep == JournalInv /\ append_ok => JournalInv'
<1> SUFFICES ASSUME JournalInv, append_ok PROVE JournalInv'
  OBVIOUS
<1> DEFINE n == Len(asked)
<1>1. /\ mode = "up" /\ pending # NoAppend /\ pending' = NoAppend
      /\ journal' = Append(journal, pending)
      /\ mem' = [mem EXCEPT ![pending.key] = pending.val]
      /\ asked' = [asked EXCEPT ![n].ok = TRUE]
      /\ buried' = (buried \/ Torn(journal))
      /\ UNCHANGED <<ckpt, mode, next_seq, faults, damage>>
  BY DEF append_ok
<1>2. /\ pending \in Record /\ pending.st = "whole" /\ asked # <<>>
      /\ asked[n] = [seq |-> pending.seq, key |-> pending.key, val |-> pending.val, ok |-> FALSE]
      /\ pending.seq \in Nat /\ next_seq = pending.seq + 1
  BY <1>1 DEF JournalInv, InFlight, Record
<1>3. asked \in Seq(Entry) /\ n \in 1..n /\ n \in Nat
  BY <1>2 DEF JournalInv, JournalTypeOK
<1>4. /\ Len(asked') = n
      /\ \A b \in 1..n : asked'[b] = IF b = n THEN [asked[b] EXCEPT !.ok = TRUE] ELSE asked[b]
  BY <1>1, <1>2, <1>3, LastAcked
<1>5. \A b \in 1..n : asked[b] \in Entry
  BY <1>3
<1>6. asked'[n] = [seq |-> pending.seq, key |-> pending.key, val |-> pending.val, ok |-> TRUE]
  BY <1>2, <1>3, <1>4
<1>7. asked' \in Seq(Entry)
  BY <1>1, <1>2, <1>3, LastAcked
<1>8. journal' \in Seq(Record) /\ journal \in Seq(Record)
  BY <1>1, <1>2 DEF JournalInv, JournalTypeOK
<1>9. /\ Len(journal') = Len(journal) + 1 /\ journal'[Len(journal')] = pending
      /\ \A i \in 1..Len(journal) : journal'[i] = journal[i]
      /\ \A i \in 1..Len(journal') : i \in 1..Len(journal) \/ i = Len(journal')
  BY <1>1, <1>8
<1>10. JournalTypeOK'
  <2>1. mem' \in [Keys -> Values \cup {Absent}]
    BY <1>1, <1>2 DEF JournalInv, JournalTypeOK, Record
  <2>2. buried' \in BOOLEAN
    BY <1>1
  <2> QED BY <1>1, <1>7, <1>8, <2>1, <2>2 DEF JournalInv, JournalTypeOK
<1>11. InFlight'
  BY <1>1 DEF InFlight
<1>12. TornAtEnd'
  <2> SUFFICES ASSUME ~buried' PROVE \A i \in 1..Len(journal') : journal'[i].st = "torn" => i = Len(journal')
    BY DEF TornAtEnd
  <2>1. \A i \in 1..Len(journal) : journal[i].st # "torn"
    <3>1. ~Torn(journal)
      BY <1>1, Zenon
    <3> QED BY <1>8, <3>1 DEF Torn
  <2> QED BY <1>9, <2>1
<1>13. DamageCounted'
  BY <1>1, <1>2, <1>9 DEF JournalInv, DamageCounted
<1>14. Base' = Base /\ Unused = pending.seq /\ Unused' = pending.seq + 1
  BY <1>1, <1>2 DEF Base, Unused
<1>15. \A c, x, s : Covered(asked, c, x, s) /\ (pending.key # c \/ ~(pending.seq <= s)) => Covered(asked', c, x, s)
  <2>1. asked[n].key = pending.key /\ asked[n].seq = pending.seq
    BY <1>2
  <2> QED BY <1>1, <1>2, <1>3, <2>1, CoveredAcked
<1>16. \A s : Covered(asked', pending.key, pending.val, s)
  <2>1. asked' # <<>>
    BY <1>3, <1>4
  <2> QED BY <1>4, <1>6, <1>7, <2>1, CoveredByLast
<1>17. ASSUME Intact' PROVE OnDisk' /\ InMemory'
  <2>1. OnDisk /\ InMemory /\ Base.seq \in Nat
    BY <1>1, <1>17, BaseType DEF Intact, JournalInv
  <2>2. \A i \in 1..Len(journal) : journal[i] \in Record
    BY <1>8
  <2>3. \A i \in 1..Len(journal) : journal[i].st = "whole" => journal[i].seq \in Nat /\ journal[i].seq < pending.seq
    BY <1>14, <2>1, <2>2 DEF InMemory, Record
  <2>4. Base.seq < pending.seq
    BY <1>14, <2>1 DEF InMemory
  <2>5. ASSUME NEW i \in 1..Len(journal'), journal'[i].st = "whole", journal'[i].seq > Base'.seq
        PROVE  Covered(asked', journal'[i].key, journal'[i].val, journal'[i].seq)
    <3>1. CASE i \in 1..Len(journal)
      <4>1. Covered(asked, journal[i].key, journal[i].val, journal[i].seq)
        BY <1>9, <1>14, <2>1, <2>5, <3>1 DEF OnDisk
      <4>2. ~(pending.seq <= journal[i].seq)
        BY <1>2, <1>9, <2>3, <2>5, <3>1
      <4> QED BY <1>9, <1>15, <3>1, <4>1, <4>2
    <3>2. CASE i = Len(journal')
      BY <1>9, <1>16, <3>2
    <3> QED BY <1>9, <3>1, <3>2
  <2>6. ASSUME NEW b \in 1..Len(asked'), asked'[b].ok, asked'[b].seq > Base'.seq
        PROVE  \E i \in 1..Len(journal') : /\ journal'[i].st = "whole"
                                           /\ journal'[i].key = asked'[b].key
                                           /\ journal'[i].seq = asked'[b].seq
    <3>1. CASE b = n
      <4>1. Len(journal') \in 1..Len(journal')
        BY <1>8, <1>9
      <4> QED BY <1>2, <1>6, <1>9, <3>1, <4>1
    <3>2. CASE b # n
      <4>1. asked'[b] = asked[b] /\ b \in 1..n
        BY <1>4, <3>2
      <4>2. PICK i \in 1..Len(journal) : /\ journal[i].st = "whole"
                                         /\ journal[i].key = asked[b].key
                                         /\ journal[i].seq = asked[b].seq
        BY <1>14, <2>1, <2>6, <4>1 DEF OnDisk
      <4>3. i \in 1..Len(journal')
        BY <1>8, <1>9
      <4> QED BY <1>9, <4>1, <4>2, <4>3
    <3> QED BY <3>1, <3>2
  <2>7. ASSUME NEW k \in Keys PROVE Covered(asked', k, Base'.map[k], Base'.seq)
    <3>1. Covered(asked, k, Base.map[k], Base.seq)
      BY <2>1 DEF OnDisk
    <3>2. ~(pending.seq <= Base.seq)
      BY <1>2, <2>1, <2>4
    <3> QED BY <1>14, <1>15, <3>1, <3>2
  <2>8. ASSUME NEW k \in Keys, NEW s \in Nat PROVE Covered(asked', k, mem'[k], s)
    <3>1. CASE k = pending.key
      <4>1. mem'[k] = pending.val
        BY <1>1, <3>1 DEF JournalInv, JournalTypeOK
      <4> QED BY <1>16, <3>1, <4>1
    <3>2. CASE k # pending.key
      <4>1. mem'[k] = mem[k]
        BY <1>1, <3>2 DEF JournalInv, JournalTypeOK
      <4>2. Covered(asked, k, mem[k], s)
        BY <2>1 DEF InMemory
      <4> QED BY <1>15, <3>2, <4>1, <4>2
    <3> QED BY <3>1, <3>2
  <2>9. \A b \in 1..Len(asked') : asked'[b].ok => asked'[b].seq < Unused'
    <3>1. \A b \in 1..n : asked[b].ok => asked[b].seq < pending.seq
      BY <1>14, <2>1 DEF InMemory
    <3>2. \A b \in 1..n : asked[b].seq \in Nat
      BY <1>5 DEF Entry
    <3>3. ASSUME NEW b \in 1..n, asked'[b].ok PROVE asked'[b].seq < pending.seq + 1
      <4>1. CASE b = n
        BY <1>2, <1>6, <4>1
      <4>2. CASE b # n
        <5>1. asked'[b] = asked[b]
          BY <1>4, <4>2
        <5>2. asked[b].seq < pending.seq /\ asked[b].seq \in Nat
          BY <3>1, <3>2, <3>3, <5>1
        <5> QED BY <1>2, <5>1, <5>2
      <4> QED BY <4>1, <4>2
    <3> QED BY <1>4, <1>14, <3>3
  <2>10. \A i \in 1..Len(journal') : journal'[i].st = "whole" => journal'[i].seq < Unused'
    BY <1>2, <1>9, <1>14, <2>3
  <2>11. Base'.seq < Unused'
    BY <1>2, <1>14, <2>1, <2>4
  <2> QED BY <2>5, <2>6, <2>7, <2>8, <2>9, <2>10, <2>11 DEF OnDisk, InMemory
<1> QED BY <1>1, <1>10, <1>11, <1>12, <1>13, <1>17 DEF JournalInv

(* What is left of an append that does not finish. *)
LEMMA LeftBehind ==
    ASSUME JournalInv, NEW left \in Remains(pending),
           journal' = journal \o left,
           buried' = (buried \/ (left # <<>> /\ Torn(journal))),
           UNCHANGED <<ckpt, asked, damage>>
    PROVE  /\ journal' \in Seq(Record) /\ buried' \in BOOLEAN
           /\ TornAtEnd' /\ DamageCounted'
           /\ Intact' => Intact /\ OnDisk'
           /\ \A i \in 1..Len(journal') :
                journal'[i].st = "whole" =>
                   \/ i \in 1..Len(journal) /\ journal'[i] = journal[i]
                   \/ pending # NoAppend /\ journal'[i] = pending
<1>1. journal \in Seq(Record) /\ asked \in Seq(Entry)
  BY DEF JournalInv, JournalTypeOK
<1>2. buried' \in BOOLEAN /\ Base' = Base /\ (Intact' => Intact)
  <2>1. buried' \in BOOLEAN /\ (~buried' => ~buried)
    BY Zenon
  <2>2. damage' = damage /\ ckpt' = ckpt
    OBVIOUS
  <2> QED BY <2>1, <2>2 DEF Base, Intact
<1>3. CASE left = <<>>
  <2>1. journal' = journal
    BY <1>1, <1>3
  <2>2. ~buried' => ~buried
    BY Zenon
  <2> QED BY <1>1, <1>2, <2>1, <2>2 DEF JournalInv, TornAtEnd, DamageCounted, OnDisk
<1>4. CASE left # <<>>
  <2>1. /\ pending # NoAppend /\ pending \in Record /\ pending.st = "whole" /\ asked # <<>>
        /\ asked[Len(asked)].key = pending.key /\ asked[Len(asked)].val = pending.val
        /\ left = <<[pending EXCEPT !.st = "torn"]>> \/ left = <<pending>>
    BY <1>4 DEF Remains, JournalInv, InFlight
  <2>2. PICK x \in Record : /\ left = <<x>> /\ x.st \in {"whole", "torn"}
                            /\ x.st = "whole" => x = pending
    BY <2>1 DEF Record
  <2>3. /\ journal' \in Seq(Record) /\ Len(journal') = Len(journal) + 1
        /\ journal'[Len(journal')] = x
        /\ \A i \in 1..Len(journal) : i \in 1..Len(journal') /\ journal'[i] = journal[i]
        /\ \A i \in 1..Len(journal') : i \in 1..Len(journal) \/ i = Len(journal')
    BY <1>1, <2>2
  <2>4. ~buried' => ~buried /\ \A i \in 1..Len(journal) : journal[i].st # "torn"
    <3>1. ~buried' => ~buried /\ ~Torn(journal)
      BY <1>4, Zenon
    <3> QED BY <1>1, <3>1 DEF Torn
  <2>5. TornAtEnd'
    BY <2>3, <2>4 DEF TornAtEnd
  <2>6. DamageCounted'
    BY <2>2, <2>3 DEF JournalInv, DamageCounted
  <2>7. ASSUME Intact' PROVE OnDisk'
    <3>1. OnDisk
      BY <1>2, <2>7 DEF JournalInv
    <3>2. ASSUME NEW i \in 1..Len(journal'), journal'[i].st = "whole", journal'[i].seq > Base'.seq
          PROVE  Covered(asked', journal'[i].key, journal'[i].val, journal'[i].seq)
      <4>1. CASE i \in 1..Len(journal)
        BY <1>2, <2>3, <3>1, <3>2, <4>1 DEF OnDisk
      <4>2. CASE i = Len(journal')
        <5>1. journal'[i] = pending
          BY <2>2, <2>3, <3>2, <4>2
        <5>2. \A s : Covered(asked, pending.key, pending.val, s)
          BY <1>1, <2>1, CoveredByLast
        <5> QED BY <5>1, <5>2
      <4> QED BY <2>3, <4>1, <4>2
    <3>3. ASSUME NEW b \in 1..Len(asked'), asked'[b].ok, asked'[b].seq > Base'.seq
          PROVE  \E i \in 1..Len(journal') : /\ journal'[i].st = "whole"
                                             /\ journal'[i].key = asked'[b].key
                                             /\ journal'[i].seq = asked'[b].seq
      <4>1. PICK i \in 1..Len(journal) : /\ journal[i].st = "whole"
                                         /\ journal[i].key = asked[b].key
                                         /\ journal[i].seq = asked[b].seq
        BY <1>2, <3>1, <3>3 DEF OnDisk
      <4> QED BY <2>3, <4>1
    <3>4. \A k \in Keys : Covered(asked', k, Base'.map[k], Base'.seq)
      BY <1>2, <3>1 DEF OnDisk
    <3> QED BY <3>2, <3>3, <3>4 DEF OnDisk
  <2> QED BY <1>2, <2>1, <2>2, <2>3, <2>5, <2>6, <2>7
<1> QED BY <1>3, <1>4

LEMMA AppendErrStep == JournalInv /\ append_err => JournalInv'
<1> SUFFICES ASSUME JournalInv, append_err PROVE JournalInv'
  OBVIOUS
<1>1. PICK left \in Remains(pending) : /\ journal' = journal \o left
                                       /\ buried' = (buried \/ (left # <<>> /\ Torn(journal)))
  BY DEF append_err
<1>2. /\ mode = "up" /\ pending # NoAppend /\ pending' = NoAppend
      /\ UNCHANGED <<ckpt, mode, next_seq, mem, asked, damage>>
  BY DEF append_err
<1>3. /\ journal' \in Seq(Record) /\ buried' \in BOOLEAN
      /\ TornAtEnd' /\ DamageCounted'
      /\ Intact' => Intact /\ OnDisk'
      /\ \A i \in 1..Len(journal') :
           journal'[i].st = "whole" =>
              \/ i \in 1..Len(journal) /\ journal'[i] = journal[i]
              \/ pending # NoAppend /\ journal'[i] = pending
  BY <1>1, <1>2, LeftBehind
<1>4. pending.seq \in Nat /\ next_seq = pending.seq + 1
  BY <1>2 DEF JournalInv, InFlight, Record
<1>5. JournalTypeOK'
  BY <1>2, <1>3 DEF JournalInv, JournalTypeOK
<1>6. InFlight'
  BY <1>2 DEF InFlight
<1>7. Unused = pending.seq /\ Unused' = pending.seq + 1 /\ Base' = Base /\ Base.seq \in Nat
  BY <1>2, <1>4, BaseType DEF Unused, Base, JournalInv
<1>8. ASSUME Intact' PROVE InMemory'
  <2>1. InMemory
    BY <1>2, <1>3, <1>8 DEF JournalInv
  <2>2. \A b \in 1..Len(asked) : asked[b].seq \in Nat
    <3>1. \A b \in 1..Len(asked) : asked[b] \in Entry
      BY DEF JournalInv, JournalTypeOK
    <3> QED BY <3>1 DEF Entry
  <2>3. \A i \in 1..Len(journal) : journal[i].seq \in Nat
    <3>1. \A i \in 1..Len(journal) : journal[i] \in Record
      BY DEF JournalInv, JournalTypeOK
    <3> QED BY <3>1 DEF Record
  <2>4. \A k \in Keys, s \in Nat : Covered(asked', k, mem'[k], s)
    BY <1>2, <2>1 DEF InMemory
  <2>5. Base'.seq < Unused'
    BY <1>4, <1>7, <2>1 DEF InMemory
  <2>6. \A b \in 1..Len(asked') : asked'[b].ok => asked'[b].seq < Unused'
    BY <1>2, <1>4, <1>7, <2>1, <2>2 DEF InMemory
  <2>7. \A i \in 1..Len(journal') : journal'[i].st = "whole" => journal'[i].seq < Unused'
    <3>1. \A i \in 1..Len(journal) : journal[i].st = "whole" => journal[i].seq < pending.seq
      BY <1>7, <2>1 DEF InMemory
    <3> QED BY <1>3, <1>4, <1>7, <2>3, <3>1
  <2> QED BY <2>4, <2>5, <2>6, <2>7 DEF InMemory
<1> QED BY <1>2, <1>3, <1>5, <1>6, <1>8 DEF JournalInv

LEMMA DieStep == JournalInv /\ process_dies => JournalInv'
<1> SUFFICES ASSUME JournalInv, process_dies PROVE JournalInv'
  OBVIOUS
<1>1. PICK left \in Remains(pending) : /\ journal' = journal \o left
                                       /\ buried' = (buried \/ (left # <<>> /\ Torn(journal)))
  BY DEF process_dies
<1>2. /\ mode' = "down" /\ pending' = NoAppend /\ mem' = Nothing /\ next_seq' = 1
      /\ UNCHANGED <<ckpt, asked, damage>>
  BY DEF process_dies
<1>3. /\ journal' \in Seq(Record) /\ buried' \in BOOLEAN
      /\ TornAtEnd' /\ DamageCounted' /\ (Intact' => OnDisk')
  BY <1>1, <1>2, LeftBehind
<1>4. JournalTypeOK'
  <2>1. mem' \in [Keys -> Values \cup {Absent}]
    BY <1>2 DEF Nothing
  <2> QED BY <1>2, <1>3, <2>1 DEF JournalInv, JournalTypeOK
<1> QED BY <1>2, <1>3, <1>4 DEF JournalInv, InFlight

LEMMA CheckpointStep == JournalInv /\ checkpoint => JournalInv'
<1> SUFFICES ASSUME JournalInv, checkpoint PROVE JournalInv'
  OBVIOUS
<1>1. /\ mode = "up" /\ pending = NoAppend /\ mode' = "truncate"
      /\ ckpt' = [seq |-> next_seq - 1, map |-> mem, st |-> "ok"]
      /\ UNCHANGED <<journal, pending, next_seq, mem, asked, buried, damage>>
  BY DEF checkpoint
<1>2. next_seq \in Nat /\ next_seq - 1 \in Nat
  BY DEF JournalInv, JournalTypeOK
<1>3. JournalTypeOK'
  BY <1>1, <1>2 DEF JournalInv, JournalTypeOK
<1>4. InFlight' /\ TornAtEnd' /\ DamageCounted'
  BY <1>1 DEF JournalInv, InFlight, TornAtEnd, DamageCounted
<1>5. Base'.seq = next_seq - 1 /\ Base'.map = mem
  BY <1>1 DEF Base
<1>6. Unused = next_seq /\ Unused' = next_seq
  BY <1>1 DEF Unused
<1>7. ASSUME Intact' PROVE OnDisk' /\ InMemory'
  <2>1. InMemory
    BY <1>1, <1>7 DEF JournalInv, Intact
  <2>2. \A b \in 1..Len(asked) : asked[b].ok => ~(asked[b].seq > next_seq - 1)
    <3>1. \A b \in 1..Len(asked) : asked[b] \in Entry
      BY DEF JournalInv, JournalTypeOK
    <3>2. \A b \in 1..Len(asked) : asked[b].seq \in Nat
      BY <3>1 DEF Entry
    <3> QED BY <1>2, <1>6, <2>1, <3>2 DEF InMemory
  <2>3. \A i \in 1..Len(journal) : journal[i].st = "whole" => ~(journal[i].seq > next_seq - 1)
    <3>1. \A i \in 1..Len(journal) : journal[i] \in Record
      BY DEF JournalInv, JournalTypeOK
    <3>2. \A i \in 1..Len(journal) : journal[i].seq \in Nat
      BY <3>1 DEF Record
    <3> QED BY <1>2, <1>6, <2>1, <3>2 DEF InMemory
  <2>4. \A k \in Keys : Covered(asked, k, mem[k], next_seq - 1)
    BY <1>2, <2>1 DEF InMemory
  <2>5. OnDisk'
    BY <1>1, <1>5, <2>2, <2>3, <2>4 DEF OnDisk
  <2>6. InMemory'
    BY <1>1, <1>2, <1>5, <1>6, <2>1 DEF InMemory
  <2> QED BY <2>5, <2>6
<1>8. Base'.seq + 1 = next_seq'
  BY <1>1, <1>2, <1>5
<1> QED BY <1>3, <1>4, <1>7, <1>8 DEF JournalInv

LEMMA TruncateStep == JournalInv /\ truncate => JournalInv'
<1> SUFFICES ASSUME JournalInv, truncate PROVE JournalInv'
  OBVIOUS
<1>1. /\ mode = "truncate" /\ mode' = "up" /\ journal' = <<>>
      /\ UNCHANGED <<ckpt, pending, next_seq, mem, asked, buried, damage>>
  BY DEF truncate
<1>2. pending = NoAppend /\ Base' = Base /\ Base.seq \in Nat /\ next_seq \in Nat
  BY <1>1, BaseType DEF JournalInv, InFlight, Base, JournalTypeOK
<1>3. Len(journal') = 0 /\ journal' \in Seq(Record)
  BY <1>1
<1>4. JournalTypeOK'
  BY <1>1, <1>3 DEF JournalInv, JournalTypeOK
<1>5. InFlight' /\ TornAtEnd' /\ DamageCounted'
  BY <1>1, <1>2, <1>3 DEF JournalInv, InFlight, TornAtEnd, DamageCounted
<1>6. Unused' = next_seq /\ Unused = next_seq
  BY <1>1, <1>2 DEF Unused
<1>7. ASSUME Intact' PROVE OnDisk' /\ InMemory'
  <2>1. OnDisk /\ InMemory /\ Base.seq + 1 = next_seq
    BY <1>1, <1>7 DEF JournalInv, Intact
  <2>2. \A b \in 1..Len(asked) : asked[b].ok => ~(asked[b].seq > Base.seq)
    <3>1. \A b \in 1..Len(asked) : asked[b] \in Entry
      BY DEF JournalInv, JournalTypeOK
    <3>2. \A b \in 1..Len(asked) : asked[b].seq \in Nat
      BY <3>1 DEF Entry
    <3> QED BY <1>2, <1>6, <2>1, <3>2 DEF InMemory
  <2>3. OnDisk'
    BY <1>1, <1>2, <1>3, <2>1, <2>2 DEF OnDisk
  <2>4. InMemory'
    BY <1>1, <1>2, <1>3, <1>6, <2>1 DEF InMemory
  <2> QED BY <2>3, <2>4
<1> QED BY <1>1, <1>4, <1>5, <1>7 DEF JournalInv

LEMMA TruncateErrStep == JournalInv /\ truncate_err => JournalInv'
<1> SUFFICES ASSUME JournalInv, truncate_err PROVE JournalInv'
  OBVIOUS
<1>1. /\ mode = "truncate" /\ mode' = "up" /\ journal' \in {journal, <<>>}
      /\ UNCHANGED <<ckpt, pending, next_seq, mem, asked, buried, damage>>
  BY DEF truncate_err
<1>2. CASE journal' = <<>>
  <2>1. pending = NoAppend /\ Base' = Base /\ Base.seq \in Nat /\ next_seq \in Nat
    BY <1>1, BaseType DEF JournalInv, InFlight, Base, JournalTypeOK
  <2>2. Len(journal') = 0 /\ journal' \in Seq(Record)
    BY <1>2
  <2>3. JournalTypeOK'
    BY <1>1, <2>2 DEF JournalInv, JournalTypeOK
  <2>4. InFlight' /\ TornAtEnd' /\ DamageCounted'
    BY <1>1, <2>1, <2>2 DEF JournalInv, InFlight, TornAtEnd, DamageCounted
  <2>5. Unused' = next_seq /\ Unused = next_seq
    BY <1>1, <2>1 DEF Unused
  <2>6. ASSUME Intact' PROVE OnDisk' /\ InMemory'
    <3>1. OnDisk /\ InMemory /\ Base.seq + 1 = next_seq
      BY <1>1, <2>6 DEF JournalInv, Intact
    <3>2. \A b \in 1..Len(asked) : asked[b].ok => ~(asked[b].seq > Base.seq)
      <4>1. \A b \in 1..Len(asked) : asked[b] \in Entry
        BY DEF JournalInv, JournalTypeOK
      <4>2. \A b \in 1..Len(asked) : asked[b].seq \in Nat
        BY <4>1 DEF Entry
      <4> QED BY <2>1, <2>5, <3>1, <4>2 DEF InMemory
    <3>3. OnDisk'
      BY <1>1, <2>1, <2>2, <3>1, <3>2 DEF OnDisk
    <3>4. InMemory'
      BY <1>1, <2>1, <2>2, <2>5, <3>1 DEF InMemory
    <3> QED BY <3>3, <3>4
  <2> QED BY <1>1, <2>3, <2>4, <2>6 DEF JournalInv
<1>3. CASE journal' = journal
  <2>1. JournalTypeOK' /\ TornAtEnd' /\ DamageCounted'
    BY <1>1, <1>3 DEF JournalInv, JournalTypeOK, TornAtEnd, DamageCounted
  <2>2. InFlight'
    BY <1>1, <1>3 DEF JournalInv, InFlight
  <2>3. (Intact' => OnDisk') /\ (Intact' => InMemory')
    BY <1>1, <1>3 DEF JournalInv, Intact, OnDisk, InMemory, Base, Unused
  <2> QED BY <1>1, <2>1, <2>2, <2>3 DEF JournalInv
<1> QED BY <1>1, <1>2, <1>3

LEMMA DamageStep == JournalInv /\ disk_damage => JournalInv'
<1> SUFFICES ASSUME JournalInv, disk_damage PROVE JournalInv'
  OBVIOUS
<1>1. damage' = damage + 1 /\ UNCHANGED <<mode, pending, next_seq, mem, asked, buried>>
  BY DEF disk_damage
<1>2. damage' \in Nat /\ damage' > 0 /\ ~Intact'
  BY <1>1 DEF JournalInv, JournalTypeOK, Intact
<1>3. journal \in Seq(Record)
  BY DEF JournalInv, JournalTypeOK
<1>4. /\ journal' \in Seq(Record) /\ Len(journal') = Len(journal)
      /\ \A i \in 1..Len(journal) : journal'[i].st = "torn" => journal[i].st = "torn"
      /\ ckpt' \in [seq : Nat, map : [Keys -> Values \cup {Absent}], st : {"none", "ok", "torn", "bad"}]
  <2>1. CASE UNCHANGED ckpt /\ \E i \in DOMAIN journal, st \in {"bad", "long"} :
                                   journal' = [journal EXCEPT ![i].st = st]
    <3>1. PICK n \in DOMAIN journal, d \in {"bad", "long"} : journal' = [journal EXCEPT ![n].st = d]
      BY <2>1
    <3>2. DOMAIN journal = 1..Len(journal) /\ Len(journal) \in Nat /\ journal = [i \in 1..Len(journal) |-> journal[i]]
      BY <1>3
    <3>3. journal' = [i \in 1..Len(journal) |-> journal'[i]]
      BY <3>1, <3>2, Zenon
    <3>4. \A i \in 1..Len(journal) : journal'[i] = IF i = n THEN [journal[i] EXCEPT !.st = d] ELSE journal[i]
      BY <3>1, <3>2, Zenon
    <3>5. \A i \in 1..Len(journal) : journal[i] \in Record
      BY <1>3
    <3>6. \A i \in 1..Len(journal) : journal'[i] \in Record /\ (journal'[i].st = "torn" => journal[i].st = "torn")
      BY ZenonT(60), <3>4, <3>5 DEF Record
    <3>7. journal' \in Seq(Record) /\ Len(journal') = Len(journal)
      BY <3>2, <3>3, <3>6
    <3> QED BY <2>1, <3>6, <3>7 DEF JournalInv, JournalTypeOK
  <2>2. CASE UNCHANGED journal /\ \E st \in {"torn", "bad"} : ckpt' = [ckpt EXCEPT !.st = st]
    BY <2>2, <1>3 DEF JournalInv, JournalTypeOK
  <2> QED BY <2>1, <2>2 DEF disk_damage
<1>5. JournalTypeOK'
  BY <1>1, <1>2, <1>4 DEF JournalInv, JournalTypeOK
<1>6. InFlight'
  BY <1>1 DEF JournalInv, InFlight
<1>7. TornAtEnd'
  BY <1>1, <1>4 DEF JournalInv, TornAtEnd
<1>8. DamageCounted'
  BY <1>2 DEF DamageCounted
<1> QED BY <1>2, <1>5, <1>6, <1>7, <1>8 DEF JournalInv

(* read_journal gives whole records only.  When at most the last one is torn,
   it fails only over a damaged record, goes past no wrong checksum but behind a
   damaged length, and without a damaged length misses no whole record. *)
LEMMA ReadIs ==
    ASSUME NEW j \in Seq(Record), NEW read \in read_journal(j)
    PROVE  /\ read.records \in Seq(Record)
           /\ \A r \in ToSet(read.records) : r.st = "whole" /\ \E i \in 1..Len(j) : r = j[i]
           /\ (\A i \in 1..Len(j) : j[i].st = "torn" => i = Len(j)) =>
                 /\ (\A i \in 1..Len(j) : j[i].st \notin {"bad", "long"}) => read.ok
                 /\ read.ok => \A i \in 1..Len(j) :
                                  j[i].st = "bad" => \E h \in 1..Len(j) : h < i /\ j[h].st = "long"
                 /\ read.ok /\ (\A i \in 1..Len(j) : j[i].st # "long") =>
                        \A i \in 1..Len(j) : j[i].st = "whole" => j[i] \in ToSet(read.records)
<1> DEFINE broken == {i \in DOMAIN j : j[i].st # "whole"}
           first  == CHOOSE i \in broken : \A k \in broken : i <= k
           kept   == SubSeq(j, 1, first - 1)
<1>1. DOMAIN j = 1..Len(j) /\ Len(j) \in Nat /\ \A i \in 1..Len(j) : j[i] \in Record
  OBVIOUS
<1>2. \A i \in 1..Len(j) : j[i].st \in {"whole", "torn", "bad", "long"}
  BY <1>1 DEF Record
<1>3. CASE broken = {}
  <2>1. read.ok /\ read.records = j
    BY <1>3 DEF read_journal
  <2>2. \A i \in 1..Len(j) : j[i].st = "whole"
    BY <1>1, <1>3
  <2>3. \A r : r \in ToSet(j) <=> \E i \in 1..Len(j) : r = j[i]
    BY <1>1 DEF ToSet
  <2> QED BY <2>1, <2>2, <2>3
<1>4. CASE broken # {}
  <2>1. broken \subseteq Nat
    BY <1>1
  <2>2. \E i \in broken : \A k \in broken : i <= k
    <3> HIDE DEF broken
    <3> QED BY <1>4, <2>1, Least
  <2>3. first \in broken /\ \A k \in broken : first <= k
    <3> HIDE DEF broken
    <3> QED BY <2>2
  <2>4. first \in 1..Len(j) /\ j[first].st # "whole" /\ \A i \in 1..Len(j) : i < first => j[i].st = "whole"
    BY <1>1, <2>3
  <2>5. \/ j[first].st = "bad" /\ read = [ok |-> FALSE, records |-> <<>>]
        \/ j[first].st = "torn" /\ first = Len(j) /\ read = [ok |-> TRUE, records |-> kept]
        \/ /\ j[first].st # "bad" /\ ~(j[first].st = "torn" /\ first = Len(j))
           /\ read = [ok |-> TRUE, records |-> kept] \/ read = [ok |-> FALSE, records |-> <<>>]
    BY <1>4 DEF read_journal
  <2> HIDE DEF broken, first
  <2>6. /\ kept \in Seq(Record) /\ Len(kept) = first - 1
        /\ \A i \in 1..(first - 1) : i \in 1..Len(j) /\ kept[i] = j[i]
    BY <1>1, <2>4
  <2>7. \A r : r \in ToSet(kept) <=> \E i \in 1..(first - 1) : r = j[i]
    <3>1. DOMAIN kept = 1..(first - 1)
      BY <1>1, <2>4, <2>6
    <3> HIDE DEF kept
    <3> QED BY <2>6, <3>1 DEF ToSet
  <2> HIDE DEF kept
  <2>8. \A r \in ToSet(kept) : r.st = "whole" /\ \E i \in 1..Len(j) : r = j[i]
    BY <1>1, <2>4, <2>6, <2>7
  <2>9. ToSet(<<>>) = {} /\ <<>> \in Seq(Record)
    BY DEF ToSet
  <2>10. j[first].st # "bad" => j[first].st = "torn" \/ j[first].st = "long"
    BY <1>2, <2>4
  <2>11. CASE j[first].st = "bad"
    <3>1. ~read.ok /\ read.records = <<>>
      BY <2>5, <2>11
    <3> QED BY <2>4, <2>9, <2>11, <3>1
  <2>12. CASE j[first].st = "torn" /\ first = Len(j)
    <3>1. read.ok /\ read.records = kept
      BY <2>5, <2>12
    <3>2. \A i \in 1..Len(j) : i # first => i \in 1..(first - 1) /\ j[i].st = "whole"
      <4>0. first = Len(j) /\ Len(j) \in Nat
        BY <1>1, <2>12
      <4>1. \A i \in 1..Len(j) : i # first => i < first
        BY <4>0
      <4>2. \A i \in 1..Len(j) : i < first => i \in 1..(first - 1)
        BY <1>1, <2>4
      <4> QED BY <2>4, <4>1, <4>2
    <3> QED BY <2>4, <2>6, <2>7, <2>8, <2>12, <3>1, <3>2
  <2>13. CASE j[first].st = "torn" /\ first # Len(j)
    <3>1. \/ read.ok /\ read.records = kept
          \/ read.records = <<>>
      BY <2>5, <2>13
    <3>2. ~\A i \in 1..Len(j) : j[i].st = "torn" => i = Len(j)
      BY <2>4, <2>10, <2>13
    <3> QED BY <2>6, <2>8, <2>9, <3>1, <3>2
  <2>14. CASE j[first].st = "long"
    <3>1. \/ read.ok /\ read.records = kept
          \/ ~read.ok /\ read.records = <<>>
      BY <2>5, <2>14
    <3>2. \A i \in 1..Len(j) : j[i].st = "bad" => first < i
      <4>1. \A i \in 1..Len(j) : i # first /\ ~(i < first) => first < i
        BY <1>1, <2>4
      <4> QED BY <2>4, <2>14, <4>1
    <3>3. \A i \in 1..Len(j) : j[i].st = "bad" => \E h \in 1..Len(j) : h < i /\ j[h].st = "long"
      BY <2>4, <2>14, <3>2
    <3> QED BY <2>4, <2>6, <2>8, <2>9, <2>14, <3>1, <3>3
  <2> QED BY <2>10, <2>11, <2>12, <2>13, <2>14
<1> QED BY <1>3, <1>4

LEMMA RecoverStep == JournalInv /\ recover => JournalInv'
<1> SUFFICES ASSUME JournalInv, recover PROVE JournalInv'
  OBVIOUS
<1>1. /\ mode = "down" /\ mode' \in {"up", "halted"} /\ pending = NoAppend
      /\ UNCHANGED <<journal, ckpt, pending, asked, buried, damage>>
  BY DEF recover, JournalInv, InFlight
<1>2. InFlight' /\ TornAtEnd' /\ DamageCounted' /\ (Intact' => OnDisk')
  BY <1>1 DEF JournalInv, InFlight, TornAtEnd, DamageCounted, OnDisk, Intact, Base
<1>3. Base' = Base /\ Base.seq \in Nat /\ Base.map \in [Keys -> Values \cup {Absent}]
  BY <1>1, BaseType DEF JournalInv, Base
<1>4. CASE mode' = "halted" /\ UNCHANGED <<mem, next_seq>>
  BY <1>1, <1>2, <1>4 DEF JournalInv, JournalTypeOK
<1>5. CASE \E read \in read_journal(journal) :
              /\ ckpt.st # "bad" /\ read.ok /\ mode' = "up"
              /\ mem' = apply_to_map(replayed(read.records))
              /\ next_seq' = NextSeq(replayed(read.records))
  <2>1. PICK read \in read_journal(journal) :
              /\ ckpt.st # "bad" /\ read.ok /\ mode' = "up"
              /\ mem' = apply_to_map(replayed(read.records))
              /\ next_seq' = NextSeq(replayed(read.records))
    BY <1>5
  <2> DEFINE rs == replayed(read.records)
             own(k) == {r \in rs : r.key = k}
  <2>2. journal \in Seq(Record) /\ asked \in Seq(Entry)
    BY DEF JournalInv, JournalTypeOK
  <2>3. /\ read.records \in Seq(Record)
        /\ \A r \in ToSet(read.records) : r.st = "whole" /\ \E i \in 1..Len(journal) : r = journal[i]
        /\ /\ \A i \in 1..Len(journal) : journal[i].st = "torn" => i = Len(journal)
           /\ read.ok /\ (\A i \in 1..Len(journal) : journal[i].st # "long")
           => \A i \in 1..Len(journal) : journal[i].st = "whole" => journal[i] \in ToSet(read.records)
    BY <2>2, ReadIs
  <2>4. rs \subseteq ToSet(read.records) /\ \A r : r \in rs <=> r \in ToSet(read.records) /\ r.seq > Base.seq
    BY DEF replayed
  <2>5. \A r \in rs : r \in Record /\ r.seq \in Nat /\ r.val \in Values \cup {Absent}
    <3>1. \A i \in 1..Len(journal) : journal[i] \in Record
      BY <2>2
    <3>2. \A r \in rs : r \in Record
      BY <2>3, <2>4, <3>1
    <3> QED BY <3>2 DEF Record
  <2>6. \A k \in Keys : mem'[k] = IF own(k) = {} THEN Base.map[k]
                                  ELSE (CHOOSE r \in own(k) : \A o \in own(k) : o.seq <= r.seq).val
    BY <2>1 DEF apply_to_map
  <2>7. /\ next_seq' \in Nat \ {0} /\ Base.seq < next_seq'
        /\ \A r \in rs : r.seq < next_seq'
    <3>1. /\ Max({Base.seq} \cup {r.seq : r \in rs}) \in Nat
          /\ \A x \in {Base.seq} \cup {r.seq : r \in rs} : x <= Max({Base.seq} \cup {r.seq : r \in rs})
      <4> HIDE DEF rs
      <4> QED BY <1>3, <2>3, <2>4, HighestNumber
    <3>2. next_seq' = 1 + Max({Base.seq} \cup {r.seq : r \in rs})
      BY <2>1 DEF NextSeq
    <3> HIDE DEF rs
    <3>3. Base.seq <= Max({Base.seq} \cup {r.seq : r \in rs})
      BY <3>1
    <3>4. \A r \in rs : r.seq <= Max({Base.seq} \cup {r2.seq : r2 \in rs})
      BY <3>1
    <3> DEFINE mx == Max({Base.seq} \cup {r.seq : r \in rs})
    <3>5. mx \in Nat /\ next_seq' = 1 + mx /\ Base.seq <= mx /\ \A r \in rs : r.seq <= mx
      BY <3>1, <3>2, <3>3, <3>4
    <3> HIDE DEF mx
    <3> QED BY <1>3, <2>5, <3>5
  <2> HIDE DEF rs
  <2>8. ASSUME NEW k \in Keys, own(k) # {}
        PROVE  \E r \in own(k) : mem'[k] = r.val /\ \A o \in own(k) : o.seq <= r.seq
    <3>1. own(k) \subseteq ToSet(read.records)
      BY <2>4
    <3>2. \E r \in own(k) : \A o \in own(k) : o.seq <= r.seq
      <4> HIDE DEF own
      <4> QED BY <2>3, <2>8, <3>1, LatestRecord
    <3> HIDE DEF own
    <3> DEFINE last == CHOOSE r \in own(k) : \A o \in own(k) : o.seq <= r.seq
    <3>3. last \in own(k) /\ \A o \in own(k) : o.seq <= last.seq
      BY <3>2
    <3>4. mem'[k] = last.val
      BY <2>6, <2>8
    <3> HIDE DEF last
    <3> QED BY <3>3, <3>4
  <2>9. JournalTypeOK'
    <3>1. \A k \in Keys : mem'[k] \in Values \cup {Absent}
      <4> TAKE k \in Keys
      <4>1. CASE own(k) = {}
        BY <1>3, <2>6, <4>1
      <4>2. CASE own(k) # {}
        BY <2>5, <2>8, <4>2
      <4> QED BY <4>1, <4>2
    <3>2. mem' \in [Keys -> Values \cup {Absent}]
      BY <2>1, <3>1 DEF apply_to_map
    <3> QED BY <1>1, <2>1, <2>7, <3>2 DEF JournalInv, JournalTypeOK
  <2>10. ASSUME Intact' PROVE InMemory'
    <3>1. OnDisk /\ ~buried
      BY <1>1, <2>10 DEF Intact, JournalInv
    <3>2. Unused' = next_seq'
      BY <1>1 DEF Unused
    <3>0. \A i \in 1..Len(journal) : journal[i].st # "long"
      BY <1>1, <2>10 DEF Intact, JournalInv, DamageCounted
    <3>3. \A i \in 1..Len(journal) : journal[i].st = "whole" /\ journal[i].seq > Base.seq => journal[i] \in rs
      BY <2>1, <2>3, <2>4, <3>0, <3>1 DEF JournalInv, TornAtEnd
    <3>4. \A r \in rs : Covered(asked, r.key, r.val, r.seq)
      <4> TAKE r \in rs
      <4>1. PICK i \in 1..Len(journal) : r = journal[i]
        BY <2>3, <2>4
      <4> QED BY <2>3, <2>4, <3>1, <4>1 DEF OnDisk
    <3>5. \A b \in 1..Len(asked) : asked[b].ok /\ asked[b].seq > Base.seq
                => \E r \in rs : r.key = asked[b].key /\ r.seq = asked[b].seq
      BY <3>1, <3>3 DEF OnDisk
    <3>6. \A b \in 1..Len(asked) : asked[b].seq \in Nat
      <4>1. \A b \in 1..Len(asked) : asked[b] \in Entry
        BY <2>2
      <4> QED BY <4>1 DEF Entry
    <3>7. ASSUME NEW k \in Keys, NEW s \in Nat PROVE Covered(asked, k, mem'[k], s)
      <4>1. CASE own(k) = {}
        <5>1. \A b \in 1..Len(asked) : Acked(asked, b, k) => asked[b].seq <= Base.seq
          BY <1>3, <3>5, <3>6, <4>1 DEF Acked
        <5>2. Covered(asked, k, Base.map[k], Base.seq)
          BY <3>1 DEF OnDisk
        <5>3. Covered(asked, k, Base.map[k], s)
          BY <2>2, <5>1, <5>2, CoveredTo
        <5> QED BY <2>6, <4>1, <5>3
      <4>2. CASE own(k) # {}
        <5>1. PICK r \in own(k) : mem'[k] = r.val /\ \A o \in own(k) : o.seq <= r.seq
          BY <2>8, <4>2
        <5>2. r \in rs /\ r.key = k /\ r.seq \in Nat /\ r.seq > Base.seq
          BY <2>4, <2>5
        <5>3. \A b \in 1..Len(asked) : Acked(asked, b, k) => asked[b].seq <= r.seq
          BY <1>3, <3>5, <3>6, <5>1, <5>2 DEF Acked
        <5>4. Covered(asked, k, r.val, r.seq)
          BY <3>4, <5>2
        <5>5. Covered(asked, k, r.val, s)
          BY <2>2, <5>3, <5>4, CoveredTo
        <5> QED BY <5>1, <5>5
      <4> QED BY <4>1, <4>2
    <3>8. \A b \in 1..Len(asked) : asked[b].ok => asked[b].seq < next_seq'
      BY <1>3, <2>7, <3>5, <3>6
    <3>9. \A i \in 1..Len(journal) : journal[i].st = "whole" => journal[i].seq < next_seq'
      <4>1. \A i \in 1..Len(journal) : journal[i] \in Record
        BY <2>2
      <4>2. \A i \in 1..Len(journal) : journal[i].seq \in Nat
        BY <4>1 DEF Record
      <4> QED BY <1>3, <2>7, <3>3, <4>2
    <3> QED BY <1>1, <1>3, <2>7, <3>2, <3>7, <3>8, <3>9 DEF InMemory
  <2> QED BY <1>2, <2>1, <2>9, <2>10 DEF JournalInv
<1>6. \/ mode' = "halted" /\ UNCHANGED <<mem, next_seq>>
      \/ \E read \in read_journal(journal) :
              /\ ckpt.st # "bad" /\ read.ok /\ mode' = "up"
              /\ mem' = apply_to_map(replayed(read.records))
              /\ next_seq' = NextSeq(replayed(read.records))
  <2>1. PICK read \in read_journal(journal) :
            IF ckpt.st = "bad" \/ ~read.ok
              THEN mode' = "halted" /\ UNCHANGED <<mem, next_seq>>
              ELSE /\ mode' = "up"
                   /\ mem' = apply_to_map(replayed(read.records))
                   /\ next_seq' = NextSeq(replayed(read.records))
    BY DEF recover
  <2> QED BY <2>1
<1> QED BY <1>4, <1>5, <1>6

LEMMA JournalStep == JournalInv /\ [PersistNext]_persistVars => JournalInv'
<1> SUFFICES ASSUME JournalInv, [PersistNext]_persistVars PROVE JournalInv'
  OBVIOUS
<1>1. CASE UNCHANGED persistVars
  BY <1>1 DEF persistVars, JournalInv, JournalTypeOK, InFlight, TornAtEnd, DamageCounted, OnDisk, InMemory,
              Intact, Base, Unused
<1> QED BY <1>1, AppendStep, AppendOkStep, AppendErrStep, CheckpointStep, TruncateStep, TruncateErrStep,
           DieStep, DamageStep, RecoverStep DEF PersistNext

LEMMA SurvivesFromInv == JournalInv => AckedSurvive
<1> SUFFICES ASSUME JournalInv, mode = "up", ~buried, damage = 0
             PROVE  /\ \A k \in Keys : mem[k] \in Possible(k)
                    /\ \A i \in DOMAIN asked : asked[i].ok => asked[i].seq < next_seq
  BY DEF AckedSurvive
<1>1. InMemory /\ asked \in Seq(Entry) /\ next_seq \in Nat /\ DOMAIN asked = 1..Len(asked)
  BY DEF JournalInv, Intact, JournalTypeOK
<1>2. Unused \in Nat /\ Unused <= next_seq
  BY <1>1 DEF JournalInv, InFlight, Unused, Record
<1>3. \A i \in 1..Len(asked) : asked[i].seq \in Nat
  <2>1. \A i \in 1..Len(asked) : asked[i] \in Entry
    BY <1>1
  <2> QED BY <2>1 DEF Entry
<1>4. \A i \in 1..Len(asked) : asked[i].ok => asked[i].seq < next_seq
  BY <1>1, <1>2, <1>3 DEF InMemory
<1>5. \A i \in 1..Len(asked) : asked[i].ok => asked[i].seq <= next_seq
  BY <1>1, <1>3, <1>4
<1>6. ASSUME NEW k \in Keys PROVE mem[k] \in Possible(k)
  <2>1. Covered(asked, k, mem[k], next_seq)
    BY <1>1 DEF InMemory
  <2>2. \A b \in 1..Len(asked) : Acked(asked, b, k) => asked[b].seq <= next_seq
    BY <1>5 DEF Acked
  <2> QED BY <1>1, <2>1, <2>2, PossibleIs
<1> QED BY <1>1, <1>4, <1>6

LEMMA ClosedFromInv == JournalInv /\ [PersistNext]_persistVars => FailsClosed
<1> SUFFICES ASSUME JournalInv, [PersistNext]_persistVars, mode = "down", mode' \in {"up", "halted"}
             PROVE  FailsClosed
  BY DEF FailsClosed
<1>1. recover
  BY DEF PersistNext, persistVars, append, append_ok, append_err, checkpoint, truncate, truncate_err, process_dies,
         disk_damage
<1>2. PICK read \in read_journal(journal) :
            IF ckpt.st = "bad" \/ ~read.ok
              THEN mode' = "halted" /\ UNCHANGED <<mem, next_seq>>
              ELSE mode' = "up"
  BY <1>1 DEF recover
<1>3. journal \in Seq(Record) /\ DOMAIN journal = 1..Len(journal)
  BY DEF JournalInv, JournalTypeOK
<1>4. ~buried => /\ (\A i \in 1..Len(journal) : journal[i].st \notin {"bad", "long"}) => read.ok
                 /\ read.ok => \A i \in 1..Len(journal) :
                       journal[i].st = "bad" => \E h \in 1..Len(journal) : h < i /\ journal[h].st = "long"
  BY <1>3, ReadIs DEF JournalInv, TornAtEnd
<1>5. /\ ckpt.st = "bad" => damage > 0
      /\ \A i \in 1..Len(journal) : journal[i].st \in {"bad", "long"} => damage > 0
  BY DEF JournalInv, DamageCounted
<1>6. mode' = "up" => ckpt.st # "bad" /\ read.ok
  BY <1>2
<1>7. mode' = "halted" => ckpt.st = "bad" \/ ~read.ok
  BY <1>2
<1> QED BY <1>3, <1>4, <1>5, <1>6, <1>7 DEF FailsClosed

(* The files and the process always agree as recovery needs it. *)
THEOREM JournalInvariant == PersistSpec => []JournalInv
  BY JournalInit, JournalStep, PTL DEF PersistSpec

(* Crash safety: for any keys and values and after any number of crashes,
   failed writes and interrupted checkpoints, what append acknowledged is in
   the recovered map as long as the disk keeps it and no append went behind a
   torn record; recover never reads past a wrong checksum that no damaged
   length hides, and refuses nothing that is neither damaged nor buried. *)
THEOREM JournalIsDurable == PersistSpec => Durable
<1>1. JournalInv /\ [PersistNext]_persistVars => AckedSurvive' /\ FailsClosed
  <2> SUFFICES ASSUME JournalInv, [PersistNext]_persistVars PROVE AckedSurvive' /\ FailsClosed
    OBVIOUS
  <2>1. JournalInv'
    BY JournalStep
  <2>2. JournalInv' => AckedSurvive'
    BY SurvivesFromInv, PTL
  <2> QED BY <2>1, <2>2, ClosedFromInv
<1> QED BY <1>1, JournalInvariant, PTL DEF PersistSpec, Durable

-----------------------------------------------------------------------------
(* Transactions: what is in hand is all that was put to it, and any        *)
(* transfer in it is whole.                                                *)

TxStatement ==
    [kind : {"lock", "debit", "credit", "ledger", "other"}, account : Accounts \cup {Nobody},
     amount : Int, fits : BOOLEAN]

TransactionsInv ==
    /\ unit.statements \in Seq(TxStatement) /\ unit.statements = wanted /\ TransfersWhole(unit.statements)
    /\ unit = [state |-> unit.state, statements |-> unit.statements]
    /\ committed \in Seq([statements : Seq(TxStatement), wanted : Seq(TxStatement)])
    /\ UnitsWhole

LEMMA EmptyWhole == TransfersWhole(<<>>)
  BY DEF TransfersWhole

LEMMA TransferWhole ==
    ASSUME NEW a \in Accounts, NEW b \in Accounts, a # b, NEW n \in Int, n > 0
    PROVE  TransferStatements(a, b, n) \in Seq(TxStatement) /\ TransfersWhole(TransferStatements(a, b, n))
<1> DEFINE s == TransferStatements(a, b, n)
<1>1. /\ Stmt("lock", a, 0, TRUE) \in TxStatement /\ Stmt("debit", a, n, TRUE) \in TxStatement
      /\ Stmt("credit", b, n, TRUE) \in TxStatement /\ Stmt("ledger", b, n, TRUE) \in TxStatement
  BY DEF Stmt, TxStatement
<1>2. /\ s \in Seq(TxStatement) /\ DOMAIN s = 1..4
      /\ s[1] = Stmt("lock", a, 0, TRUE) /\ s[2] = Stmt("debit", a, n, TRUE)
      /\ s[3] = Stmt("credit", b, n, TRUE) /\ s[4] = Stmt("ledger", b, n, TRUE)
  <2>1. \A w, x, y, z \in TxStatement :
           /\ <<w, x, y, z>> \in Seq(TxStatement) /\ DOMAIN <<w, x, y, z>> = 1..4
           /\ <<w, x, y, z>>[1] = w /\ <<w, x, y, z>>[2] = x /\ <<w, x, y, z>>[3] = y /\ <<w, x, y, z>>[4] = z
    OBVIOUS
  <2> DEFINE w == Stmt("lock", a, 0, TRUE)
             x == Stmt("debit", a, n, TRUE)
             y == Stmt("credit", b, n, TRUE)
             z == Stmt("ledger", b, n, TRUE)
  <2>2. s = <<w, x, y, z>>
    BY DEF TransferStatements
  <2>3. w \in TxStatement /\ x \in TxStatement /\ y \in TxStatement /\ z \in TxStatement
    BY <1>1
  <2> HIDE DEF w, x, y, z, s
  <2>4. s \in Seq(TxStatement) /\ DOMAIN s = 1..4 /\ s[1] = w /\ s[2] = x /\ s[3] = y /\ s[4] = z
    BY <2>1, <2>2, <2>3
  <2> QED BY <2>4 DEF w, x, y, z
<1> HIDE DEF s
<1>3. \A k \in 1..4 : k = 1 \/ k = 2 \/ k = 3 \/ k = 4
  OBVIOUS
<1>4. s[1].kind = "lock" /\ s[2].kind = "debit" /\ s[3].kind = "credit" /\ s[4].kind = "ledger"
  BY <1>2 DEF Stmt
<1>5. /\ s[1].account = a /\ s[2].account = a /\ s[3].account = b
      /\ s[2].amount = n /\ s[3].amount = n /\ s[4].amount = n
  BY <1>2 DEF Stmt
<1>6. \A k \in 1..4 : s[k].kind = "debit" => k = 2
  BY <1>3, <1>4
<1>7. TransfersWhole(s)
  <2>1. 2 - 1 = 1 /\ 2 + 1 = 3 /\ 2 + 2 = 4 /\ {1, 3, 4} \subseteq 1..4
    OBVIOUS
  <2>2. \A k \in 1..4 : s[k].kind = "debit" => k - 1 = 1 /\ k + 1 = 3 /\ k + 2 = 4 /\ k = 2
    BY <1>6
  <2> QED BY <1>2, <1>4, <1>5, <2>1, <2>2 DEF TransfersWhole
<1> QED BY <1>2, <1>7 DEF s

LEMMA OtherKeepsWhole ==
    ASSUME NEW s \in Seq(TxStatement), TransfersWhole(s), NEW q \in TxStatement, q.kind = "other"
    PROVE  Append(s, q) \in Seq(TxStatement) /\ TransfersWhole(Append(s, q))
<1> DEFINE t == Append(s, q)
           m == Len(s)
<1>1. /\ m \in Nat /\ DOMAIN s = 1..m /\ t \in Seq(TxStatement) /\ DOMAIN t = 1..(m + 1)
      /\ t[m + 1] = q /\ \A i \in 1..m : t[i] = s[i]
  OBVIOUS
<1> HIDE DEF t, m
<1>2. ASSUME NEW k \in DOMAIN t, t[k].kind = "debit"
      PROVE  /\ {k - 1, k + 1, k + 2} \subseteq DOMAIN t /\ t[k].amount > 0
             /\ t[k - 1].kind = "lock" /\ t[k - 1].account = t[k].account
             /\ t[k + 1].kind = "credit" /\ t[k + 1].amount = t[k].amount /\ t[k + 1].account # t[k].account
             /\ t[k + 2].kind = "ledger" /\ t[k + 2].amount = t[k].amount
  <2>1. k # m + 1
    BY <1>1, <1>2
  <2>2. k \in 1..m
    BY <1>1, <2>1
  <2>3. s[k].kind = "debit"
    BY <1>1, <1>2, <2>2
  <2>4. /\ {k - 1, k + 1, k + 2} \subseteq 1..m /\ s[k].amount > 0
        /\ s[k - 1].kind = "lock" /\ s[k - 1].account = s[k].account
        /\ s[k + 1].kind = "credit" /\ s[k + 1].amount = s[k].amount /\ s[k + 1].account # s[k].account
        /\ s[k + 2].kind = "ledger" /\ s[k + 2].amount = s[k].amount
    BY <1>1, <2>2, <2>3 DEF TransfersWhole
  <2>5. t[k] = s[k] /\ t[k - 1] = s[k - 1] /\ t[k + 1] = s[k + 1] /\ t[k + 2] = s[k + 2]
    BY <1>1, <2>2, <2>4
  <2>6. {k - 1, k + 1, k + 2} \subseteq 1..(m + 1)
    BY <1>1, <2>4
  <2> QED BY <1>1, <2>4, <2>5, <2>6
<1> QED BY <1>1, <1>2 DEF TransfersWhole, t

LEMMA DropStep == TransactionsInv /\ Drop => TransactionsInv'
<1> SUFFICES ASSUME TransactionsInv, Drop PROVE TransactionsInv'
  OBVIOUS
<1>1. unit' = NoUnit /\ wanted' = <<>> /\ committed' = committed
  BY DEF Drop
<1>2. unit'.statements = <<>> /\ unit' = [state |-> unit'.state, statements |-> unit'.statements]
  BY <1>1 DEF NoUnit
<1>3. <<>> \in Seq(TxStatement)
  OBVIOUS
<1>4. UnitsWhole'
  BY <1>1 DEF TransactionsInv, UnitsWhole
<1> QED BY <1>1, <1>2, <1>3, <1>4, EmptyWhole DEF TransactionsInv

LEMMA TransactionsStep == TransactionsInv /\ [TransactionsNext]_transactionVars => TransactionsInv'
<1> SUFFICES ASSUME TransactionsInv, [TransactionsNext]_transactionVars PROVE TransactionsInv'
  OBVIOUS
<1>1. CASE UNCHANGED transactionVars
  BY <1>1 DEF TransactionsInv, UnitsWhole, transactionVars
<1>2. ASSUME NEW s \in Seq(TxStatement), TransfersWhole(s), unit' = [state |-> "Open", statements |-> s], wanted' = s,
             committed' = committed
      PROVE  TransactionsInv'
  <2>1. unit'.statements = s /\ unit' = [state |-> unit'.state, statements |-> unit'.statements]
    BY <1>2
  <2>2. UnitsWhole'
    BY <1>2 DEF TransactionsInv, UnitsWhole
  <2> QED BY <1>2, <2>1, <2>2 DEF TransactionsInv
<1>3. CASE Transaction_new
  <2>1. <<>> \in Seq(TxStatement)
    OBVIOUS
  <2> QED BY <1>2, <1>3, <2>1, EmptyWhole DEF Transaction_new
<1>4. ASSUME NEW a \in Accounts, NEW b \in Accounts, NEW n \in Amounts, money_transfer_tx(a, b, n) PROVE TransactionsInv'
  <2>1. n \in Int /\ n > 0 /\ a # b
    BY <1>4, DatabaseAssumption DEF money_transfer_tx
  <2>2. TransferStatements(a, b, n) \in Seq(TxStatement) /\ TransfersWhole(TransferStatements(a, b, n))
    BY <2>1, TransferWhole
  <2> QED BY <1>2, <1>4, <2>2 DEF money_transfer_tx
<1>5. ASSUME NEW fits \in BOOLEAN, statement(fits) PROVE TransactionsInv'
  <2> DEFINE q == Stmt("other", Nobody, 0, fits)
  <2>1. q \in TxStatement /\ q.kind = "other"
    BY DEF Stmt, TxStatement
  <2>2. \/ unit' = [unit EXCEPT !.statements = Append(unit.statements, q)] /\ wanted' = Append(wanted, q) /\ committed' = committed
        \/ Drop
    BY <1>5 DEF statement
  <2> HIDE DEF q
  <2>3. CASE unit' = [unit EXCEPT !.statements = Append(unit.statements, q)] /\ wanted' = Append(wanted, q) /\ committed' = committed
    <3>1. unit.statements \in Seq(TxStatement) /\ unit.statements = wanted /\ TransfersWhole(unit.statements)
      BY DEF TransactionsInv
    <3>2. unit = [state |-> unit.state, statements |-> unit.statements]
      BY DEF TransactionsInv
    <3>3. unit'.statements = Append(unit.statements, q) /\ unit' = [state |-> unit'.state, statements |-> unit'.statements]
      BY <2>3, <3>2
    <3>4. Append(unit.statements, q) \in Seq(TxStatement) /\ TransfersWhole(Append(unit.statements, q))
      BY <2>1, <3>1, OtherKeepsWhole
    <3>5. UnitsWhole'
      BY <2>3 DEF TransactionsInv, UnitsWhole
    <3> QED BY <2>3, <3>1, <3>3, <3>4, <3>5 DEF TransactionsInv
  <2> QED BY <2>2, <2>3, DropStep
<1>6. CASE commit
  <2> DEFINE c == [statements |-> unit.statements, wanted |-> wanted]
             Pair == [statements : Seq(TxStatement), wanted : Seq(TxStatement)]
  <2>1. unit' = NoUnit /\ wanted' = <<>> /\ (committed' = committed \/ (unit.statements # <<>> /\ committed' = Append(committed, c)))
    BY <1>6 DEF commit
  <2>2. unit'.statements = <<>> /\ unit' = [state |-> unit'.state, statements |-> unit'.statements] /\ <<>> \in Seq(TxStatement)
    BY <2>1 DEF NoUnit
  <2>3. unit.statements \in Seq(TxStatement) /\ unit.statements = wanted /\ TransfersWhole(unit.statements) /\ committed \in Seq(Pair)
    BY DEF TransactionsInv
  <2>4. c \in Pair /\ c.statements = unit.statements /\ c.wanted = wanted
    BY <2>3
  <2> HIDE DEF c, Pair
  <2>5. CASE committed' = committed
    <3>1. UnitsWhole'
      BY <2>5 DEF TransactionsInv, UnitsWhole
    <3> QED BY <2>1, <2>2, <2>5, <3>1, EmptyWhole DEF TransactionsInv
  <2>6. CASE unit.statements # <<>> /\ committed' = Append(committed, c)
    <3> DEFINE m == Len(committed)
    <3>1. /\ m \in Nat /\ DOMAIN committed = 1..m /\ committed' \in Seq(Pair) /\ DOMAIN committed' = 1..(m + 1)
          /\ committed'[m + 1] = c /\ \A i \in 1..m : committed'[i] = committed[i]
      BY <2>3, <2>4, <2>6
    <3> HIDE DEF m
    <3>2. \A i \in 1..(m + 1) : i = m + 1 \/ i \in 1..m
      BY <3>1
    <3>3. UnitsWhole
      BY DEF TransactionsInv
    <3>4. \A i \in 1..m : /\ committed[i].statements # <<>> /\ committed[i].statements = committed[i].wanted
                          /\ TransfersWhole(committed[i].statements)
      BY <3>1, <3>3 DEF UnitsWhole
    <3>5. c.statements # <<>> /\ c.statements = c.wanted /\ TransfersWhole(c.statements)
      BY <2>3, <2>4, <2>6
    <3>6. \A i \in 1..(m + 1) : /\ committed'[i].statements # <<>> /\ committed'[i].statements = committed'[i].wanted
                                /\ TransfersWhole(committed'[i].statements)
      BY <3>1, <3>2, <3>4, <3>5
    <3>7. UnitsWhole'
      BY <3>1, <3>6 DEF UnitsWhole
    <3> QED BY <2>1, <2>2, <3>1, <3>7, EmptyWhole DEF TransactionsInv, Pair
  <2> QED BY <2>1, <2>5, <2>6
<1>7. CASE rollback
  BY <1>7, DropStep DEF rollback
<1> QED BY <1>1, <1>3, <1>4, <1>5, <1>6, <1>7 DEF TransactionsNext

LEMMA TransactionsStart == TransactionsInit => TransactionsInv
<1> SUFFICES ASSUME TransactionsInit PROVE TransactionsInv
  OBVIOUS
<1>1. unit = NoUnit /\ wanted = <<>> /\ committed = <<>>
  BY DEF TransactionsInit
<1>2. unit.statements = <<>> /\ unit = [state |-> unit.state, statements |-> unit.statements]
  BY <1>1 DEF NoUnit
<1>3. <<>> \in Seq(TxStatement) /\ committed \in Seq([statements : Seq(TxStatement), wanted : Seq(TxStatement)])
  BY <1>1
<1>4. UnitsWhole
  BY <1>1 DEF UnitsWhole
<1> QED BY <1>1, <1>2, <1>3, <1>4, EmptyWhole DEF TransactionsInv

-----------------------------------------------------------------------------
(* Migrations: what is left to run are the bodies of missing migrations,   *)
(* each followed by the row that records it.                               *)

LEMMA SortedList ==
    ASSUME NEW S, S \subseteq Nat, IsFiniteSet(S)
    PROVE  \E s \in [1..Cardinality(S) -> S] : Ascending(s)
<1> DEFINE N == Cardinality(S)
           Sortable(A) == \E s \in [1..Cardinality(A) -> A] : Ascending(s)
           T == {n \in 0..N : \A A \in SUBSET S : Cardinality(A) = n => Sortable(A)}
<1>1. N \in Nat
  BY FS_CardinalityType
<1>2. \A A \in SUBSET S : IsFiniteSet(A) /\ Cardinality(A) \in Nat
  BY FS_Subset, FS_CardinalityType
<1>3. 0 \in T
  <2>1. ASSUME NEW A \in SUBSET S, Cardinality(A) = 0 PROVE Sortable(A)
    <3>1. [i \in 1..0 |-> 0] \in [1..Cardinality(A) -> A] /\ Ascending([i \in 1..0 |-> 0])
      BY <2>1 DEF Ascending
    <3> QED BY <3>1
  <2> HIDE DEF Sortable
  <2> QED BY <1>1, <2>1
<1>4. ASSUME NEW n \in 1..N, n - 1 \in T PROVE n \in T
  <2>1. ASSUME NEW A \in SUBSET S, Cardinality(A) = n PROVE Sortable(A)
    <3>1. IsFiniteSet(A) /\ A # {} /\ A \subseteq Nat
      BY <1>1, <1>2, <2>1, FS_EmptySet
    <3>2. PICK m \in A : \A x \in A : m <= x
      BY <3>1, SmallestOf
    <3>3. Cardinality(A \ {m}) = n - 1 /\ A \ {m} \in SUBSET S
      BY <2>1, <3>1, FS_RemoveElement
    <3>4. PICK s \in [1..(n - 1) -> A \ {m}] : Ascending(s)
      BY <1>4, <3>3
    <3> DEFINE r == [i \in 1..n |-> IF i = 1 THEN m ELSE s[i - 1]]
    <3>5. \A i \in 1..n : i # 1 => i - 1 \in 1..(n - 1)
      BY <1>1
    <3>6. r \in [1..n -> A]
      BY <3>4, <3>5
    <3>7. ASSUME NEW i \in 1..n, NEW j \in 1..n, i < j PROVE r[i] < r[j]
      <4>1. j # 1 /\ j - 1 \in 1..(n - 1) /\ r[j] = s[j - 1] /\ s[j - 1] \in A /\ s[j - 1] # m
        BY <3>4, <3>5, <3>7
      <4>2. CASE i = 1
        <5>1. r[i] = m /\ m <= s[j - 1] /\ m \in Nat /\ s[j - 1] \in Nat
          BY <3>1, <3>2, <4>1, <4>2
        <5> QED BY <4>1, <5>1
      <4>3. CASE i # 1
        <5>1. r[i] = s[i - 1] /\ i - 1 \in 1..(n - 1) /\ i - 1 < j - 1
          BY <3>5, <3>7, <4>3
        <5> QED BY <3>4, <4>1, <5>1 DEF Ascending
      <4> QED BY <4>2, <4>3
    <3> HIDE DEF r
    <3>8. Ascending(r)
      BY <3>6, <3>7 DEF Ascending
    <3> QED BY <2>1, <3>6, <3>8
  <2> HIDE DEF Sortable
  <2> QED BY <1>1, <2>1
<1> HIDE DEF T
<1>5. N \in T
  <2>1. 0..N \subseteq T
    BY <1>1, <1>3, <1>4, UpTo
  <2> QED BY <1>1, <2>1
<1> QED BY <1>5 DEF T

Statement == [kind : {"up", "record"}, version : Versions]

(* Bodies and rows alternate, the row of the body it follows, and no       *)
(* version comes up again. *)
Paired(s) ==
    /\ s \in Seq(Statement)
    /\ \A i \in 1..Len(s) : s[i].kind = "up" =>
         i + 1 \in 1..Len(s) /\ s[i + 1].kind = "record" /\ s[i + 1].version = s[i].version
    /\ \A i \in 1..Len(s) : s[i].kind = "record" =>
         (i + 1 \in 1..Len(s) => s[i + 1].kind = "up")
    /\ \A i, j \in 1..Len(s) : s[i].version = s[j].version /\ s[i].kind = s[j].kind => i = j

AtRow == IF todo # <<>> /\ todo[1].kind = "record" THEN 1 ELSE 0

MigrationsInv ==
    /\ DOMAIN available \subseteq Versions /\ (\A v \in DOMAIN available : available[v] \in Nat)
    /\ available = [v \in DOMAIN available |-> available[v]]
    /\ history \in Seq([version : Versions, edition : Nat])
    /\ ran \in [Versions -> Nat] /\ edits \in Nat /\ crashes \in Nat
    /\ Paired(todo)
    /\ \A i \in 1..Len(todo) : todo[i].version \in DOMAIN available \ Recorded
    /\ Recorded \subseteq DOMAIN available
    /\ \A i, j \in 1..Len(history) : history[i].version = history[j].version => i = j
    /\ \A v \in Recorded : ran[v] >= 1
    /\ AtRow = 1 => ran[todo[1].version] >= 1
    /\ \A v \in Versions : ran[v] > 0 /\ v \notin Recorded => crashes > 0 \/ (AtRow = 1 /\ todo[1].version = v)
    /\ SumOver(Versions, ran) <= Cardinality(Recorded) + (crashes + AtRow)

LEMMA PlanIs ==
    ASSUME MigrationsInv
    PROVE  /\ plan \in Seq(DOMAIN available \ Recorded)
           /\ \A i, j \in 1..Len(plan) : plan[i] = plan[j] => i = j
<1> DEFINE S == DOMAIN available \ Recorded
<1>1. S \subseteq Nat /\ IsFiniteSet(S)
  <2>1. S \subseteq Versions
    BY DEF MigrationsInv
  <2> QED BY <2>1, DatabaseAssumption, FS_Subset
<1>2. plan = CHOOSE s \in [1..Cardinality(S) -> S] : Ascending(s)
  BY DEF plan
<1> HIDE DEF S
<1>3. plan \in [1..Cardinality(S) -> S] /\ Ascending(plan)
  BY <1>1, <1>2, SortedList
<1>4. Cardinality(S) \in Nat
  BY <1>1, FS_CardinalityType
<1>5. plan \in Seq(S) /\ Len(plan) = Cardinality(S)
  BY <1>3, <1>4
<1>6. ASSUME NEW i \in 1..Len(plan), NEW j \in 1..Len(plan), plan[i] = plan[j] PROVE i = j
  <2>1. DOMAIN plan = 1..Len(plan) /\ plan[i] \in Nat /\ plan[j] \in Nat
    BY <1>1, <1>3, <1>5
  <2>2. ~(i < j) /\ ~(j < i)
    BY <1>3, <1>6, <2>1 DEF Ascending
  <2> QED BY <1>4, <1>5, <2>2
<1> QED BY <1>5, <1>6 DEF S

LEMMA StatementsPaired ==
    ASSUME NEW S, S \subseteq Versions, NEW p \in Seq(S), \A i, j \in 1..Len(p) : p[i] = p[j] => i = j
    PROVE  LET s == statements_for(p) IN
           Paired(s) /\ (\A i \in 1..Len(s) : s[i].version \in S) /\ (s # <<>> => s[1].kind = "up")
<1> DEFINE L == Len(p)
           s == statements_for(p)
<1>0. L \in Nat /\ 2 * L \in Nat /\ \A i \in 1..L : p[i] \in S
  OBVIOUS
<1>1. \A k \in 1..(2 * L) : (k + 1) \div 2 \in 1..L
  BY <1>0
<1>2. \A k \in 1..(2 * L) : s[k] = [kind |-> IF k % 2 = 1 THEN "up" ELSE "record", version |-> p[(k + 1) \div 2]]
  BY DEF statements_for
<1>3. s = [k \in 1..(2 * L) |-> s[k]]
  BY DEF statements_for
<1> HIDE DEF s, L
<1>4. \A k \in 1..(2 * L) : /\ s[k].kind = (IF k % 2 = 1 THEN "up" ELSE "record")
                            /\ s[k].version = p[(k + 1) \div 2] /\ s[k].version \in S
                            /\ s[k] \in Statement
  <2> SUFFICES ASSUME NEW k \in 1..(2 * L)
               PROVE  /\ s[k].kind = (IF k % 2 = 1 THEN "up" ELSE "record")
                      /\ s[k].version = p[(k + 1) \div 2] /\ s[k].version \in S
                      /\ s[k] \in Statement
    OBVIOUS
  <2> DEFINE kd == IF k % 2 = 1 THEN "up" ELSE "record"
             vs == p[(k + 1) \div 2]
  <2>1. vs \in S
    BY <1>0, <1>1
  <2>2. kd \in {"up", "record"}
    OBVIOUS
  <2>3. s[k] = [kind |-> kd, version |-> vs]
    BY <1>2
  <2> HIDE DEF kd, vs
  <2>4. s[k].kind = kd /\ s[k].version = vs /\ s[k] \in Statement
    BY <2>1, <2>2, <2>3 DEF Statement
  <2> QED BY <2>1, <2>4 DEF kd, vs
<1>5. s \in Seq(Statement) /\ Len(s) = 2 * L
  BY <1>0, <1>3, <1>4
<1>6. ASSUME NEW i \in 1..(2 * L), s[i].kind = "up"
      PROVE  i + 1 \in 1..(2 * L) /\ s[i + 1].kind = "record" /\ s[i + 1].version = s[i].version
  <2>1. i % 2 = 1
    BY <1>4, <1>6
  <2>2. i + 1 \in 1..(2 * L) /\ (i + 1) % 2 # 1 /\ ((i + 1) + 1) \div 2 = (i + 1) \div 2
    BY <1>0, <2>1
  <2> QED BY <1>4, <2>2
<1>7. ASSUME NEW i \in 1..(2 * L), s[i].kind = "record", i + 1 \in 1..(2 * L) PROVE s[i + 1].kind = "up"
  <2>1. i % 2 # 1
    BY <1>4, <1>7
  <2>2. (i + 1) % 2 = 1
    BY <1>0, <2>1
  <2> QED BY <1>4, <1>7, <2>2
<1>8. ASSUME NEW i \in 1..(2 * L), NEW j \in 1..(2 * L), s[i].version = s[j].version, s[i].kind = s[j].kind PROVE i = j
  <2>1. (i + 1) \div 2 = (j + 1) \div 2
    BY <1>1, <1>4, <1>8 DEF L
  <2>2. (i % 2 = 1) <=> (j % 2 = 1)
    BY <1>4, <1>8
  <2> QED BY <1>0, <2>1, <2>2
<1>9. s # <<>> => s[1].kind = "up"
  <2>1. s # <<>> => 1 \in 1..(2 * L)
    BY <1>0, <1>5
  <2>2. 1 % 2 = 1
    OBVIOUS
  <2> QED BY <1>4, <2>1, <2>2
<1>10. Paired(s)
  BY <1>5, <1>6, <1>7, <1>8 DEF Paired
<1> QED BY <1>4, <1>5, <1>9, <1>10 DEF s

LEMMA PairedTail ==
    ASSUME NEW s, Paired(s), s # <<>>
    PROVE  /\ Paired(Tail(s)) /\ Len(Tail(s)) = Len(s) - 1 /\ Len(s) \in Nat \ {0} /\ Head(s) = s[1] /\ s[1] \in Statement
           /\ \A i \in 1..(Len(s) - 1) : Tail(s)[i] = s[i + 1] /\ i + 1 \in 1..Len(s)
           /\ Tail(s) # <<>> => Tail(s)[1] = s[2] /\ 2 \in 1..Len(s)
<1> DEFINE m == Len(s)
           r == Tail(s)
<1>1. s \in Seq(Statement)
  BY DEF Paired
<1>2. m \in Nat \ {0} /\ r \in Seq(Statement) /\ Len(r) = m - 1 /\ Head(s) = s[1] /\ s[1] \in Statement
  BY <1>1
<1>3. \A i \in 1..(m - 1) : r[i] = s[i + 1]
  BY <1>1, <1>2
<1>4. r # <<>> => m - 1 >= 1
  BY <1>2
<1> HIDE DEF m, r
<1>5. \A i \in 1..(m - 1) : i + 1 \in 1..m
  BY <1>2
<1>6. \A i \in 1..(m - 1) : r[i].kind = "up" =>
         i + 1 \in 1..(m - 1) /\ r[i + 1].kind = "record" /\ r[i + 1].version = r[i].version
  <2> SUFFICES ASSUME NEW i \in 1..(m - 1), r[i].kind = "up"
               PROVE  i + 1 \in 1..(m - 1) /\ r[i + 1].kind = "record" /\ r[i + 1].version = r[i].version
    OBVIOUS
  <2>1. (i + 1) + 1 \in 1..m /\ s[(i + 1) + 1].kind = "record" /\ s[(i + 1) + 1].version = s[i + 1].version
    BY <1>3, <1>5 DEF Paired, m
  <2>2. i + 1 \in 1..(m - 1)
    BY <1>2, <2>1
  <2> QED BY <1>3, <2>1, <2>2
<1>7. \A i \in 1..(m - 1) : r[i].kind = "record" => (i + 1 \in 1..(m - 1) => r[i + 1].kind = "up")
  <2> SUFFICES ASSUME NEW i \in 1..(m - 1), r[i].kind = "record", i + 1 \in 1..(m - 1) PROVE r[i + 1].kind = "up"
    OBVIOUS
  <2>1. s[(i + 1) + 1].kind = "up"
    BY <1>3, <1>5 DEF Paired, m
  <2> QED BY <1>3, <2>1
<1>8. \A i, j \in 1..(m - 1) : r[i].version = r[j].version /\ r[i].kind = r[j].kind => i = j
  <2> SUFFICES ASSUME NEW i \in 1..(m - 1), NEW j \in 1..(m - 1), r[i].version = r[j].version, r[i].kind = r[j].kind PROVE i = j
    OBVIOUS
  <2>1. i + 1 = j + 1
    BY <1>3, <1>5 DEF Paired, m
  <2> QED BY <1>2, <2>1
<1>9. Paired(r)
  BY <1>2, <1>6, <1>7, <1>8 DEF Paired
<1>10. r # <<>> => r[1] = s[2] /\ 2 \in 1..m
  <2> SUFFICES ASSUME r # <<>> PROVE r[1] = s[2] /\ 2 \in 1..m
    OBVIOUS
  <2>1. 1 \in 1..(m - 1) /\ 1 + 1 = 2
    BY <1>2, <1>4
  <2> QED BY <1>3, <1>5, <2>1
<1> QED BY <1>2, <1>3, <1>5, <1>9, <1>10 DEF m, r

(* Nothing is left to run, or it starts with a body. *)
LEMMA NoRow == AtRow \in {0, 1} /\ (todo = <<>> => AtRow = 0) /\ (todo # <<>> => (todo[1].kind = "record" <=> AtRow = 1))
BY DEF AtRow

LEMMA AddStep == ASSUME MigrationsInv, NEW v \in Versions, add_migration(v) PROVE MigrationsInv'
<1>1. /\ available' = [w \in DOMAIN available \cup {v} |-> IF w = v THEN 0 ELSE available[w]]
      /\ v \notin DOMAIN available /\ UNCHANGED <<history, todo, ran, edits, crashes>>
  BY DEF add_migration
<1>2. DOMAIN available' = DOMAIN available \cup {v} /\ \A w \in DOMAIN available : available'[w] = available[w]
  BY <1>1
<1>3. available'[v] = 0
  BY <1>1
<1>4. Recorded' = Recorded /\ AtRow' = AtRow
  BY <1>1 DEF Recorded, AtRow
<1>5. DOMAIN available' \subseteq Versions /\ (\A w \in DOMAIN available' : available'[w] \in Nat)
  BY <1>2, <1>3 DEF MigrationsInv
<1>6. available' = [w \in DOMAIN available' |-> available'[w]]
  BY <1>1
<1> QED BY <1>1, <1>2, <1>4, <1>5, <1>6 DEF MigrationsInv

LEMMA EditStep == ASSUME MigrationsInv, NEW v \in Versions, edit_migration(v) PROVE MigrationsInv'
<1>1. /\ available' = [available EXCEPT ![v] = @ + 1] /\ v \in DOMAIN available
      /\ edits' = edits + 1 /\ UNCHANGED <<history, todo, ran, crashes>>
  BY DEF edit_migration
<1>2. DOMAIN available' = DOMAIN available /\ \A w \in DOMAIN available : available'[w] = IF w = v THEN available[v] + 1 ELSE available[w]
  BY <1>1 DEF MigrationsInv
<1>4. Recorded' = Recorded /\ AtRow' = AtRow
  BY <1>1 DEF Recorded, AtRow
<1>5. DOMAIN available' \subseteq Versions /\ (\A w \in DOMAIN available' : available'[w] \in Nat) /\ edits' \in Nat
  BY <1>1, <1>2 DEF MigrationsInv
<1>6. available' = [w \in DOMAIN available' |-> available'[w]]
  BY <1>1 DEF MigrationsInv
<1> QED BY <1>1, <1>2, <1>4, <1>5, <1>6 DEF MigrationsInv

LEMMA BeginStep == ASSUME MigrationsInv, begin_migration PROVE MigrationsInv'
<1>1. todo = <<>> /\ todo' = statements_for(plan) /\ UNCHANGED <<available, history, ran, edits, crashes>>
  BY DEF begin_migration
<1>2. Recorded' = Recorded
  BY <1>1 DEF Recorded
<1>3. DOMAIN available \ Recorded \subseteq Versions
  BY DEF MigrationsInv
<1>4. Paired(todo') /\ (\A i \in 1..Len(todo') : todo'[i].version \in DOMAIN available \ Recorded) /\ (todo' # <<>> => todo'[1].kind = "up")
  BY <1>1, <1>3, PlanIs, StatementsPaired
<1>5. AtRow = 0 /\ AtRow' = 0
  BY <1>1, <1>4 DEF AtRow
<1> QED BY <1>1, <1>2, <1>4, <1>5 DEF MigrationsInv

LEMMA CrashStep == ASSUME MigrationsInv, crash_migration PROVE MigrationsInv'
<1>1. todo' = <<>> /\ crashes' = crashes + 1 /\ UNCHANGED <<available, history, ran, edits>>
  BY DEF crash_migration
<1>2. Recorded' = Recorded
  BY <1>1 DEF Recorded
<1>3. Paired(todo') /\ Len(todo') = 0
  BY <1>1 DEF Paired
<1>4. AtRow' = 0 /\ AtRow \in {0, 1}
  BY <1>1 DEF AtRow
<1>5. crashes \in Nat /\ crashes' \in Nat /\ crashes' > 0
  BY <1>1 DEF MigrationsInv
<1>6. SumOver(Versions, ran) \in Nat /\ Cardinality(Recorded) \in Nat
  <2>1. Recorded \subseteq Versions
    BY DEF MigrationsInv
  <2>2. IsFiniteSet(Recorded) /\ IsFiniteSet(Versions)
    BY <2>1, DatabaseAssumption, FS_Subset
  <2> QED BY <2>2, FS_CardinalityType, SumOverNat DEF MigrationsInv
<1>7. SumOver(Versions, ran) <= Cardinality(Recorded) + (crashes' + AtRow')
  <2>1. SumOver(Versions, ran) <= Cardinality(Recorded) + (crashes + AtRow)
    BY DEF MigrationsInv
  <2> QED BY <1>1, <1>4, <1>5, <1>6, <2>1
<1> QED BY <1>1, <1>2, <1>3, <1>4, <1>5, <1>7 DEF MigrationsInv

(* The body of a migration runs. *)
LEMMA RunBody == ASSUME MigrationsInv, run_statement, todo[1].kind = "up" PROVE MigrationsInv'
<1> DEFINE v == todo[1].version
<1>0. todo # <<>> /\ todo' = Tail(todo) /\ UNCHANGED <<available, edits, crashes>>
  BY DEF run_statement
<1>1. /\ Paired(todo') /\ Len(todo') = Len(todo) - 1 /\ Len(todo) \in Nat \ {0} /\ Head(todo) = todo[1] /\ todo[1] \in Statement
      /\ \A i \in 1..(Len(todo) - 1) : todo'[i] = todo[i + 1] /\ i + 1 \in 1..Len(todo)
      /\ todo' # <<>> => todo'[1] = todo[2] /\ 2 \in 1..Len(todo)
  BY <1>0, PairedTail DEF MigrationsInv
<1>2. history' = history /\ ran' = [ran EXCEPT ![v] = @ + 1]
  BY <1>1 DEF run_statement
<1>3. v \in Versions /\ v \notin Recorded
  <2>1. 1 \in 1..Len(todo)
    BY <1>1
  <2> QED BY <1>1, <2>1 DEF MigrationsInv, Statement
<1>4. Recorded' = Recorded
  BY <1>2 DEF Recorded
<1>5. ran \in [Versions -> Nat] /\ ran' \in [Versions -> Nat] /\ ran'[v] = ran[v] + 1 /\ \A w \in Versions : w # v => ran'[w] = ran[w]
  BY <1>2, <1>3 DEF MigrationsInv
<1>6. AtRow = 0 /\ AtRow' = 1 /\ todo'[1].version = v
  <2>1. 1 \in 1..Len(todo) /\ 1 + 1 = 2
    BY <1>1
  <2>2. 2 \in 1..Len(todo) /\ todo[2].kind = "record" /\ todo[2].version = v
    BY <2>1 DEF MigrationsInv, Paired
  <2>3. todo' # <<>>
    BY <1>1, <2>2
  <2> QED BY <1>1, <2>2, <2>3 DEF AtRow
<1>7. \A i \in 1..Len(todo') : todo'[i].version \in DOMAIN available \ Recorded
  BY <1>1 DEF MigrationsInv
<1>8. SumOver(Versions, ran') = SumOver(Versions, ran) + 1 /\ SumOver(Versions, ran) \in Nat
  <2>1. IsFiniteSet(Versions)
    BY DatabaseAssumption
  <2>2. \A x \in Versions : ran[x] \in Int /\ ran'[x] \in Int
    BY <1>5
  <2>3. SumOver(Versions, ran') = (SumOver(Versions, ran) - ran[v]) + ran'[v]
    BY <1>3, <1>5, <2>1, <2>2, SumOverReplace
  <2>4. SumOver(Versions, ran) \in Nat /\ ran[v] \in Nat
    BY <1>3, <1>5, <2>1, SumOverNat
  <2> QED BY <1>5, <2>3, <2>4
<1>9. Cardinality(Recorded) \in Nat /\ crashes \in Nat
  <2>1. Recorded \subseteq Versions
    BY DEF MigrationsInv
  <2>2. IsFiniteSet(Recorded)
    BY <2>1, DatabaseAssumption, FS_Subset
  <2> QED BY <2>2, FS_CardinalityType DEF MigrationsInv
<1>10. SumOver(Versions, ran') <= Cardinality(Recorded) + (crashes + AtRow')
  <2>1. SumOver(Versions, ran) <= Cardinality(Recorded) + (crashes + AtRow)
    BY DEF MigrationsInv
  <2> QED BY <1>6, <1>8, <1>9, <2>1
<1>11. \A w \in Recorded : ran'[w] >= 1
  <2>1. Recorded \subseteq Versions /\ \A w \in Recorded : ran[w] >= 1
    BY DEF MigrationsInv
  <2> QED BY <1>3, <1>5, <2>1
<1>12. ran'[todo'[1].version] >= 1
  <2>1. ran[v] \in Nat
    BY <1>3, <1>5
  <2> QED BY <1>5, <1>6, <2>1
<1>13. \A w \in Versions : ran'[w] > 0 /\ w \notin Recorded => crashes > 0 \/ (AtRow' = 1 /\ todo'[1].version = w)
  <2>1. \A w \in Versions : ran[w] > 0 /\ w \notin Recorded => crashes > 0 \/ AtRow = 1
    BY DEF MigrationsInv
  <2> QED BY <1>5, <1>6, <2>1
<1> HIDE DEF v
<1>14. /\ DOMAIN available \subseteq Versions /\ (\A w \in DOMAIN available : available[w] \in Nat)
       /\ available = [w \in DOMAIN available |-> available[w]]
       /\ history \in Seq([version : Versions, edition : Nat]) /\ edits \in Nat /\ Recorded \subseteq DOMAIN available
       /\ \A i, j \in 1..Len(history) : history[i].version = history[j].version => i = j
  BY DEF MigrationsInv
<1>15. (/\ DOMAIN available \subseteq Versions /\ (\A w \in DOMAIN available : available[w] \in Nat)
        /\ available = [w \in DOMAIN available |-> available[w]]
        /\ history \in Seq([version : Versions, edition : Nat])
        /\ ran \in [Versions -> Nat] /\ edits \in Nat /\ crashes \in Nat /\ Recorded \subseteq DOMAIN available)'
  BY <1>0, <1>2, <1>4, <1>5, <1>9, <1>14
<1>16. (\A i, j \in 1..Len(history) : history[i].version = history[j].version => i = j)'
  BY <1>2, <1>14
<1>17. (/\ \A w \in Recorded : ran[w] >= 1
        /\ AtRow = 1 => ran[todo[1].version] >= 1
        /\ \A w \in Versions : ran[w] > 0 /\ w \notin Recorded => crashes > 0 \/ (AtRow = 1 /\ todo[1].version = w)
        /\ SumOver(Versions, ran) <= Cardinality(Recorded) + (crashes + AtRow))'
  BY <1>0, <1>4, <1>10, <1>11, <1>12, <1>13
<1>18. (Paired(todo) /\ \A i \in 1..Len(todo) : todo[i].version \in DOMAIN available \ Recorded)'
  BY <1>0, <1>1, <1>4, <1>7
<1> QED BY <1>15, <1>16, <1>17, <1>18 DEF MigrationsInv

(* The row that records a migration is written. *)
LEMMA RunRow == ASSUME MigrationsInv, run_statement, todo[1].kind = "record" PROVE MigrationsInv'
<1> DEFINE v == todo[1].version
           m == Len(history)
           row == [version |-> v, edition |-> available[v]]
<1>0. todo # <<>> /\ todo' = Tail(todo) /\ UNCHANGED <<available, edits, crashes>>
  BY DEF run_statement
<1>1. /\ Paired(todo') /\ Len(todo') = Len(todo) - 1 /\ Len(todo) \in Nat \ {0} /\ Head(todo) = todo[1] /\ todo[1] \in Statement
      /\ \A i \in 1..(Len(todo) - 1) : todo'[i] = todo[i + 1] /\ i + 1 \in 1..Len(todo)
      /\ todo' # <<>> => todo'[1] = todo[2] /\ 2 \in 1..Len(todo)
  BY <1>0, PairedTail DEF MigrationsInv
<1>2. ran' = ran /\ history' = Append(history, row)
  BY <1>1 DEF run_statement
<1>3. v \in Versions /\ v \notin Recorded /\ v \in DOMAIN available /\ available[v] \in Nat
  <2>1. 1 \in 1..Len(todo)
    BY <1>1
  <2> QED BY <1>1, <2>1 DEF MigrationsInv, Statement
<1>4. row \in [version : Versions, edition : Nat] /\ row.version = v
  BY <1>3
<1>5. history \in Seq([version : Versions, edition : Nat]) /\ m \in Nat
  BY DEF MigrationsInv
<1> HIDE DEF row
<1>6. /\ history' \in Seq([version : Versions, edition : Nat]) /\ Len(history') = m + 1
      /\ history'[m + 1] = row /\ \A i \in 1..m : history'[i] = history[i]
  BY <1>2, <1>4, <1>5
<1>7. DOMAIN history = 1..m /\ DOMAIN history' = 1..(m + 1)
  BY <1>5, <1>6
<1>8. \A i \in 1..(m + 1) : i \in 1..m \/ i = m + 1
  BY <1>5
<1>9. m + 1 \in 1..(m + 1) /\ \A i \in 1..m : i \in 1..(m + 1)
  BY <1>5
<1> HIDE DEF v, m
<1>10. Recorded' = Recorded \cup {v}
  BY <1>4, <1>6, <1>7, <1>8, <1>9 DEF Recorded
<1>11. \A i \in 1..m : history[i].version # v
  BY <1>3, <1>7 DEF Recorded
<1>12. \A i, j \in 1..(m + 1) : history'[i].version = history'[j].version => i = j
  <2>1. \A i, j \in 1..m : history[i].version = history[j].version => i = j
    BY DEF MigrationsInv, m
  <2> QED BY <1>4, <1>6, <1>8, <1>11, <2>1
<1>13. AtRow = 1 /\ AtRow' = 0
  <2>1. AtRow = 1
    BY <1>0 DEF AtRow
  <2>2. todo' # <<>> => todo'[1].kind = "up"
    <3> SUFFICES ASSUME todo' # <<>> PROVE todo'[1].kind = "up"
      OBVIOUS
    <3>1. 1 \in 1..Len(todo) /\ 1 + 1 = 2 /\ 2 \in 1..Len(todo) /\ todo'[1] = todo[2]
      BY <1>1
    <3>2. todo[2].kind = "up"
      BY <3>1 DEF MigrationsInv, Paired
    <3> QED BY <3>1, <3>2
  <2>3. AtRow' = 0
    BY <2>2 DEF AtRow
  <2> QED BY <2>1, <2>3
<1>14. ran[v] >= 1
  BY <1>13 DEF MigrationsInv, v
<1>15. \A i \in 1..Len(todo') : todo'[i].version \in DOMAIN available \ (Recorded \cup {v})
  <2> SUFFICES ASSUME NEW i \in 1..Len(todo') PROVE todo'[i].version \in DOMAIN available \ (Recorded \cup {v})
    OBVIOUS
  <2>1. i + 1 \in 1..Len(todo) /\ todo'[i] = todo[i + 1] /\ 1 \in 1..Len(todo) /\ i + 1 # 1
    BY <1>1
  <2>2. todo[i + 1].version \in DOMAIN available \ Recorded
    BY <2>1 DEF MigrationsInv
  <2>3. todo[i + 1].version # v
    <3> SUFFICES ASSUME todo[i + 1].version = todo[1].version PROVE FALSE
      BY DEF v
    <3>1. \A x, y \in 1..Len(todo) : todo[x].version = todo[y].version /\ todo[x].kind = todo[y].kind => x = y
      BY DEF MigrationsInv, Paired
    <3>2. todo[i + 1] \in Statement
      BY <2>1 DEF MigrationsInv, Paired
    <3>3. todo[i + 1].kind = "up"
      BY <2>1, <3>1, <3>2 DEF Statement
    <3>4. (i + 1) + 1 \in 1..Len(todo) /\ todo[(i + 1) + 1].kind = "record" /\ todo[(i + 1) + 1].version = todo[i + 1].version
      BY <2>1, <3>3 DEF MigrationsInv, Paired
    <3>5. (i + 1) + 1 = 1
      BY <2>1, <3>1, <3>4
    <3> QED BY <2>1, <3>5
  <2> QED BY <2>1, <2>2, <2>3
<1>16. /\ Cardinality(Recorded \cup {v}) = Cardinality(Recorded) + 1
       /\ Cardinality(Recorded) \in Nat /\ crashes \in Nat /\ SumOver(Versions, ran) \in Nat
  <2>1. Recorded \subseteq Versions
    BY DEF MigrationsInv
  <2>2. IsFiniteSet(Recorded) /\ IsFiniteSet(Versions)
    BY <2>1, DatabaseAssumption, FS_Subset
  <2>3. SumOver(Versions, ran) \in Nat
    BY <2>2, SumOverNat DEF MigrationsInv
  <2>4. Cardinality(Recorded \cup {v}) = Cardinality(Recorded) + 1
    BY <1>3, <2>2, FS_AddElement
  <2> QED BY <2>2, <2>3, <2>4, FS_CardinalityType DEF MigrationsInv
<1>17. SumOver(Versions, ran) <= Cardinality(Recorded \cup {v}) + (crashes + AtRow')
  <2>1. SumOver(Versions, ran) <= Cardinality(Recorded) + (crashes + AtRow)
    BY DEF MigrationsInv
  <2> QED BY <1>13, <1>16, <2>1
<1>18. \A w \in Recorded \cup {v} : ran[w] >= 1
  BY <1>14 DEF MigrationsInv
<1>19. \A w \in Versions : ran[w] > 0 /\ w \notin Recorded \cup {v} => crashes > 0
  BY DEF MigrationsInv, v
<1>20. /\ DOMAIN available \subseteq Versions /\ (\A w \in DOMAIN available : available[w] \in Nat)
       /\ available = [w \in DOMAIN available |-> available[w]]
       /\ ran \in [Versions -> Nat] /\ edits \in Nat /\ Recorded \cup {v} \subseteq DOMAIN available
  BY <1>3 DEF MigrationsInv
<1>21. (/\ DOMAIN available \subseteq Versions /\ (\A w \in DOMAIN available : available[w] \in Nat)
        /\ available = [w \in DOMAIN available |-> available[w]]
        /\ history \in Seq([version : Versions, edition : Nat])
        /\ ran \in [Versions -> Nat] /\ edits \in Nat /\ crashes \in Nat /\ Recorded \subseteq DOMAIN available)'
  BY <1>0, <1>2, <1>6, <1>10, <1>16, <1>20
<1>22. (\A i, j \in 1..Len(history) : history[i].version = history[j].version => i = j)'
  BY <1>6, <1>12
<1>23. (/\ \A w \in Recorded : ran[w] >= 1
        /\ AtRow = 1 => ran[todo[1].version] >= 1
        /\ \A w \in Versions : ran[w] > 0 /\ w \notin Recorded => crashes > 0 \/ (AtRow = 1 /\ todo[1].version = w)
        /\ SumOver(Versions, ran) <= Cardinality(Recorded) + (crashes + AtRow))'
  BY <1>0, <1>2, <1>10, <1>13, <1>17, <1>18, <1>19
<1>24. (Paired(todo) /\ \A i \in 1..Len(todo) : todo[i].version \in DOMAIN available \ Recorded)'
  BY <1>0, <1>1, <1>10, <1>15
<1> QED BY <1>21, <1>22, <1>23, <1>24 DEF MigrationsInv

LEMMA MigrationsStep == MigrationsInv /\ [MigrationsNext]_migrationVars => MigrationsInv'
<1> SUFFICES ASSUME MigrationsInv, [MigrationsNext]_migrationVars PROVE MigrationsInv'
  OBVIOUS
<1>1. CASE UNCHANGED migrationVars
  BY <1>1 DEF MigrationsInv, migrationVars, Recorded, AtRow, Paired
<1>2. CASE run_statement
  <2>1. todo # <<>>
    BY <1>2 DEF run_statement
  <2>2. todo[1] \in Statement
    BY <2>1, PairedTail DEF MigrationsInv
  <2>3. todo[1].kind = "up" \/ todo[1].kind = "record"
    BY <2>2 DEF Statement
  <2> QED BY <1>2, <2>3, RunBody, RunRow
<1> QED BY <1>1, <1>2, AddStep, EditStep, BeginStep, CrashStep DEF MigrationsNext

LEMMA MigrationsInvGives == MigrationsInv => MigrationsSound
<1> SUFFICES ASSUME MigrationsInv PROVE MigrationsSound
  OBVIOUS
<1>1. DOMAIN history = 1..Len(history) /\ \A i \in 1..Len(history) : history[i].version \in Recorded
  BY DEF MigrationsInv, Recorded
<1>2. ASSUME NEW v \in Versions, AtRow = 1, todo[1].version = v
      PROVE  todo # <<>> /\ Head(todo) = [kind |-> "record", version |-> v]
  <2>1. todo # <<>> /\ todo[1].kind = "record"
    BY <1>2 DEF AtRow
  <2>2. Head(todo) = todo[1] /\ todo[1] \in Statement
    BY <2>1, PairedTail DEF MigrationsInv
  <2> QED BY <1>2, <2>1, <2>2 DEF Statement
<1>3. SumOver(Versions, ran) <= (Cardinality(Recorded) + crashes) + (IF todo = <<>> THEN 0 ELSE 1)
  <2>1. Recorded \subseteq Versions
    BY DEF MigrationsInv
  <2>2. IsFiniteSet(Recorded) /\ IsFiniteSet(Versions)
    BY <2>1, DatabaseAssumption, FS_Subset
  <2>3. SumOver(Versions, ran) \in Nat /\ Cardinality(Recorded) \in Nat /\ crashes \in Nat
    BY <2>2, SumOverNat, FS_CardinalityType DEF MigrationsInv
  <2>4. SumOver(Versions, ran) <= Cardinality(Recorded) + (crashes + AtRow)
    BY DEF MigrationsInv
  <2>5. AtRow \in {0, 1} /\ (todo = <<>> => AtRow = 0)
    BY DEF AtRow
  <2> QED BY <2>3, <2>4, <2>5
<1>4. ASSUME NEW i \in 1..Len(history), history[i].version \notin drift
      PROVE  available[history[i].version] = history[i].edition
  <2>1. history[i].version \in DOMAIN available
    BY <1>1 DEF MigrationsInv
  <2> QED BY <1>1, <1>4, <2>1 DEF drift
<1>5. \A v \in Versions : ran[v] > 0 /\ v \notin Recorded => crashes > 0 \/ (AtRow = 1 /\ todo[1].version = v)
  BY DEF MigrationsInv
<1>6. (\A v \in Recorded : ran[v] >= 1) /\ \A i, j \in 1..Len(history) : history[i].version = history[j].version => i = j
  BY DEF MigrationsInv
<1> QED BY <1>1, <1>2, <1>3, <1>4, <1>5, <1>6 DEF MigrationsSound

LEMMA MigrationsStart == MigrationsInit => MigrationsInv
<1> SUFFICES ASSUME MigrationsInit PROVE MigrationsInv
  OBVIOUS
<1>1. available = <<>> /\ history = <<>> /\ todo = <<>> /\ edits = 0 /\ crashes = 0 /\ ran = [v \in Versions |-> 0]
  BY DEF MigrationsInit
<1>2. DOMAIN available = {} /\ available = [w \in DOMAIN available |-> available[w]]
  BY <1>1
<1>3. Len(history) = 0 /\ history \in Seq([version : Versions, edition : Nat]) /\ Len(todo) = 0 /\ Recorded = {}
  BY <1>1 DEF Recorded
<1>4. Paired(todo) /\ AtRow = 0
  BY <1>1 DEF Paired, AtRow
<1>5. SumOver(Versions, ran) = 0 * Cardinality(Versions) /\ Cardinality(Versions) \in Nat
  <2>1. IsFiniteSet(Versions) /\ 0 \in Int /\ \A v \in Versions : ran[v] = 0
    BY <1>1, DatabaseAssumption
  <2> QED BY <2>1, SumOverConstant, FS_CardinalityType
<1>6. Cardinality(Recorded) = 0
  BY <1>3, FS_EmptySet
<1>7. SumOver(Versions, ran) <= Cardinality(Recorded) + (crashes + AtRow)
  BY <1>1, <1>4, <1>5, <1>6
<1> QED BY <1>1, <1>2, <1>3, <1>4, <1>7 DEF MigrationsInv

-----------------------------------------------------------------------------
(* Conformance: what was checked and what is left are what was claimed.    *)

ConformanceInv ==
    /\ DOMAIN checks # {} => DOMAIN checks \cup toCheck = capabilities(backend)
    /\ DOMAIN checks = {} => toCheck = {} \/ toCheck = capabilities(backend)
    /\ \A cap \in DOMAIN checks : checks[cap] \in {"Pass", "Fail", "NotApplicable"}
    /\ \A cap \in DOMAIN checks \ Unasserted : checks[cap] = "Fail" \/ cap \in works

LEMMA ConformanceStep == ConformanceInv /\ [ConformanceNext]_conformanceVars => ConformanceInv'
<1> SUFFICES ASSUME ConformanceInv, [ConformanceNext]_conformanceVars PROVE ConformanceInv'
  OBVIOUS
<1>1. CASE UNCHANGED conformanceVars
  BY <1>1 DEF ConformanceInv, conformanceVars
<1>2. ASSUME NEW b, NEW w, ping(b, w) PROVE ConformanceInv'
  <2>1. DOMAIN checks' = {} /\ toCheck' = capabilities(b) /\ backend' = b
    BY <1>2 DEF ping
  <2>2. toCheck' = capabilities(backend)'
    BY <2>1 DEF capabilities, is_mysql_family
  <2> QED BY <2>1, <2>2 DEF ConformanceInv
<1>3. ASSUME NEW cap \in Capability, NEW dies \in BOOLEAN, check_capability(cap, dies) PROVE ConformanceInv'
  <2> DEFINE st == Status(cap, dies)
  <2>1. cap \in toCheck /\ toCheck' = toCheck \ {cap} /\ backend' = backend /\ works' = works
        /\ checks' = [x \in DOMAIN checks \cup {cap} |-> IF x = cap THEN st ELSE checks[x]]
    BY <1>3 DEF check_capability
  <2>2. st \in {"Pass", "Fail", "NotApplicable"} /\ (cap \notin Unasserted => st = "Fail" \/ cap \in works)
    BY DEF Status, Unasserted
  <2> HIDE DEF st
  <2>3. DOMAIN checks' = DOMAIN checks \cup {cap} /\ checks'[cap] = st /\ \A x \in DOMAIN checks : x # cap => checks'[x] = checks[x]
    BY <2>1
  <2>4. DOMAIN checks \cup toCheck = capabilities(backend)
    BY <2>1 DEF ConformanceInv
  <2>5. capabilities(backend)' = capabilities(backend)
    BY <2>1 DEF capabilities, is_mysql_family
  <2>6. DOMAIN checks' # {} /\ DOMAIN checks' \cup toCheck' = capabilities(backend)
    BY <2>1, <2>3, <2>4
  <2>7. \A x \in DOMAIN checks' : checks'[x] \in {"Pass", "Fail", "NotApplicable"}
    BY <2>2, <2>3 DEF ConformanceInv
  <2>8. \A x \in DOMAIN checks' \ Unasserted : checks'[x] = "Fail" \/ x \in works'
    BY <2>1, <2>2, <2>3 DEF ConformanceInv
  <2> QED BY <2>5, <2>6, <2>7, <2>8 DEF ConformanceInv, Unasserted
<1> QED BY <1>1, <1>2, <1>3 DEF ConformanceNext

LEMMA ConformanceInvGives == ConformanceInv => ConformanceHonest
BY DEF ConformanceInv, ConformanceHonest, verdict_of

LEMMA ConformanceStart == ConformanceInit => ConformanceInv
<1> SUFFICES ASSUME ConformanceInit PROVE ConformanceInv
  OBVIOUS
<1>1. DOMAIN checks = {} /\ toCheck = {}
  BY DEF ConformanceInit
<1> QED BY <1>1 DEF ConformanceInv

(* The three machines of the database layer, side by side. *)
DatabaseParts ==
    /\ TransactionsInit /\ MigrationsInit /\ ConformanceInit
    /\ [][TransactionsNext]_transactionVars /\ [][MigrationsNext]_migrationVars /\ [][ConformanceNext]_conformanceVars

(* For any accounts, amounts, statements, migrations, edits and crashes: a *)
(* transaction that commits holds all that was put to it and no half of a  *)
(* transfer; a migration is recorded once and after its body ran, and      *)
(* bodies run again only after a crash (Migrator); and a backend passes    *)
(* conformance only with what it claims and the suite asserts.             *)
THEOREM DatabaseAlwaysSound == DatabaseParts => []DatabaseSound
<1>1. TransactionsInv /\ MigrationsInv /\ ConformanceInv => DatabaseSound
  BY MigrationsInvGives, ConformanceInvGives DEF DatabaseSound, TransactionsInv
<1> QED BY <1>1, TransactionsStart, MigrationsStart, ConformanceStart, TransactionsStep, MigrationsStep, ConformanceStep, PTL
        DEF DatabaseParts

-----------------------------------------------------------------------------
(* The clock estimate. *)

(* The error of a round is at most half its round trip, rounded up. *)
Sample ==
    {s \in [rtt : Nat, offset : Int] :
        /\ s.rtt <= 2 * MaxDelay
        /\ 2 * (s.offset - Theta) <= s.rtt + 1 /\ 2 * (Theta - s.offset) <= s.rtt + 1}

ClockInv ==
    /\ samples \in Seq(Sample) /\ Len(samples) <= SampleCap
    /\ samples = <<>> <=> bestRtt = -1
    /\ samples # <<>> =>
         /\ bestRtt \in Nat /\ \A i \in 1..Len(samples) : bestRtt <= samples[i].rtt
         /\ SampleCap > 1 => \E i \in 1..Len(samples) : samples[i].rtt = bestRtt

LEMMA RoundIsSample == \A d1, d2 \in 0..MaxDelay : Round(d1, d2) \in Sample
<1> SUFFICES ASSUME NEW d1 \in 0..MaxDelay, NEW d2 \in 0..MaxDelay PROVE Round(d1, d2) \in Sample
  OBVIOUS
<1> DEFINE o == Quot((Theta + d1 - 0) + ((Theta + d1) - (d1 + d2)), 2)
           t == Max({((d1 + d2) - 0) - ((Theta + d1) - (Theta + d1)), 0})
<1>0. Theta \in Int /\ d1 \in Nat /\ d2 \in Nat /\ d1 <= MaxDelay /\ d2 <= MaxDelay /\ MaxDelay \in Nat
  BY TimelineAssumption
<1>1. Round(d1, d2) = [rtt |-> t, offset |-> o]
  BY <1>0 DEF Round, from_sample
<1>2. ((d1 + d2) - 0) - ((Theta + d1) - (Theta + d1)) = d1 + d2
  BY <1>0
<1>3. t = d1 + d2
  BY <1>0, <1>2, MaxOfPair
<1>4. (Theta + d1 - 0) + ((Theta + d1) - (d1 + d2)) = 2 * Theta + (d1 - d2)
  BY <1>0
<1>5. o = Quot(2 * Theta + (d1 - d2), 2)
  BY <1>4
<1> HIDE DEF o, t
<1>6. /\ o \in Int /\ 2 * (o - Theta) <= (d1 + d2) + 1 /\ 2 * (Theta - o) <= (d1 + d2) + 1
  BY <1>0, <1>5 DEF Quot
<1> QED BY <1>0, <1>1, <1>3, <1>6 DEF Sample

(* Dropping one keeps the others. *)
LEMMA EvictedIs ==
    ASSUME NEW T, NEW s \in Seq(T), NEW w \in 1..Len(s)
    PROVE  /\ Evicted(s, w) \in Seq(T) /\ Len(Evicted(s, w)) = Len(s) - 1
           /\ \A i \in 1..(Len(s) - 1) : \E j \in 1..Len(s) : Evicted(s, w)[i] = s[j]
           /\ \A j \in 1..Len(s) : j # w => \E i \in 1..(Len(s) - 1) : Evicted(s, w)[i] = s[j]
<1> DEFINE n == Len(s)
           q == Evicted(s, w)
           k(j) == IF j < w THEN j ELSE j + 1
<1>1. n \in Nat /\ n > 0 /\ n - 1 \in Nat /\ w \in 1..n
  OBVIOUS
<1>2. q = [j \in 1..(n - 1) |-> s[k(j)]]
  BY DEF Evicted
<1>3. \A j \in 1..(n - 1) : k(j) \in 1..n
  BY <1>1
<1>4. \A j \in 1..n : s[j] \in T
  OBVIOUS
<1> HIDE DEF n, q
<1>5. q \in [1..(n - 1) -> T]
  BY <1>2, <1>3, <1>4
<1>6. q \in Seq(T) /\ Len(q) = n - 1
  BY <1>1, <1>5
<1>7. \A i \in 1..(n - 1) : \E j \in 1..n : q[i] = s[j]
  <2> SUFFICES ASSUME NEW i \in 1..(n - 1) PROVE \E j \in 1..n : q[i] = s[j]
    OBVIOUS
  <2>1. k(i) \in 1..n /\ q[i] = s[k(i)]
    BY <1>2, <1>3
  <2> QED BY <2>1
<1>8. \A j \in 1..n : j # w => \E i \in 1..(n - 1) : q[i] = s[j]
  <2> SUFFICES ASSUME NEW j \in 1..n, j # w PROVE \E i \in 1..(n - 1) : q[i] = s[j]
    OBVIOUS
  <2>1. CASE j < w
    <3>1. j \in 1..(n - 1) /\ k(j) = j
      BY <1>1, <2>1
    <3>2. q[j] = s[j]
      BY <1>2, <3>1
    <3> QED BY <3>1, <3>2
  <2>2. CASE ~(j < w)
    <3>1. j - 1 \in 1..(n - 1) /\ k(j - 1) = j
      BY <1>1, <2>2
    <3>2. q[j - 1] = s[j]
      BY <1>2, <3>1
    <3> QED BY <3>1, <3>2
  <2> QED BY <2>1, <2>2
<1> QED BY <1>6, <1>7, <1>8 DEF n, q

(* The sample that goes has the longest round trip. *)
LEMMA WorstIs ==
    ASSUME NEW s \in Seq(Sample), s # <<>>
    PROVE  Worst(s) \in 1..Len(s) /\ \A j \in 1..Len(s) : s[j].rtt <= s[Worst(s)].rtt
<1> DEFINE R == {s[i].rtt : i \in 1..Len(s)}
           W == {i \in 1..Len(s) : \A j \in 1..Len(s) : s[j].rtt <= s[i].rtt}
<1>0. Len(s) \in Nat /\ Len(s) > 0 /\ DOMAIN s = 1..Len(s)
  OBVIOUS
<1>1. \A i \in 1..Len(s) : s[i].rtt \in Nat /\ s[i].rtt <= 2 * MaxDelay
  BY DEF Sample
<1>2. 2 * MaxDelay \in Int
  BY TimelineAssumption
<1>3. R # {} /\ \A x \in R : x \in Int /\ x <= 2 * MaxDelay
  BY <1>0, <1>1
<1> HIDE DEF R
<1>4. Max(R) \in R /\ \A y \in R : y <= Max(R)
  BY <1>2, <1>3, GreatestOf
<1>5. PICK i \in 1..Len(s) : Max(R) = s[i].rtt
  BY <1>4 DEF R
<1>6. i \in W
  BY <1>4, <1>5 DEF R
<1>7. W # {} /\ \A x \in W : x \in Int /\ x <= Len(s)
  BY <1>0, <1>6
<1>8. Max(W) \in W
  <2> HIDE DEF W
  <2> QED BY <1>0, <1>7, GreatestOf
<1>9. Worst(s) = Max(W)
  BY <1>0 DEF Worst
<1> QED BY <1>8, <1>9

LEMMA PushKeeps == ASSUME ClockInv, NEW r \in Sample, push(r) PROVE ClockInv'
<1> DEFINE n == Len(samples)
           q == IF n >= SampleCap THEN Evicted(samples, Worst(samples)) ELSE samples
           b == IF bestRtt = -1 THEN r.rtt ELSE Min({bestRtt, r.rtt})
<1>0. /\ samples \in Seq(Sample) /\ n \in Nat /\ n <= SampleCap /\ SampleCap \in Nat /\ SampleCap > 0
      /\ r.rtt \in Nat
  BY TimelineAssumption DEF ClockInv, Sample
<1>1. samples' = Append(q, r) /\ bestRtt' = b
  BY DEF push
<1>2. \A i \in 1..n : samples[i].rtt \in Nat
  BY <1>0 DEF Sample
<1>3. samples # <<>> => bestRtt \in Nat /\ \A i \in 1..n : bestRtt <= samples[i].rtt
  BY DEF ClockInv
<1>4. samples = <<>> => n = 0 /\ bestRtt = -1
  BY DEF ClockInv
<1>5. b \in Nat /\ b <= r.rtt /\ (samples # <<>> => b <= bestRtt) /\ (b = r.rtt \/ (samples # <<>> /\ b = bestRtt))
  <2>1. CASE samples = <<>>
    BY <1>0, <1>4, <2>1
  <2>2. CASE samples # <<>>
    BY <1>0, <1>3, <2>2, MinOfPair
  <2> QED BY <2>1, <2>2
<1> HIDE DEF b
<1>6. /\ q \in Seq(Sample) /\ Len(q) < SampleCap
      /\ \A i \in 1..Len(q) : \E j \in 1..n : q[i] = samples[j]
      /\ samples # <<>> /\ SampleCap > 1 => \E i \in 1..Len(q) : q[i].rtt = bestRtt
  <2>1. CASE n < SampleCap
    <3>1. q = samples
      BY <1>0, <2>1
    <3> HIDE DEF q
    <3> QED BY <1>0, <2>1, <3>1 DEF ClockInv
  <2>2. CASE n >= SampleCap
    <3> DEFINE w == Worst(samples)
    <3>1. q = Evicted(samples, w) /\ n = SampleCap /\ samples # <<>>
      BY <1>0, <1>4, <2>2
    <3>2. w \in 1..n /\ \A j \in 1..n : samples[j].rtt <= samples[w].rtt
      BY <1>0, <3>1, WorstIs
    <3> HIDE DEF w, q
    <3>3. /\ q \in Seq(Sample) /\ Len(q) = n - 1
          /\ \A i \in 1..(n - 1) : \E j \in 1..n : q[i] = samples[j]
          /\ \A j \in 1..n : j # w => \E i \in 1..(n - 1) : q[i] = samples[j]
      BY <1>0, <3>1, <3>2, EvictedIs
    <3>4. ASSUME SampleCap > 1 PROVE \E j \in 1..n : j # w /\ samples[j].rtt = bestRtt
      <4>1. PICK i \in 1..n : samples[i].rtt = bestRtt
        BY <3>1, <3>4 DEF ClockInv
      <4>2. CASE i = w
        <5>1. PICK j \in 1..n : j # w
          <6>1. 1 \in 1..n /\ 2 \in 1..n
            BY <1>0, <3>1, <3>4
          <6> QED BY <6>1
        <5>2. samples[j].rtt = bestRtt
          BY <1>2, <1>3, <3>1, <3>2, <4>1, <4>2
        <5> QED BY <5>1, <5>2
      <4> QED BY <4>1, <4>2
    <3>5. SampleCap > 1 => \E i \in 1..(n - 1) : q[i].rtt = bestRtt
      BY <3>3, <3>4
    <3> QED BY <1>0, <3>1, <3>3, <3>5
  <2> QED BY <1>0, <2>1, <2>2
<1> HIDE DEF q
<1> DEFINE m == Len(q)
<1>7. /\ samples' \in Seq(Sample) /\ Len(samples') = m + 1 /\ samples'[m + 1] = r /\ m \in Nat
      /\ \A i \in 1..m : samples'[i] = q[i]
  BY <1>1, <1>6
<1>8. \A i \in 1..(m + 1) : i \in 1..m \/ i = m + 1
  BY <1>7
<1>9. m + 1 \in 1..(m + 1) /\ (\A i \in 1..m : i \in 1..(m + 1)) /\ m + 1 <= SampleCap
  BY <1>0, <1>6, <1>7
<1> HIDE DEF m
<1>10. \A i \in 1..m : b <= samples'[i].rtt
  <2> SUFFICES ASSUME NEW i \in 1..m PROVE b <= samples'[i].rtt
    OBVIOUS
  <2>1. PICK j \in 1..n : q[i] = samples[j]
    BY <1>6 DEF m
  <2>2. samples # <<>>
    BY <1>4
  <2>3. bestRtt \in Nat /\ bestRtt <= samples[j].rtt /\ samples[j].rtt \in Nat /\ b <= bestRtt
    BY <1>2, <1>3, <1>5, <2>2
  <2> QED BY <1>5, <1>7, <2>1, <2>3
<1>11. \A i \in 1..(m + 1) : b <= samples'[i].rtt
  BY <1>5, <1>7, <1>8, <1>10
<1>12. SampleCap > 1 => \E i \in 1..(m + 1) : samples'[i].rtt = b
  <2> SUFFICES ASSUME SampleCap > 1 PROVE \E i \in 1..(m + 1) : samples'[i].rtt = b
    OBVIOUS
  <2>1. CASE b = r.rtt
    BY <1>7, <1>9, <2>1
  <2>2. CASE samples # <<>> /\ b = bestRtt
    <3>1. PICK i \in 1..m : q[i].rtt = bestRtt
      BY <1>6, <2>2 DEF m
    <3> QED BY <1>7, <1>9, <2>2, <3>1
  <2> QED BY <1>5, <2>1, <2>2
<1>13. samples' # <<>> /\ bestRtt' # -1
  BY <1>1, <1>5, <1>7
<1> QED BY <1>1, <1>5, <1>7, <1>9, <1>11, <1>12, <1>13 DEF ClockInv

LEMMA ClockStep == ClockInv /\ [ClockNext]_clockVars => ClockInv'
<1> SUFFICES ASSUME ClockInv, [ClockNext]_clockVars PROVE ClockInv'
  OBVIOUS
<1>1. CASE ClockNext
  <2>1. PICK d1 \in 0..MaxDelay, d2 \in 0..MaxDelay : push(Round(d1, d2))
    BY <1>1 DEF ClockNext
  <2>2. Round(d1, d2) \in Sample
    BY RoundIsSample
  <2> QED BY <2>1, <2>2, PushKeeps
<1>2. CASE UNCHANGED clockVars
  BY <1>2 DEF clockVars, ClockInv
<1> QED BY <1>1, <1>2

LEMMA Halved == \A e \in Int, k \in Nat : 2 * e <= k + 1 => e <= (k + 1) \div 2
OBVIOUS

LEMMA MeanIsNat == \A a \in Nat, b \in Nat \ {0} : a \div b \in Nat
OBVIOUS

LEMMA ClockInvGives == ClockInv => EstimateIsBest
<1> SUFFICES ASSUME ClockInv, samples # <<>>, SampleCap > 1 PROVE EstimateIsBest
  BY DEF EstimateIsBest
<1> DEFINE n == Len(samples)
           B == {i \in 1..n : \A j \in 1..n : samples[i].rtt <= samples[j].rtt}
           O == {samples[i].offset : i \in 1..n}
           S == SumTo(n, [i \in 1..n |-> samples[i].rtt])
<1>0. samples \in Seq(Sample) /\ n \in Nat /\ n > 0 /\ DOMAIN samples = 1..n /\ bestRtt \in Nat
  BY DEF ClockInv
<1>t. Theta \in Int /\ MaxLead \in Nat /\ MaxDelay \in Nat
  BY TimelineAssumption
<1>1. \A i \in 1..n : /\ samples[i].rtt \in Nat /\ samples[i].offset \in Int
                      /\ samples[i].rtt <= 2 * MaxDelay
                      /\ 2 * (samples[i].offset - Theta) <= samples[i].rtt + 1
                      /\ 2 * (Theta - samples[i].offset) <= samples[i].rtt + 1
  BY <1>0 DEF Sample
<1>2. \A i \in 1..n : bestRtt <= samples[i].rtt
  BY DEF ClockInv
<1>3. PICK best \in 1..n : samples[best].rtt = bestRtt
  BY DEF ClockInv
<1>4. Min(B) \in B
  <2>1. best \in B
    BY <1>2, <1>3
  <2>2. \A i \in B : i \in Int /\ 1 <= i
    OBVIOUS
  <2>3. B # {} /\ 1 \in Int
    BY <2>1
  <2> HIDE DEF B
  <2> QED BY <2>2, <2>3, LeastOf
<1>5. Min(B) \in 1..n /\ samples[Min(B)].rtt = bestRtt
  <2>1. samples[Min(B)].rtt <= samples[best].rtt
    BY <1>3, <1>4
  <2>2. Min(B) \in 1..n
    BY <1>4
  <2> HIDE DEF B
  <2> QED BY <1>1, <1>2, <1>3, <2>1, <2>2
<1>6. offset_ms = samples[Min(B)].offset
  BY <1>0 DEF offset_ms
<1> HIDE DEF B
<1> DEFINE e == offset_ms - Theta
<1>7. offset_ms \in Int /\ 2 * e <= bestRtt + 1 /\ 2 * (Theta - offset_ms) <= bestRtt + 1
  BY <1>1, <1>5, <1>6
<1>8. e \in Int /\ -e = Theta - offset_ms /\ -e \in Int
  BY <1>7, <1>t
<1>9. Max({e, -e}) * 2 <= bestRtt + 1
  <2>1. Max({e, -e}) = IF e >= -e THEN e ELSE -e
    BY <1>8, MaxOfPair
  <2>2. 2 * (-e) <= bestRtt + 1
    BY <1>7, <1>8
  <2> HIDE DEF e
  <2> QED BY <1>0, <1>7, <1>8, <2>1, <2>2
<1>10. ASSUME bestRtt <= MaxLead, NEW d \in 0..MaxDelay
       PROVE  validate_client_time_claim(Theta + d, offset_ms, d + ((bestRtt + 1) \div 2))
  <2> DEFINE h == (bestRtt + 1) \div 2
  <2>1. -e <= h /\ h \in Int
    BY <1>0, <1>7, <1>8, Halved
  <2>2. (Theta + d) - offset_ms = d - e /\ d \in Nat
    BY <1>7, <1>8, <1>t
  <2>3. e <= MaxLead
    BY <1>0, <1>7, <1>8, <1>10, <1>t
  <2> HIDE DEF e, h
  <2>4. d - e <= d + h /\ d - e >= -MaxLead
    BY <1>8, <1>t, <2>1, <2>2, <2>3
  <2> QED BY <2>2, <2>4 DEF validate_client_time_claim, h
<1>11. rtt_ms \in Nat
  <2>1. [i \in 1..n |-> samples[i].rtt] \in [1..n -> Nat]
    BY <1>1
  <2>2. S \in Nat
    BY <1>0, <2>1, SumToNat
  <2>3. rtt_ms = S \div n
    BY DEF rtt_ms
  <2> HIDE DEF S, n
  <2> QED BY <1>0, <2>2, <2>3, MeanIsNat
<1>12. jitter_ms \in Nat
  <2>1. CASE n <= 1
    BY <2>1 DEF jitter_ms
  <2>2. CASE n > 1
    <3>1. O # {} /\ \A x \in O : x \in Int
      BY <1>0, <1>1
    <3>2. \A x \in O : 2 * (x - Theta) <= (2 * MaxDelay) + 1 /\ 2 * (Theta - x) <= (2 * MaxDelay) + 1
      <4>1. ASSUME NEW i \in 1..n
            PROVE  /\ 2 * (samples[i].offset - Theta) <= (2 * MaxDelay) + 1
                   /\ 2 * (Theta - samples[i].offset) <= (2 * MaxDelay) + 1
        <5>1. \A k, x, y \in Int : k <= 2 * MaxDelay /\ 2 * (x - y) <= k + 1 => 2 * (x - y) <= (2 * MaxDelay) + 1
          BY <1>t
        <5>2. /\ samples[i].rtt \in Int /\ samples[i].offset \in Int /\ samples[i].rtt <= 2 * MaxDelay
              /\ 2 * (samples[i].offset - Theta) <= samples[i].rtt + 1
              /\ 2 * (Theta - samples[i].offset) <= samples[i].rtt + 1
          BY <1>1
        <5> QED BY <1>t, <5>1, <5>2
      <4> QED BY <4>1
    <3> HIDE DEF O
    <3>3. \A x \in O : x <= Theta + (MaxDelay + 1) /\ Theta - (MaxDelay + 1) <= x
      BY <1>t, <3>1, <3>2
    <3>4. Theta + (MaxDelay + 1) \in Int /\ Theta - (MaxDelay + 1) \in Int
      BY <1>t
    <3>5. Max(O) \in O /\ \A y \in O : y <= Max(O)
      BY <3>1, <3>3, <3>4, GreatestOf
    <3>6. Min(O) \in O
      BY <3>1, <3>3, <3>4, LeastOf
    <3>7. Max(O) - Min(O) \in Nat
      BY <3>1, <3>5, <3>6
    <3>8. jitter_ms = Max(O) - Min(O)
      <4>1. {samples[i].offset : i \in DOMAIN samples} = O
        BY <1>0 DEF O
      <4>2. ~(Len(samples) <= 1)
        BY <1>0, <2>2
      <4> QED BY <4>1, <4>2 DEF jitter_ms
    <3> QED BY <3>7, <3>8
  <2> QED BY <1>0, <2>1, <2>2
<1>13. interpolation_delay_ms(1, 4) \in 1..4
  <2>1. rtt_ms \div 2 \in Nat
    BY <1>11
  <2>2. 1 + (rtt_ms \div 2) + jitter_ms \in Int /\ 1 + (rtt_ms \div 2) + jitter_ms >= 1
    BY <1>12, <2>1
  <2>3. Min({1 + (rtt_ms \div 2) + jitter_ms, 4}) \in 1..4
    BY <2>2, MinOfPair
  <2> QED BY <2>3 DEF interpolation_delay_ms
<1> QED BY <1>9, <1>10, <1>13 DEF EstimateIsBest

-----------------------------------------------------------------------------
(* The position history. *)

(* Ticks are kept with the position recorded last; those that were let go  *)
(* are older than all that are kept, and as many are kept as there may be. *)
HistoryInv ==
    /\ serverTick \in Nat
    /\ \E D \in SUBSET (0..MaxStamp) : recorded \in [D -> 0..MaxPos]
    /\ \E D \in SUBSET DOMAIN recorded : track \in [D -> 0..MaxPos]
    /\ Cardinality(DOMAIN track) = Min({HistoryCap, Cardinality(DOMAIN recorded)})
    /\ \A t \in DOMAIN track : track[t] = recorded[t]
    /\ \A t \in DOMAIN recorded \ DOMAIN track : \A k \in DOMAIN track : t < k

LEMMA StampsFinite == \A D \in SUBSET (0..MaxStamp) : IsFiniteSet(D) /\ Cardinality(D) \in Nat
<1>1. IsFiniteSet(0..MaxStamp)
  BY FS_Interval, TimelineAssumption
<1> QED BY <1>1, FS_Subset, FS_CardinalityType

LEMMA HistoryAgain ==
    ASSUME NEW K, NEW G, G \subseteq 0..MaxStamp, K \subseteq G, serverTick' \in Nat,
           recorded' \in [G -> 0..MaxPos], track' \in [K -> 0..MaxPos],
           Cardinality(K) = Min({HistoryCap, Cardinality(G)}),
           \A x \in K : track'[x] = recorded'[x], \A x \in G \ K : \A k \in K : x < k
    PROVE  HistoryInv'
<1>1. DOMAIN recorded' = G /\ DOMAIN track' = K
  OBVIOUS
<1> QED BY <1>1 DEF HistoryInv

LEMMA NothingKept ==
    ASSUME track' = <<>>, recorded' = <<>>, serverTick' \in Nat PROVE HistoryInv'
<1>1. <<>> \in [{} -> 0..MaxPos] /\ {} \subseteq 0..MaxStamp
  OBVIOUS
<1>2. Cardinality({}) = 0 /\ Min({HistoryCap, 0}) = 0
  BY FS_EmptySet, MinOfPair, TimelineAssumption
<1> QED BY <1>1, <1>2, HistoryAgain

LEMMA RecordKeeps ==
    ASSUME HistoryInv, NEW t \in 0..MaxStamp, NEW p \in 0..MaxPos, record(t, p)
    PROVE  HistoryInv'
<1> DEFINE D == DOMAIN track
           E == DOMAIN recorded
           all == Noted(track, t, p)
           rec == Noted(recorded, t, p)
           A == D \cup {t}
           F == E \cup {t}
           cut == [x \in A \ {Min(A)} |-> all[x]]
<1>0. HistoryCap \in Nat /\ HistoryCap > 1 /\ MaxStamp \in Nat /\ MaxPos \in Nat
  BY TimelineAssumption
<1>1. /\ serverTick \in Nat /\ E \subseteq 0..MaxStamp /\ recorded \in [E -> 0..MaxPos]
      /\ D \subseteq E /\ track \in [D -> 0..MaxPos]
      /\ Cardinality(D) = Min({HistoryCap, Cardinality(E)})
      /\ \A x \in D : track[x] = recorded[x]
      /\ \A x \in E \ D : \A k \in D : x < k
  BY DEF HistoryInv
<1>2. /\ all \in [A -> 0..MaxPos] /\ DOMAIN all = A /\ all[t] = p /\ \A x \in D : x # t => all[x] = track[x]
  <2> DEFINE T == 0..MaxPos
  <2>1. track \in [D -> T] /\ p \in T
    BY <1>1
  <2> HIDE DEF T, D
  <2>2. /\ Noted(track, t, p) \in [D \cup {t} -> T] /\ DOMAIN Noted(track, t, p) = D \cup {t}
        /\ Noted(track, t, p)[t] = p /\ \A x \in D : x # t => Noted(track, t, p)[x] = track[x]
    BY <2>1 DEF Noted
  <2> QED BY <2>2 DEF T
<1>3. /\ rec \in [F -> 0..MaxPos] /\ DOMAIN rec = F /\ rec[t] = p /\ \A x \in E : x # t => rec[x] = recorded[x]
  <2> DEFINE T == 0..MaxPos
  <2>1. recorded \in [E -> T] /\ p \in T
    BY <1>1
  <2> HIDE DEF T, E
  <2>2. /\ Noted(recorded, t, p) \in [E \cup {t} -> T] /\ DOMAIN Noted(recorded, t, p) = E \cup {t}
        /\ Noted(recorded, t, p)[t] = p /\ \A x \in E : x # t => Noted(recorded, t, p)[x] = recorded[x]
    BY <2>1 DEF Noted
  <2> QED BY <2>2 DEF T
<1>4. /\ track' = IF Cardinality(DOMAIN all) > HistoryCap THEN [x \in DOMAIN all \ {Min(DOMAIN all)} |-> all[x]] ELSE all
      /\ recorded' = rec /\ serverTick' = serverTick
  BY DEF record
<1> HIDE DEF D, E, all, rec
<1>5. /\ A \subseteq F /\ F \subseteq 0..MaxStamp /\ t \in A
      /\ IsFiniteSet(D) /\ Cardinality(D) \in Nat /\ IsFiniteSet(E) /\ Cardinality(E) \in Nat
      /\ IsFiniteSet(A) /\ Cardinality(A) \in Nat /\ IsFiniteSet(F) /\ Cardinality(F) \in Nat
  <2>1. D \subseteq 0..MaxStamp /\ A \subseteq 0..MaxStamp /\ A \subseteq F /\ F \subseteq 0..MaxStamp
    BY <1>1
  <2> HIDE DEF A, F
  <2>2. t \in A
    BY DEF A
  <2> QED BY <1>1, <2>1, <2>2, StampsFinite
<1>6. Cardinality(D) = IF HistoryCap <= Cardinality(E) THEN HistoryCap ELSE Cardinality(E)
  BY <1>0, <1>1, <1>5, MinOfPair
<1>7. Cardinality(A) = IF t \in D THEN Cardinality(D) ELSE Cardinality(D) + 1
  BY <1>5, FS_AddElement
<1>8. Cardinality(F) = IF t \in E THEN Cardinality(E) ELSE Cardinality(E) + 1
  BY <1>5, FS_AddElement
<1>9. D # E => Cardinality(D) < Cardinality(E)
  <2>1. Cardinality(D) <= Cardinality(E) /\ (Cardinality(D) = Cardinality(E) => D = E)
    BY <1>1, <1>5, FS_Subset
  <2> QED BY <1>5, <2>1
<1>10. Min(A) \in A /\ \A y \in A : Min(A) <= y
  <2>1. A # {} /\ 0 \in Int /\ \A x \in A : x \in Int /\ 0 <= x
    BY <1>0, <1>5
  <2> HIDE DEF A
  <2> QED BY <2>1, LeastOf
<1>11. \A x \in A : all[x] = rec[x]
  BY <1>1, <1>2, <1>3
<1> HIDE DEF A, F
<1>12. CASE Cardinality(A) <= HistoryCap
  <2>1. track' = all
    BY <1>0, <1>2, <1>4, <1>5, <1>12
  <2>2. Cardinality(A) = IF HistoryCap <= Cardinality(F) THEN HistoryCap ELSE Cardinality(F)
    <3>1. CASE t \in D
      <4>1. t \in E
        BY <1>1, <3>1
      <4> QED BY <1>6, <1>7, <1>8, <3>1, <4>1
    <3>2. CASE t \notin D
      <4>1. Cardinality(D) < HistoryCap
        BY <1>0, <1>5, <1>7, <1>12, <3>2
      <4>2. D = E
        BY <1>0, <1>5, <1>6, <1>9, <4>1
      <4>3. Cardinality(A) = Cardinality(F)
        BY <1>7, <1>8, <4>2
      <4> QED BY <1>0, <1>5, <1>12, <4>3
    <3> QED BY <3>1, <3>2
  <2>3. \A x \in F \ A : \A k \in A : x < k
    <3>1. CASE t \in D
      <4>1. A = D /\ F = E
        BY <1>1, <3>1 DEF A, F
      <4> QED BY <1>1, <4>1
    <3>2. CASE t \notin D
      <4>1. D = E
        BY <1>0, <1>5, <1>6, <1>7, <1>9, <1>12, <3>2
      <4>2. A = F
        BY <4>1 DEF A, F
      <4> QED BY <4>2
    <3> QED BY <3>1, <3>2
  <2>4. Cardinality(A) = Min({HistoryCap, Cardinality(F)})
    BY <1>0, <1>5, <2>2, MinOfPair
  <2>5. track' \in [A -> 0..MaxPos] /\ recorded' \in [F -> 0..MaxPos] /\ serverTick' \in Nat
        /\ \A x \in A : track'[x] = recorded'[x]
    BY <1>1, <1>2, <1>3, <1>4, <1>11, <2>1
  <2> QED BY <1>5, <2>3, <2>4, <2>5, HistoryAgain
<1>13. CASE Cardinality(A) > HistoryCap
  <2>1. track' = cut
    BY <1>2, <1>4, <1>13
  <2>2. DOMAIN cut = A \ {Min(A)} /\ cut \in [A \ {Min(A)} -> 0..MaxPos] /\ \A x \in A \ {Min(A)} : cut[x] = all[x]
    BY <1>2
  <2> DEFINE K == A \ {Min(A)}
  <2>3. t \notin D /\ Cardinality(A) = HistoryCap + 1
    BY <1>0, <1>5, <1>6, <1>7, <1>13
  <2>4. Cardinality(K) = HistoryCap
    <3>1. Cardinality(K) = Cardinality(A) - 1
      BY <1>5, <1>10, FS_RemoveElement
    <3> QED BY <1>0, <2>3, <3>1
  <2>5. Cardinality(A) <= Cardinality(F)
    BY <1>5, FS_Subset
  <2>6. Cardinality(K) = Min({HistoryCap, Cardinality(F)})
    BY <1>0, <1>5, <2>3, <2>4, <2>5, MinOfPair
  <2>7. ASSUME NEW x \in F \ K, NEW k \in K PROVE x < k
    <3>1. x \in Int /\ k \in Int /\ Min(A) \in Int /\ Min(A) < k /\ k \in A
      <4>1. x \in 0..MaxStamp /\ k \in 0..MaxStamp /\ Min(A) \in 0..MaxStamp /\ k \in A /\ k # Min(A)
        BY <1>5, <1>10
      <4>2. Min(A) <= k
        BY <1>10, <4>1
      <4> QED BY <4>1, <4>2
    <3>2. CASE x = Min(A)
      BY <3>1, <3>2
    <3>3. CASE x # Min(A)
      <4>1. x \notin A /\ x \in E \ D
        BY <3>3 DEF A, F
      <4>2. CASE k \in D
        BY <1>1, <4>1, <4>2
      <4>3. CASE k = t
        <5>1. Min(A) \in D
          BY <1>10, <3>1, <4>3 DEF A
        <5>2. x < Min(A)
          BY <1>1, <4>1, <5>1
        <5> QED BY <3>1, <5>2
      <4> QED BY <3>1, <4>2, <4>3 DEF A
    <3> QED BY <3>2, <3>3
  <2>8. track' \in [K -> 0..MaxPos] /\ recorded' \in [F -> 0..MaxPos] /\ serverTick' \in Nat
        /\ \A x \in K : track'[x] = recorded'[x]
    BY <1>1, <1>3, <1>4, <1>11, <2>1, <2>2
  <2>9. K \subseteq F /\ F \subseteq 0..MaxStamp
    BY <1>5
  <2> HIDE DEF K
  <2> QED BY <2>6, <2>7, <2>8, <2>9, HistoryAgain
<1> QED BY <1>0, <1>5, <1>12, <1>13

LEMMA HistoryStep == HistoryInv /\ [HistoryNext]_historyVars => HistoryInv'
<1> SUFFICES ASSUME HistoryInv, [HistoryNext]_historyVars PROVE HistoryInv'
  OBVIOUS
<1>1. ASSUME NEW t \in 0..MaxStamp, NEW p \in 0..MaxPos, record(t, p) PROVE HistoryInv'
  BY <1>1, RecordKeeps
<1>2. CASE forget
  <2>1. track' = <<>> /\ recorded' = <<>> /\ serverTick' \in Nat
    BY <1>2 DEF forget, HistoryInv
  <2> QED BY <2>1, NothingKept
<1>3. CASE server_tick
  BY <1>3 DEF server_tick, HistoryInv
<1>4. CASE UNCHANGED historyVars
  BY <1>4 DEF historyVars, HistoryInv
<1> QED BY <1>1, <1>2, <1>3, <1>4 DEF HistoryNext

(* A point on the way lies between the ends. *)
LEMMA Between ==
    ASSUME NEW a \in Int, NEW b \in Int, NEW s \in Nat, NEW k \in 0..s
    PROVE  /\ a * s + (b - a) * k \in Int
           /\ a <= b => a * s <= a * s + (b - a) * k /\ a * s + (b - a) * k <= b * s
           /\ b <= a => b * s <= a * s + (b - a) * k /\ a * s + (b - a) * k <= a * s
<1>1. \A x, y \in Nat : x * y >= 0
  OBVIOUS
<1>2. a * s + (b - a) * k = b * s - (b - a) * (s - k)
  OBVIOUS
<1>3. a * s \in Int /\ b * s \in Int /\ (b - a) * k \in Int /\ (b - a) * (s - k) \in Int
  OBVIOUS
<1>4. ASSUME a <= b PROVE (b - a) * k >= 0 /\ (b - a) * (s - k) >= 0
  <2>1. b - a \in Nat /\ k \in Nat /\ s - k \in Nat
    BY <1>4
  <2> QED BY <1>1, <2>1
<1>5. ASSUME b <= a PROVE (b - a) * k <= 0 /\ (b - a) * (s - k) <= 0
  <2>1. a - b \in Nat /\ k \in Nat /\ s - k \in Nat
    BY <1>5
  <2>2. (a - b) * k >= 0 /\ (a - b) * (s - k) >= 0
    BY <1>1, <2>1
  <2>3. (b - a) * k = -((a - b) * k) /\ (b - a) * (s - k) = -((a - b) * (s - k))
    OBVIOUS
  <2>4. (a - b) * k \in Int /\ (a - b) * (s - k) \in Int
    OBVIOUS
  <2> QED BY <2>2, <2>3, <2>4
<1> QED BY <1>2, <1>3, <1>4, <1>5

LEMMA HistoryInvGives == HistoryInv => HistoryNewest
<1> SUFFICES ASSUME HistoryInv, NEW t \in 0..MaxStamp
             PROVE  /\ (DOMAIN track # {} /\ t \in Min(DOMAIN track)..Max(DOMAIN track)) <=> at(t).found
                    /\ at(t).found /\ rewind_allowed(t, HistoryCap) =>
                         \E a, b \in DOMAIN track :
                             at(t).pos \in (track[a] * at(t).scale)..(track[b] * at(t).scale)
  BY DEF HistoryInv, HistoryNewest
<1> DEFINE D == DOMAIN track
           lower == {a \in D : a < t}
           upper == {b \in D : b > t}
           t0 == Max(lower)
           t1 == Min(upper)
<1>1. /\ \A x \in D : x \in Nat /\ x <= MaxStamp /\ track[x] \in Nat
      /\ t \in Nat /\ MaxStamp \in Nat
  BY TimelineAssumption DEF HistoryInv
<1>2. D # {} => /\ Min(D) \in D /\ \A y \in D : Min(D) <= y
                /\ Max(D) \in D /\ \A y \in D : y <= Max(D)
  <2> HIDE DEF D
  <2>1. \A x \in D : x \in Int /\ 0 <= x /\ x <= MaxStamp
    BY <1>1
  <2>2. 0 \in Int /\ MaxStamp \in Int
    BY <1>1
  <2> QED BY <2>1, <2>2, LeastOf, GreatestOf
<1>3. CASE t \in D
  <2>1. at(t) = [found |-> TRUE, pos |-> track[t], scale |-> 1]
    BY <1>3 DEF at
  <2>2. at(t).found /\ at(t).pos = track[t] /\ at(t).scale = 1
    BY <2>1
  <2>3. t \in Min(D)..Max(D)
    BY <1>1, <1>2, <1>3
  <2>4. track[t] \in (track[t] * 1)..(track[t] * 1)
    BY <1>1, <1>3
  <2> QED BY <1>3, <2>2, <2>3, <2>4
<1>4. CASE t \notin D /\ lower # {} /\ upper # {}
  <2>1. \E a, b \in D : a < t /\ t < b
    BY <1>1, <1>4
  <2>2. at(t) = [found |-> TRUE, scale |-> t1 - t0,
                 pos |-> track[t0] * (t1 - t0) + (track[t1] - track[t0]) * (t - t0)]
    BY <1>4, <2>1 DEF at
  <2>3. /\ at(t).found /\ at(t).scale = t1 - t0
        /\ at(t).pos = track[t0] * (t1 - t0) + (track[t1] - track[t0]) * (t - t0)
    BY <2>2
  <2>4. t0 \in lower
    <3>1. \A x \in lower : x \in Int /\ x <= MaxStamp
      BY <1>1
    <3> HIDE DEF lower
    <3> QED BY <1>1, <1>4, <3>1, GreatestOf
  <2>5. t1 \in upper
    <3>1. \A x \in upper : x \in Int /\ 0 <= x
      BY <1>1
    <3> HIDE DEF upper
    <3> QED BY <1>4, <3>1, LeastOf
  <2>6. t0 \in D /\ t1 \in D /\ t0 < t /\ t < t1
    BY <1>1, <2>4, <2>5
  <2> HIDE DEF t0, t1, lower, upper
  <2>7. D # {} /\ t \in Min(D)..Max(D)
    BY <1>1, <1>2, <2>6
  <2> DEFINE s == t1 - t0
             k == t - t0
             p == track[t0] * s + (track[t1] - track[t0]) * k
  <2>8. s \in Nat /\ k \in 0..s /\ track[t0] \in Int /\ track[t1] \in Int
    BY <1>1, <2>6
  <2>9. /\ p \in Int
        /\ track[t0] <= track[t1] => track[t0] * s <= p /\ p <= track[t1] * s
        /\ track[t1] <= track[t0] => track[t1] * s <= p /\ p <= track[t0] * s
    <3> HIDE DEF s, k
    <3> QED BY <2>8, Between
  <2>10. at(t).scale = s /\ at(t).pos = p
    BY <2>3
  <2>11. track[t0] * s \in Int /\ track[t1] * s \in Int
    BY <2>8
  <2> HIDE DEF s, k, p
  <2>12. \E a, b \in D : p \in (track[a] * s)..(track[b] * s)
    <3>1. CASE track[t0] <= track[t1]
      <4>1. p \in (track[t0] * s)..(track[t1] * s)
        BY <2>9, <2>11, <3>1
      <4> QED BY <2>6, <4>1
    <3>2. CASE track[t1] <= track[t0]
      <4>1. p \in (track[t1] * s)..(track[t0] * s)
        BY <2>9, <2>11, <3>2
      <4> QED BY <2>6, <4>1
    <3> QED BY <2>8, <3>1, <3>2
  <2> QED BY <2>3, <2>7, <2>10, <2>12
<1>5. CASE t \notin D /\ ~(lower # {} /\ upper # {})
  <2>1. ~\E a, b \in D : a < t /\ t < b
    BY <1>1, <1>5
  <2>2. at(t) = [found |-> FALSE, pos |-> 0, scale |-> 1]
    BY <1>5, <2>1 DEF at
  <2>3. ~at(t).found
    BY <2>2
  <2>4. ~(D # {} /\ t \in Min(D)..Max(D))
    <3> SUFFICES ASSUME D # {}, t \in Min(D)..Max(D) PROVE FALSE
      OBVIOUS
    <3>1. Min(D) \in D /\ Max(D) \in D /\ Min(D) <= t /\ t <= Max(D)
      BY <1>1, <1>2
    <3>2. Min(D) < t /\ t < Max(D)
      BY <1>1, <1>5, <3>1
    <3> QED BY <2>1, <3>1, <3>2
  <2> QED BY <2>3, <2>4
<1> QED BY <1>3, <1>4, <1>5

-----------------------------------------------------------------------------
(* The replay debugger. *)

Events == [tick : Nat, kind : ReplayKinds]

(* Alive after the first n events: spawned and not taken away since. *)
AliveAfter(n) ==
    \E i \in 1..n : /\ recording[i].kind = "spawn"
                    /\ \A j \in (i + 1)..n : recording[j].kind # "despawn"

ReplayInv ==
    /\ recording \in Seq(Events) /\ index \in 0..Len(recording) /\ live = AliveAfter(index)

(* One more event. *)
LEMMA AliveNext ==
    ASSUME NEW n \in Nat, recording[n + 1].kind \in ReplayKinds
    PROVE  AliveAfter(n + 1) = Applied(AliveAfter(n), recording[n + 1])
<1>1. CASE recording[n + 1].kind = "spawn"
  <2>1. (n + 1) \in 1..(n + 1) /\ ((n + 1) + 1)..(n + 1) = {}
    OBVIOUS
  <2>2. AliveAfter(n + 1) = TRUE
    BY <1>1, <2>1 DEF AliveAfter
  <2> QED BY <1>1, <2>2 DEF Applied
<1>2. CASE recording[n + 1].kind = "despawn"
  <2>1. ASSUME NEW i \in 1..(n + 1), recording[i].kind = "spawn", \A j \in (i + 1)..(n + 1) : recording[j].kind # "despawn"
        PROVE  FALSE
    <3>1. i # n + 1
      BY <1>2, <2>1
    <3>2. n + 1 \in (i + 1)..(n + 1)
      BY <3>1
    <3> QED BY <1>2, <2>1, <3>2
  <2>2. AliveAfter(n + 1) = FALSE
    BY <2>1 DEF AliveAfter
  <2> QED BY <1>2, <2>2 DEF Applied
<1>3. CASE recording[n + 1].kind = "trigger"
  <2>1. ASSUME AliveAfter(n) PROVE AliveAfter(n + 1)
    <3>1. PICK i \in 1..n : recording[i].kind = "spawn" /\ \A j \in (i + 1)..n : recording[j].kind # "despawn"
      BY <2>1 DEF AliveAfter
    <3>2. i \in 1..(n + 1) /\ \A j \in (i + 1)..(n + 1) : j \in (i + 1)..n \/ j = n + 1
      OBVIOUS
    <3>3. \A j \in (i + 1)..(n + 1) : recording[j].kind # "despawn"
      BY <1>3, <3>1, <3>2
    <3> QED BY <3>1, <3>2, <3>3 DEF AliveAfter
  <2>2. ASSUME AliveAfter(n + 1) PROVE AliveAfter(n)
    <3>1. PICK i \in 1..(n + 1) : recording[i].kind = "spawn" /\ \A j \in (i + 1)..(n + 1) : recording[j].kind # "despawn"
      BY <2>2 DEF AliveAfter
    <3>2. i \in 1..n
      BY <1>3, <3>1
    <3>3. \A j \in (i + 1)..n : j \in (i + 1)..(n + 1)
      OBVIOUS
    <3> QED BY <3>1, <3>2, <3>3 DEF AliveAfter
  <2>3. AliveAfter(n) \in BOOLEAN /\ AliveAfter(n + 1) \in BOOLEAN
    BY DEF AliveAfter
  <2>4. AliveAfter(n + 1) = AliveAfter(n)
    BY <2>1, <2>2, <2>3
  <2> QED BY <1>3, <2>4 DEF Applied
<1> QED BY <1>1, <1>2, <1>3 DEF ReplayKinds

(* Applying one by one is what the events leave. *)
LEMMA LiveAfterIs ==
    ASSUME NEW from \in Nat, NEW n \in Nat, from <= n,
           \A i \in 1..n : recording[i].kind \in ReplayKinds
    PROVE  LiveAfter(from, AliveAfter(from), n) = AliveAfter(n)
<1> DEFINE m == n - from
           w == AliveAfter(from)
           g == [x \in (1..m) \X BOOLEAN |-> Applied(x[2], recording[from + x[1]])]
           Runs(s) == s = [k \in 0..m |-> IF k = 0 THEN w ELSE Applied(s[k - 1], recording[from + k])]
           run == CHOOSE s : Runs(s)
<1>1. m \in Nat /\ w \in BOOLEAN
  BY DEF AliveAfter
<1>2. \A b \in BOOLEAN : \A e : Applied(b, e) \in BOOLEAN
  BY DEF Applied
<1>3. g \in [(1..m) \X BOOLEAN -> BOOLEAN]
  <2>1. \A x \in (1..m) \X BOOLEAN : x[2] \in BOOLEAN
    OBVIOUS
  <2> QED BY <1>2, <2>1
<1>4. \A k \in 1..m, b \in BOOLEAN : g[<<k, b>>] = Applied(b, recording[from + k])
  OBVIOUS
<1>5. \A k \in 0..m : k # 0 => k \in 1..m /\ k - 1 \in 0..m
  OBVIOUS
<1> HIDE DEF m, w, g, Runs, run
<1>6. PICK s \in [0..m -> BOOLEAN] : Iterated(s, m, w, g)
  BY <1>1, <1>3, Iterates
<1>7. \A k \in 0..m : s[k] = IF k = 0 THEN w ELSE Applied(s[k - 1], recording[from + k])
  BY <1>4, <1>5, <1>6 DEF Iterated
<1>8. Runs(s)
  BY <1>6, <1>7 DEF Runs
<1>9. Runs(run)
  BY <1>8 DEF run
<1>10. LiveAfter(from, w, n) = run[m]
  BY DEF LiveAfter, run, Runs, m
<1>11. \A k \in 0..m : run[k] = IF k = 0 THEN w ELSE Applied(run[k - 1], recording[from + k])
  BY <1>9 DEF Runs
<1>12. 0..m \subseteq {k \in 0..m : run[k] = AliveAfter(from + k)}
  <2> DEFINE T == {k \in 0..m : run[k] = AliveAfter(from + k)}
  <2>1. 0 \in T
    <3>1. 0 \in 0..m /\ from + 0 = from
      BY <1>1
    <3> QED BY <1>11, <3>1 DEF w
  <2>2. ASSUME NEW k \in 1..m, k - 1 \in T PROVE k \in T
    <3>1. k \in 0..m /\ k # 0 /\ run[k - 1] = AliveAfter(from + (k - 1))
      BY <1>1, <2>2
    <3>2. run[k] = Applied(AliveAfter(from + (k - 1)), recording[from + k])
      BY <1>11, <3>1
    <3>3. from + (k - 1) \in Nat /\ (from + (k - 1)) + 1 = from + k /\ from + k \in 1..n
      BY <1>1 DEF m
    <3>4. AliveAfter(from + k) = Applied(AliveAfter(from + (k - 1)), recording[from + k])
      <4> DEFINE l == from + (k - 1)
      <4>1. l \in Nat /\ l + 1 = from + k /\ recording[l + 1].kind \in ReplayKinds
        BY <3>3
      <4> HIDE DEF l
      <4>2. AliveAfter(l + 1) = Applied(AliveAfter(l), recording[l + 1])
        BY <4>1, AliveNext
      <4> QED BY <4>1, <4>2 DEF l
    <3> QED BY <3>1, <3>2, <3>4
  <2> HIDE DEF T
  <2>3. 0..m \subseteq T
    BY <1>1, <2>1, <2>2, UpTo
  <2> QED BY <2>3 DEF T
<1>13. m \in 0..m /\ from + m = n
  BY <1>1 DEF m
<1>14. run[m] = AliveAfter(n)
  BY <1>12, <1>13
<1> QED BY <1>10, <1>14 DEF w

LEMMA ReplayStep == ReplayInv /\ [ReplayNext]_replayVars => ReplayInv'
<1> SUFFICES ASSUME ReplayInv, [ReplayNext]_replayVars PROVE ReplayInv'
  OBVIOUS
<1> DEFINE n == Len(recording)
<1>0. recording \in Seq(Events) /\ n \in Nat /\ index \in 0..n /\ live = AliveAfter(index) /\ DOMAIN recording = 1..n
  BY DEF ReplayInv
<1>k. \A i \in 1..n : recording[i].kind \in ReplayKinds
  <2>1. \A i \in 1..n : recording[i] \in Events
    BY <1>0
  <2> QED BY <2>1 DEF Events
<1>1. ASSUME NEW t \in 0..MaxEventTick, NEW k \in ReplayKinds, record_event(t, k) PROVE ReplayInv'
  <2>1. index = 0 /\ recording' = Append(recording, [tick |-> t, kind |-> k]) /\ index' = index /\ live' = live
    BY <1>1 DEF record_event
  <2>2. [tick |-> t, kind |-> k] \in Events
    BY TimelineAssumption DEF Events
  <2>3. recording' \in Seq(Events) /\ Len(recording') = n + 1 /\ 0 \in 0..(n + 1)
    BY <1>0, <2>1, <2>2
  <2>4. AliveAfter(0) = FALSE /\ AliveAfter(0)' = FALSE
    BY DEF AliveAfter
  <2>5. AliveAfter(index)' = AliveAfter(0)'
    BY <2>1
  <2>6. live' = FALSE
    BY <1>0, <2>1, <2>4
  <2> QED BY <2>1, <2>3, <2>4, <2>5, <2>6 DEF ReplayInv
<1>2. ASSUME UNCHANGED recording, NEW l \in 0..n, index' = l, live' = AliveAfter(l) PROVE ReplayInv'
  <2>1. AliveAfter(index)' = AliveAfter(l)
    BY <1>2 DEF AliveAfter
  <2> QED BY <1>0, <1>2, <2>1 DEF ReplayInv
<1>3. ASSUME NEW b, add_breakpoint(b) PROVE ReplayInv'
  BY <1>0, <1>2, <1>3 DEF add_breakpoint
<1>4. CASE step
  <2>1. index < n /\ live' = Applied(live, recording[index + 1]) /\ index' = index + 1 /\ UNCHANGED recording
    BY <1>4 DEF step
  <2>2. index \in Nat /\ index + 1 \in 1..n /\ index + 1 \in 0..n
    BY <1>0, <2>1
  <2>3. AliveAfter(index + 1) = Applied(AliveAfter(index), recording[index + 1])
    BY <1>k, <2>2, AliveNext
  <2> QED BY <1>0, <1>2, <2>1, <2>2, <2>3
<1>5. CASE continue_exec
  <2> DEFINE stops == {i \in (index + 1)..n : BreaksAt(i)}
             last == IF stops = {} THEN n ELSE Min(stops) - 1
  <2>1. index < n /\ index' = last /\ live' = LiveAfter(index, live, last) /\ UNCHANGED recording
    BY <1>5 DEF continue_exec
  <2>2. last \in index..n
    <3>1. CASE stops = {}
      BY <1>0, <2>1, <3>1
    <3>2. CASE stops # {}
      <4>1. index + 1 \in Int /\ \A i \in stops : i \in Int /\ index + 1 <= i /\ i <= n
        BY <1>0
      <4> HIDE DEF stops
      <4>2. Min(stops) \in stops
        BY <3>2, <4>1, LeastOf
      <4>3. Min(stops) \in Int /\ index + 1 <= Min(stops) /\ Min(stops) <= n
        BY <4>1, <4>2
      <4> QED BY <1>0, <3>2, <4>3
    <3> QED BY <3>1, <3>2
  <2> HIDE DEF last
  <2>3. index \in Nat /\ last \in Nat /\ index <= last /\ last \in 0..n /\ \A i \in 1..last : i \in 1..n
    BY <1>0, <2>2
  <2>4. LiveAfter(index, AliveAfter(index), last) = AliveAfter(last)
    BY <1>k, <2>3, LiveAfterIs
  <2> QED BY <1>0, <1>2, <2>1, <2>3, <2>4
<1>6. ASSUME NEW t \in 0..MaxEventTick, seek(t) PROVE ReplayInv'
  <2> DEFINE beyond == {i \in DOMAIN recording : recording[i].tick > t}
             last == IF beyond = {} THEN n ELSE Min(beyond) - 1
  <2>1. index' = last /\ live' = LiveAfter(0, FALSE, last) /\ UNCHANGED recording
    BY <1>6 DEF seek
  <2>2. last \in 0..n
    <3>1. CASE beyond = {}
      BY <1>0, <3>1
    <3>2. CASE beyond # {}
      <4>1. 1 \in Int /\ \A i \in beyond : i \in Int /\ 1 <= i /\ i <= n
        BY <1>0
      <4> HIDE DEF beyond
      <4>2. Min(beyond) \in beyond
        BY <3>2, <4>1, LeastOf
      <4>3. Min(beyond) \in Int /\ 1 <= Min(beyond) /\ Min(beyond) <= n
        BY <4>1, <4>2
      <4> QED BY <1>0, <3>2, <4>3
    <3> QED BY <3>1, <3>2
  <2> HIDE DEF last
  <2>3. last \in Nat /\ 0 \in Nat /\ 0 <= last /\ \A i \in 1..last : i \in 1..n
    BY <1>0, <2>2
  <2>4. AliveAfter(0) = FALSE
    BY DEF AliveAfter
  <2>5. LiveAfter(0, AliveAfter(0), last) = AliveAfter(last)
    BY <1>k, <2>3, LiveAfterIs
  <2> QED BY <1>2, <2>1, <2>2, <2>4, <2>5
<1>7. CASE UNCHANGED replayVars
  BY <1>0, <1>2, <1>7 DEF replayVars
<1> QED BY <1>1, <1>3, <1>4, <1>5, <1>6, <1>7 DEF ReplayNext

LEMMA ReplayInvGives == ReplayInv => ReplayIsPrefix
BY DEF ReplayInv, ReplayIsPrefix, AliveAfter

-----------------------------------------------------------------------------
(* The snapshot container. *)

(* Whatever happens to the file, its checksum is of what was written. *)
SnapshotInv ==
    /\ DOMAIN image = {"schema", "entries", "sum", "trailing"}
    /\ image.sum = written /\ RestoresOnlyWritten

LEMMA SnapshotStep == SnapshotInv /\ [SnapshotNext]_snapshotVars => SnapshotInv'
<1> SUFFICES ASSUME SnapshotInv, [SnapshotNext]_snapshotVars PROVE SnapshotInv'
  OBVIOUS
<1>1. ASSUME NEW e, NEW s, encode_snapshot(e, s) PROVE SnapshotInv'
  BY <1>1 DEF encode_snapshot, SnapshotInv, RestoresOnlyWritten
<1>2. ASSUME NEW f \in {"entries", "trailing", "schema"}, NEW v, damage_image([image EXCEPT ![f] = v]) PROVE SnapshotInv'
  BY <1>2 DEF damage_image, SnapshotInv, RestoresOnlyWritten
<1>3. CASE decode_snapshot
  BY <1>3 DEF decode_snapshot, SumMatches, SnapshotInv, RestoresOnlyWritten
<1>4. CASE UNCHANGED snapshotVars
  BY <1>4 DEF snapshotVars, SnapshotInv, RestoresOnlyWritten
<1> QED BY <1>1, <1>2, <1>3, <1>4 DEF SnapshotNext

-----------------------------------------------------------------------------
(* The four machines, side by side. *)
TimelineParts ==
    /\ ClockInit /\ HistoryInit /\ ReplayInit /\ SnapshotInit
    /\ [][ClockNext]_clockVars /\ [][HistoryNext]_historyVars
    /\ [][ReplayNext]_replayVars /\ [][SnapshotNext]_snapshotVars

LEMMA TimelineStart ==
    ClockInit /\ HistoryInit /\ ReplayInit /\ SnapshotInit
      => ClockInv /\ HistoryInv /\ ReplayInv /\ SnapshotInv
<1> SUFFICES ASSUME ClockInit, HistoryInit, ReplayInit, SnapshotInit
             PROVE  ClockInv /\ HistoryInv /\ ReplayInv /\ SnapshotInv
  OBVIOUS
<1>1. ClockInv
  BY TimelineAssumption DEF ClockInit, ClockInv
<1>2. HistoryInv
  <2>1. <<>> \in [{} -> 0..MaxPos] /\ {} \subseteq 0..MaxStamp /\ DOMAIN <<>> = {}
    OBVIOUS
  <2>2. Cardinality({}) = 0 /\ Min({HistoryCap, 0}) = 0
    BY FS_EmptySet, MinOfPair, TimelineAssumption
  <2> QED BY <2>1, <2>2 DEF HistoryInit, HistoryInv
<1>3. ReplayInv
  <2>1. AliveAfter(0) = FALSE
    BY DEF AliveAfter
  <2>2. recording = <<>> /\ index = 0 /\ live = FALSE
    BY DEF ReplayInit
  <2>3. recording \in Seq(Events) /\ index \in 0..Len(recording)
    BY <2>2
  <2>4. live = AliveAfter(index)
    BY <2>1, <2>2
  <2> QED BY <2>3, <2>4 DEF ReplayInv
<1>4. SnapshotInv
  BY DEF SnapshotInit, SnapshotInv, NoImage, RestoresOnlyWritten
<1> QED BY <1>1, <1>2, <1>3, <1>4

(* For any delays, clocks, ticks, positions, recordings and snapshots: the *)
(* clock estimate is off by at most half the shortest round trip ever seen *)
(* although only SampleCap samples are kept, if that is more than one      *)
(* (ClockEstimator::push), the position history is the newest ticks        *)
(* whatever order they are recorded in and answers exactly within its span *)
(* (record, at), the debugger shows what the events before its position    *)
(* leave alive wherever it was moved (step, continue_exec, seek), and only *)
(* what was written is ever decoded.                                       *)
THEOREM TimelineAlwaysSound == TimelineParts => []TimelineSound
<1>1. ClockInv /\ HistoryInv /\ ReplayInv /\ SnapshotInv => TimelineSound
  BY ClockInvGives, HistoryInvGives, ReplayInvGives DEF TimelineSound, SnapshotInv
<1> QED BY <1>1, TimelineStart, ClockStep, HistoryStep, ReplayStep, SnapshotStep, PTL DEF TimelineParts

-----------------------------------------------------------------------------
(* server.cfg and the files it includes.  A file gives its lines and, where *)
(* it includes one, what that one gives one level further down.            *)

-----------------------------------------------------------------------------
(* What files give. *)

Marks == CfgFiles \X Nat
Given == [ok : BOOLEAN, lines : Seq(Marks)]
CfgDirs == [CfgFiles -> CfgContents \cup {NoFile}]
FollowedSpellings == {"plain", "dotted", "inner"}

LEMMA LineIs ==
    ASSUME NEW line \in CfgLine
    PROVE  /\ line.k \in {"text", "bad", "exec"}
           /\ line.k = "exec" => line.file \in CfgFiles /\ line.spelled \in Spellings
BY DEF CfgLine, Text, BadText, Exec

LEMMA FileIs ==
    ASSUME NEW dir \in CfgDirs, NEW f \in CfgFiles
    PROVE  /\ Len(dir[f]) \in Nat /\ DOMAIN dir[f] = 1..Len(dir[f])
           /\ Readable(dir, f) => \A i \in 1..Len(dir[f]) : dir[f][i] \in CfgLine
<1>1. dir[f] \in CfgContents \/ dir[f] = NoFile
  BY DEF CfgDirs
<1>2. CASE dir[f] \in CfgContents
  <2>1. dir[f] \in Seq(CfgLine)
    BY <1>2, IncludeAssumption
  <2> QED BY <2>1
<1>3. CASE dir[f] = NoFile
  <2>1. \A x : Len(<<x>>) = 1 /\ DOMAIN <<x>> = 1..1
    OBVIOUS
  <2>2. Len(dir[f]) = 1 /\ DOMAIN dir[f] = 1..1
    BY <1>3, <2>1 DEF NoFile
  <2> QED BY <1>3, <2>2 DEF Readable
<1> QED BY <1>1, <1>2, <1>3

LEMMA FailedType == Failed \in Given
BY DEF Failed, Given

LEMMA PartType ==
    ASSUME NEW dir \in CfgDirs, NEW f \in CfgFiles, Readable(dir, f), NEW i \in 1..Len(dir[f]),
           NEW below \in [CfgFiles -> Given]
    PROVE  Part(dir, f, i, below) \in Given
<1>1. dir[f][i] \in CfgLine /\ i \in Nat
  BY FileIs
<1>2. dir[f][i].k = "exec" => dir[f][i].file \in CfgFiles
  BY <1>1, LineIs
<1> DEFINE x == <<f, i>>
           one == [ok |-> TRUE, lines |-> <<x>>]
<1>3. x \in Marks
  BY <1>1 DEF Marks
<1>4. one \in Given
  <2> HIDE DEF x
  <2>1. <<x>> \in Seq(Marks)
    BY <1>3
  <2> QED BY <2>1 DEF Given
<1> HIDE DEF one
<1>5. Part(dir, f, i, below) = IF dir[f][i].k = "text" THEN one
        ELSE IF dir[f][i].k = "exec" /\ dir[f][i].spelled \in {"plain", "dotted", "inner"} THEN below[dir[f][i].file]
        ELSE Failed
  BY DEF Part, one, x
<1> QED BY <1>2, <1>4, <1>5, FailedType

LEMMA PartLinesAre ==
    ASSUME NEW dir \in CfgDirs, NEW f \in CfgFiles, Readable(dir, f), NEW below \in [CfgFiles -> Given]
    PROVE  \A i \in 1..Len(dir[f]) : /\ PartLines(dir, f, below)[i] = Part(dir, f, i, below).lines
                                     /\ PartLines(dir, f, below)[i] \in Seq(Marks)
<1>1. \A i \in 1..Len(dir[f]) : PartLines(dir, f, below)[i] = Part(dir, f, i, below).lines
  BY DEF PartLines
<1>2. \A i \in 1..Len(dir[f]) : Part(dir, f, i, below) \in Given
  BY PartType
<1>3. \A x \in Given : x.lines \in Seq(Marks)
  BY DEF Given
<1> QED BY <1>1, <1>2, <1>3

LEMMA WholeType ==
    ASSUME NEW dir \in CfgDirs, NEW f \in CfgFiles, NEW below \in [CfgFiles -> Given]
    PROVE  Whole(dir, f, below) \in Given
<1>1. CASE ~Readable(dir, f) \/ ~Parses(dir, f)
  BY <1>1, FailedType DEF Whole
<1>2. CASE Readable(dir, f) /\ Parses(dir, f)
  <2> DEFINE c == Concat(Len(dir[f]), PartLines(dir, f, below))
             b == \A i \in 1..Len(dir[f]) : Part(dir, f, i, below).ok
  <2>1. c \in Seq(Marks)
    <3>1. Len(dir[f]) \in Nat
      BY FileIs
    <3>2. \A i \in 1..Len(dir[f]) : PartLines(dir, f, below)[i] \in Seq(Marks)
      BY <1>2, PartLinesAre
    <3> QED BY <3>1, <3>2, ConcatType
  <2>2. Whole(dir, f, below) = [ok |-> b, lines |-> c]
    BY <1>2 DEF Whole
  <2>3. b \in BOOLEAN
    OBVIOUS
  <2> HIDE DEF b, c
  <2> QED BY <2>1, <2>2, <2>3 DEF Given
<1> QED BY <1>1, <1>2

LEMMA FlatIs ==
    ASSUME NEW dir \in CfgDirs
    PROVE  \A d \in 0..MaxIncludeDepth :
               /\ Flat(dir)[d] \in [CfgFiles -> Given]
               /\ \A f \in CfgFiles : Flat(dir)[d][f] = IF d = 0 THEN Failed ELSE Whole(dir, f, Flat(dir)[d - 1])
<1> DEFINE N == MaxIncludeDepth
           W == [CfgFiles -> Given]
           w0 == [f \in CfgFiles |-> Failed]
           g == [x \in (1..N) \X W |-> [f \in CfgFiles |-> Whole(dir, f, x[2])]]
           Flattens(h) == h = [d \in 0..N |-> IF d = 0 THEN [f \in CfgFiles |-> Failed] ELSE [f \in CfgFiles |-> Whole(dir, f, h[d - 1])]]
           flat == CHOOSE h : Flattens(h)
<1>1. N \in Nat
  BY IncludeAssumption
<1>2. Flat(dir) = flat
  BY DEF Flat
<1>3. w0 \in W
  BY FailedType
<1>4. \A d \in 1..N, w \in W : g[<<d, w>>] = [f \in CfgFiles |-> Whole(dir, f, w)]
  OBVIOUS
<1>5. g \in [(1..N) \X W -> W]
  <2>1. \A w \in W : [f \in CfgFiles |-> Whole(dir, f, w)] \in W
    <3> SUFFICES ASSUME NEW w \in W PROVE [f \in CfgFiles |-> Whole(dir, f, w)] \in W
      OBVIOUS
    <3>1. \A f \in CfgFiles : Whole(dir, f, w) \in Given
      BY WholeType
    <3> QED BY <3>1
  <2> HIDE DEF W
  <2> QED BY <2>1
<1> HIDE DEF N, W, w0, g, Flattens, flat
<1>6. PICK h \in [0..N -> W] : Iterated(h, N, w0, g)
  BY <1>1, <1>3, <1>5, Iterates
<1>7. \A d \in 0..N : d # 0 => d \in 1..N /\ d - 1 \in 0..N
  BY <1>1
<1>8. \A d \in 0..N : h[d] = IF d = 0 THEN w0 ELSE [f \in CfgFiles |-> Whole(dir, f, h[d - 1])]
  <2> SUFFICES ASSUME NEW d \in 0..N PROVE h[d] = IF d = 0 THEN w0 ELSE [f \in CfgFiles |-> Whole(dir, f, h[d - 1])]
    OBVIOUS
  <2>1. h[d] = IF d = 0 THEN w0 ELSE g[<<d, h[d - 1]>>]
    BY <1>6 DEF Iterated
  <2>2. CASE d = 0
    BY <2>1, <2>2
  <2>3. CASE d # 0
    <3>1. d \in 1..N /\ h[d - 1] \in W
      BY <1>6, <1>7, <2>3
    <3>2. g[<<d, h[d - 1]>>] = [f \in CfgFiles |-> Whole(dir, f, h[d - 1])]
      BY <1>4, <3>1
    <3> QED BY <2>1, <2>3, <3>2
  <2> QED BY <2>2, <2>3
<1>9. Flattens(h)
  BY <1>8 DEF Flattens, w0
<1>10. Flattens(flat)
  BY <1>9 DEF flat
<1>11. \A d \in 0..N : flat[d] = IF d = 0 THEN w0 ELSE [f \in CfgFiles |-> Whole(dir, f, flat[d - 1])]
  BY <1>10 DEF Flattens, w0
<1>12. \A d \in 0..N : flat[d] \in W
  <2> DEFINE G == {d \in 0..N : flat[d] \in W}
  <2>1. 0 \in G
    <3>1. 0 \in 0..N
      BY <1>1
    <3>2. flat[0] = w0
      BY <1>11, <3>1
    <3> QED BY <1>3, <3>1, <3>2
  <2>2. ASSUME NEW d \in 1..N, d - 1 \in G PROVE d \in G
    <3>1. d \in 0..N /\ d # 0 /\ flat[d - 1] \in W
      BY <2>2
    <3>2. flat[d] = [f \in CfgFiles |-> Whole(dir, f, flat[d - 1])]
      BY <1>11, <3>1
    <3>3. \A f \in CfgFiles : Whole(dir, f, flat[d - 1]) \in Given
      BY <3>1, WholeType DEF W
    <3>4. flat[d] \in W
      BY <3>2, <3>3 DEF W
    <3> QED BY <3>1, <3>4
  <2> HIDE DEF G
  <2>3. 0..N \subseteq G
    BY <1>1, <2>1, <2>2, UpTo
  <2> QED BY <2>3 DEF G
<1>13. \A d \in 0..N, f \in CfgFiles : flat[d][f] = IF d = 0 THEN Failed ELSE Whole(dir, f, flat[d - 1])
  BY <1>11 DEF w0
<1> QED BY <1>2, <1>12, <1>13 DEF N, W

(* What a file gives at a depth, and what an included one gives there. *)
LEMMA FlatOk ==
    ASSUME NEW dir \in CfgDirs, NEW f \in CfgFiles, NEW d \in 1..MaxIncludeDepth
    PROVE  /\ Flat(dir)[d][f].ok <=> /\ Readable(dir, f) /\ Parses(dir, f)
                                     /\ \A i \in 1..Len(dir[f]) : Part(dir, f, i, Flat(dir)[d - 1]).ok
           /\ Readable(dir, f) /\ Parses(dir, f) =>
                Flat(dir)[d][f].lines = Concat(Len(dir[f]), PartLines(dir, f, Flat(dir)[d - 1]))
<1> DEFINE below == Flat(dir)[d - 1]
<1>1. MaxIncludeDepth \in Nat /\ d \in 0..MaxIncludeDepth /\ d # 0
  BY IncludeAssumption
<1>2. Flat(dir)[d][f] = Whole(dir, f, below)
  BY <1>1, FlatIs
<1> HIDE DEF below
<1>3. CASE ~Readable(dir, f) \/ ~Parses(dir, f)
  <2>1. Flat(dir)[d][f] = Failed
    BY <1>2, <1>3 DEF Whole
  <2> QED BY <1>3, <2>1 DEF Failed
<1>4. CASE Readable(dir, f) /\ Parses(dir, f)
  <2> DEFINE b == \A i \in 1..Len(dir[f]) : Part(dir, f, i, below).ok
             c == Concat(Len(dir[f]), PartLines(dir, f, below))
  <2>1. Flat(dir)[d][f] = [ok |-> b, lines |-> c]
    BY <1>2, <1>4 DEF Whole
  <2>2. Flat(dir)[d][f].ok = b /\ Flat(dir)[d][f].lines = c
    BY <2>1
  <2> QED BY <1>4, <2>2 DEF below
<1> QED BY <1>3, <1>4

LEMMA FlatNone ==
    ASSUME NEW dir \in CfgDirs, NEW f \in CfgFiles
    PROVE  Flat(dir)[0][f] = Failed /\ ~Flat(dir)[0][f].ok
<1>1. 0 \in 0..MaxIncludeDepth
  BY IncludeAssumption
<1>2. Flat(dir)[0][f] = Failed
  BY <1>1, FlatIs
<1> QED BY <1>2 DEF Failed

(* The line includes f. *)
Follows(line, f) == line.k = "exec" /\ line.spelled \in {"plain", "dotted", "inner"} /\ line.file = f

LEMMA PartFollowed ==
    ASSUME NEW dir, NEW f, NEW i, NEW g, Follows(dir[f][i], g), NEW below
    PROVE  Part(dir, f, i, below) = below[g]
BY DEF Part, Follows

LEMMA PartText ==
    ASSUME NEW dir, NEW f, NEW i, dir[f][i].k = "text", NEW below
    PROVE  Part(dir, f, i, below) = [ok |-> TRUE, lines |-> <<<<f, i>>>>]
BY DEF Part

LEMMA PartRefused ==
    ASSUME NEW dir, NEW f, NEW i, dir[f][i].k # "text", \A g : ~Follows(dir[f][i], g), NEW below
    PROVE  ~Part(dir, f, i, below).ok
<1>1. Part(dir, f, i, below) = Failed
  BY DEF Part, Follows
<1> QED BY <1>1 DEF Failed

(* f includes g. *)
Includes(dir, f, g) == \E i \in 1..Len(dir[f]) : Follows(dir[f][i], g)

LEMMA IncludedOk ==
    ASSUME NEW dir \in CfgDirs, NEW f \in CfgFiles, NEW g \in CfgFiles, NEW d \in 1..MaxIncludeDepth,
           Includes(dir, f, g), Flat(dir)[d][f].ok
    PROVE  Flat(dir)[d - 1][g].ok
<1>1. PICK i \in 1..Len(dir[f]) : Follows(dir[f][i], g)
  BY DEF Includes
<1>2. Part(dir, f, i, Flat(dir)[d - 1]).ok
  BY FlatOk
<1>3. Part(dir, f, i, Flat(dir)[d - 1]) = Flat(dir)[d - 1][g]
  BY <1>1 DEF Part, Follows
<1> QED BY <1>2, <1>3

(* A set of files that include each other has no end at any depth. *)
LEMMA CycleFails ==
    ASSUME NEW dir \in CfgDirs, NEW C, C \subseteq CfgFiles, \A f \in C : \E g \in C : Includes(dir, f, g)
    PROVE  \A d \in 0..MaxIncludeDepth : \A f \in C : ~Flat(dir)[d][f].ok
<1> DEFINE N == MaxIncludeDepth
           G == {d \in 0..N : \A f \in C : ~Flat(dir)[d][f].ok}
<1>1. N \in Nat /\ 0 \in 0..N
  BY IncludeAssumption
<1>2. 0 \in G
  BY <1>1, FlatNone
<1>3. ASSUME NEW d \in 1..N, d - 1 \in G PROVE d \in G
  <2>1. ASSUME NEW f \in C, Flat(dir)[d][f].ok PROVE FALSE
    <3>1. PICK g \in C : Includes(dir, f, g)
      OBVIOUS
    <3>2. f \in CfgFiles /\ g \in CfgFiles
      BY <3>1
    <3>3. Flat(dir)[d - 1][g].ok
      BY <2>1, <3>1, <3>2, IncludedOk
    <3>4. ~Flat(dir)[d - 1][g].ok
      BY <1>3
    <3> QED BY <3>3, <3>4
  <2>2. d \in 0..N
    BY <1>1
  <2> QED BY <2>1, <2>2
<1> HIDE DEF G
<1>4. 0..N \subseteq G
  BY <1>1, <1>2, <1>3, UpTo
<1> QED BY <1>4 DEF G

-----------------------------------------------------------------------------
(* The chain. *)

IncludeEntry == [key : [file : CfgFiles, spelled : Spellings], file : CfgFiles, next : Nat]

(* What is below the file at place i of the chain. *)
Below(dir, i) == Flat(dir)[MaxIncludeDepth - i]

(* The lines of it that are done: not the one an include is under way for. *)
Finished(st, i) == IF i = Len(st) THEN st[i].next - 1 ELSE st[i].next - 2

FrameFits(dir, st, i) ==
    /\ Readable(dir, st[i].file) /\ Parses(dir, st[i].file)
    /\ st[i].key.file = st[i].file
    /\ st[i].next \in 1..(Len(dir[st[i].file]) + 1)
    /\ \A n \in 1..Finished(st, i) : Part(dir, st[i].file, n, Below(dir, i)).ok
    /\ i # Len(st) => st[i].next >= 2 /\ Follows(dir[st[i].file][st[i].next - 1], st[i + 1].file)

Taken(dir, st) == [i \in 1..Len(st) |-> Concat(Finished(st, i), PartLines(dir, st[i].file, Below(dir, i)))]

ChainFits(dir, st) ==
    /\ st \in Seq(IncludeEntry) /\ Len(st) \in 1..MaxIncludeDepth
    /\ st[1].file = RootCfg
    /\ \A i \in 1..Len(st) : FrameFits(dir, st, i)
    /\ \A i, j \in 1..Len(st) : i # j => st[i].key # st[j].key

LEMMA EntryIs ==
    ASSUME NEW e \in IncludeEntry
    PROVE  /\ e.key \in [file : CfgFiles, spelled : Spellings] /\ e.file \in CfgFiles /\ e.next \in Nat
BY DEF IncludeEntry

LEMMA BelowIs ==
    ASSUME NEW dir \in CfgDirs, NEW i \in 1..MaxIncludeDepth
    PROVE  /\ Below(dir, i) \in [CfgFiles -> Given]
           /\ (MaxIncludeDepth - i) + 1 \in 1..MaxIncludeDepth /\ ((MaxIncludeDepth - i) + 1) - 1 = MaxIncludeDepth - i
           /\ MaxIncludeDepth - i \in 0..MaxIncludeDepth
<1>1. MaxIncludeDepth \in Nat
  BY IncludeAssumption
<1>2. /\ (MaxIncludeDepth - i) + 1 \in 1..MaxIncludeDepth /\ ((MaxIncludeDepth - i) + 1) - 1 = MaxIncludeDepth - i
      /\ MaxIncludeDepth - i \in 0..MaxIncludeDepth
  BY <1>1
<1> QED BY <1>2, FlatIs DEF Below

(* Each file of the chain but the last includes the next. *)
LEMMA ChainIncludes ==
    ASSUME NEW dir \in CfgDirs, NEW st, ChainFits(dir, st), NEW i \in 1..Len(st), i # Len(st)
    PROVE  Includes(dir, st[i].file, st[i + 1].file)
<1>1. FrameFits(dir, st, i) /\ st[i] \in IncludeEntry
  BY DEF ChainFits
<1>2. st[i].file \in CfgFiles /\ st[i].next \in Nat
  BY <1>1, EntryIs
<1>3. Len(dir[st[i].file]) \in Nat
  BY <1>2, FileIs
<1>4. st[i].next \in 1..(Len(dir[st[i].file]) + 1) /\ st[i].next >= 2
      /\ Follows(dir[st[i].file][st[i].next - 1], st[i + 1].file)
  BY <1>1 DEF FrameFits
<1>5. st[i].next - 1 \in 1..Len(dir[st[i].file])
  <2> DEFINE n == st[i].next
             l == Len(dir[st[i].file])
  <2>1. n \in Nat /\ l \in Nat /\ n \in 1..(l + 1) /\ n >= 2
    BY <1>2, <1>3, <1>4
  <2> HIDE DEF n, l
  <2>2. n - 1 \in 1..l
    BY <2>1
  <2> QED BY <2>2 DEF n, l
<1> QED BY <1>4, <1>5 DEF Includes

(* When the file in work fails, the whole does. *)
LEMMA ChainFails ==
    ASSUME NEW dir \in CfgDirs, NEW st, ChainFits(dir, st),
           ~Flat(dir)[(MaxIncludeDepth - Len(st)) + 1][st[Len(st)].file].ok
    PROVE  ~Flat(dir)[MaxIncludeDepth][RootCfg].ok
<1> DEFINE N == MaxIncludeDepth
           m == Len(st)
           G == {k \in 0..(m - 1) : ~Flat(dir)[(N - (m - k)) + 1][st[m - k].file].ok}
<1>1. N \in Nat /\ m \in Nat /\ m \in 1..N /\ m - 1 \in Nat
  BY IncludeAssumption DEF ChainFits
<1>2. \A i \in 1..m : st[i] \in IncludeEntry /\ st[i].file \in CfgFiles
  BY EntryIs DEF ChainFits
<1>3. 0 \in G
  <2>1. m - 0 = m /\ 0 \in 0..(m - 1)
    BY <1>1
  <2> QED BY <2>1
<1>4. ASSUME NEW k \in 1..(m - 1), k - 1 \in G PROVE k \in G
  <2> DEFINE i == m - k
             d == (N - i) + 1
  <2>1. /\ i \in 1..m /\ i # m /\ i + 1 \in 1..m /\ m - (k - 1) = i + 1 /\ i \in 1..N
        /\ (N - (i + 1)) + 1 = d - 1 /\ d \in 1..N /\ k \in 0..(m - 1)
    BY <1>1
  <2>2. ~Flat(dir)[d - 1][st[i + 1].file].ok
    BY <1>4, <2>1
  <2> HIDE DEF d
  <2>3. Includes(dir, st[i].file, st[i + 1].file)
    <3> HIDE DEF i
    <3> QED BY <2>1, ChainIncludes
  <2>4. ~Flat(dir)[d][st[i].file].ok
    <3> HIDE DEF i
    <3>1. st[i].file \in CfgFiles /\ st[i + 1].file \in CfgFiles
      BY <1>2, <2>1
    <3> QED BY <2>1, <2>2, <2>3, <3>1, IncludedOk
  <2> QED BY <2>1, <2>4 DEF d
<1> HIDE DEF G
<1>5. 0..(m - 1) \subseteq G
  BY <1>1, <1>3, <1>4, UpTo
<1>6. m - 1 \in G
  BY <1>1, <1>5
<1>7. m - (m - 1) = 1 /\ (N - 1) + 1 = N
  BY <1>1
<1>8. ~Flat(dir)[(N - 1) + 1][st[1].file].ok
  BY <1>6, <1>7 DEF G
<1> QED BY <1>7, <1>8 DEF ChainFits

(* The number of finished lines of a file of the chain. *)
LEMMA FinishedIs ==
    ASSUME NEW dir \in CfgDirs, NEW st, ChainFits(dir, st), NEW i \in 1..Len(st)
    PROVE  /\ Finished(st, i) \in Nat /\ Len(dir[st[i].file]) \in Nat /\ Finished(st, i) <= Len(dir[st[i].file])
           /\ st[i] \in IncludeEntry /\ st[i].file \in CfgFiles /\ st[i].next \in Nat
           /\ i \in 1..MaxIncludeDepth
           /\ FrameFits(dir, st, i)
<1>1. st[i] \in IncludeEntry /\ FrameFits(dir, st, i) /\ Len(st) \in 1..MaxIncludeDepth
  BY DEF ChainFits
<1>2. st[i].file \in CfgFiles /\ st[i].next \in Nat
  BY <1>1, EntryIs
<1>3. Len(dir[st[i].file]) \in Nat
  BY <1>2, FileIs
<1>4. st[i].next \in 1..(Len(dir[st[i].file]) + 1) /\ (i # Len(st) => st[i].next >= 2)
  BY <1>1 DEF FrameFits
<1>5. Finished(st, i) \in Nat /\ Finished(st, i) <= Len(dir[st[i].file])
  BY <1>2, <1>3, <1>4 DEF Finished
<1>6. i \in 1..MaxIncludeDepth
  <2>1. MaxIncludeDepth \in Nat
    BY IncludeAssumption
  <2> QED BY <1>1, <2>1
<1> QED BY <1>1, <1>2, <1>3, <1>5, <1>6

LEMMA TakenIs ==
    ASSUME NEW dir \in CfgDirs, NEW st, ChainFits(dir, st)
    PROVE  \A i \in 1..Len(st) : /\ Taken(dir, st)[i] \in Seq(Marks)
                                 /\ Taken(dir, st)[i] = Concat(Finished(st, i), PartLines(dir, st[i].file, Below(dir, i)))
<1> SUFFICES ASSUME NEW i \in 1..Len(st)
             PROVE  /\ Taken(dir, st)[i] \in Seq(Marks)
                    /\ Taken(dir, st)[i] = Concat(Finished(st, i), PartLines(dir, st[i].file, Below(dir, i)))
  OBVIOUS
<1> DEFINE f == st[i].file
           n == Finished(st, i)
           g == PartLines(dir, f, Below(dir, i))
<1>1. Taken(dir, st)[i] = Concat(n, g)
  BY DEF Taken
<1>2. n \in Nat /\ Len(dir[f]) \in Nat /\ n <= Len(dir[f]) /\ f \in CfgFiles /\ Readable(dir, f) /\ i \in 1..MaxIncludeDepth
  BY FinishedIs DEF FrameFits
<1>3. Below(dir, i) \in [CfgFiles -> Given]
  BY <1>2, BelowIs
<1> HIDE DEF n, f
<1>4. \A k \in 1..Len(dir[f]) : g[k] \in Seq(Marks)
  BY <1>2, <1>3, PartLinesAre
<1>5. \A k \in 1..n : k \in 1..Len(dir[f])
  BY <1>2
<1>6. Concat(n, g) \in Seq(Marks)
  <2> HIDE DEF g
  <2>1. \A k \in 1..n : g[k] \in Seq(Marks)
    BY <1>4, <1>5
  <2> QED BY <1>2, <2>1, ConcatType
<1> QED BY <1>1, <1>6 DEF n, f

(* A place of the chain with another one after it stays as it is. *)
(* One more line of the file in work is done. *)
LEMMA LineDone ==
    ASSUME NEW dir \in CfgDirs, NEW f \in CfgFiles, Readable(dir, f), NEW below \in [CfgFiles -> Given],
           NEW n \in Nat, n + 1 <= Len(dir[f])
    PROVE  Concat(n + 1, PartLines(dir, f, below)) = Concat(n, PartLines(dir, f, below)) \o Part(dir, f, n + 1, below).lines
<1> DEFINE g == PartLines(dir, f, below)
<1>1. Len(dir[f]) \in Nat
  BY FileIs
<1>2. n + 1 \in 1..Len(dir[f]) /\ \A k \in 1..(n + 1) : k \in 1..Len(dir[f])
  BY <1>1
<1>3. \A k \in 1..Len(dir[f]) : g[k] = Part(dir, f, k, below).lines /\ g[k] \in Seq(Marks)
  BY PartLinesAre
<1> HIDE DEF g
<1>4. Concat(n + 1, g) = Concat(n, g) \o g[n + 1]
  <2>1. \A k \in 1..(n + 1) : g[k] \in Seq(Marks)
    BY <1>2, <1>3
  <2> QED BY <2>1, ConcatNext
<1> QED BY <1>2, <1>3, <1>4 DEF g

(* The entry in work moves on by a line. *)
Moved(e) == [key |-> e.key, file |-> e.file, next |-> e.next + 1]

LEMMA MovedIs ==
    ASSUME NEW st \in Seq(IncludeEntry), st # <<>>
    PROVE  LET m == Len(st)
               r == Append(Front(st), Moved(Last(st)))
           IN  /\ m \in Nat /\ m >= 1 /\ m \in 1..m /\ Last(st) = st[m] /\ st[m] \in IncludeEntry
               /\ r \in Seq(IncludeEntry) /\ Len(r) = m
               /\ r[m].key = st[m].key /\ r[m].file = st[m].file /\ r[m].next = st[m].next + 1
               /\ \A i \in 1..m : i # m => r[i] = st[i]
<1> DEFINE m == Len(st)
           e == Moved(Last(st))
           r == Append(Front(st), e)
<1>1. m \in Nat /\ m >= 1 /\ m \in 1..m /\ Last(st) = st[m] /\ st[m] \in IncludeEntry
  BY FrontIs
<1>2. e \in IncludeEntry /\ e.key = st[m].key /\ e.file = st[m].file /\ e.next = st[m].next + 1
  BY <1>1 DEF IncludeEntry, Moved
<1> HIDE DEF e
<1>3. r \in Seq(IncludeEntry) /\ Len(r) = m /\ r[m] = e /\ \A i \in 1..m : i # m => r[i] = st[i]
  BY <1>2, ReplaceLast
<1> QED BY <1>1, <1>2, <1>3 DEF e

(* expand_line: one more line of the file in work. *)
LEMMA ChainAdvances ==
    ASSUME NEW dir \in CfgDirs, NEW st, ChainFits(dir, st), NEW r, r = Append(Front(st), Moved(Last(st))),
           Last(st).next <= Len(dir[Last(st).file]), dir[Last(st).file][Last(st).next].k = "text"
    PROVE  /\ ChainFits(dir, r)
           /\ Concat(Len(r), Taken(dir, r)) = Append(Concat(Len(st), Taken(dir, st)), <<Last(st).file, Last(st).next>>)
<1> DEFINE m == Len(st)
           f == st[m].file
           n == st[m].next
           x == <<f, n>>
<1>1. st \in Seq(IncludeEntry) /\ m \in 1..MaxIncludeDepth /\ MaxIncludeDepth \in Nat
  BY IncludeAssumption DEF ChainFits
<1>2. st # <<>>
  BY <1>1
<1>3. /\ m \in Nat /\ m >= 1 /\ m \in 1..m /\ Last(st) = st[m] /\ st[m] \in IncludeEntry
      /\ r \in Seq(IncludeEntry) /\ Len(r) = m
      /\ r[m].key = st[m].key /\ r[m].file = f /\ r[m].next = n + 1
      /\ \A i \in 1..m : i # m => r[i] = st[i]
  BY <1>1, <1>2, MovedIs
<1>4. n <= Len(dir[f]) /\ dir[f][n].k = "text"
  BY <1>3
<1>5. /\ n - 1 \in Nat /\ Len(dir[f]) \in Nat /\ f \in CfgFiles /\ n \in Nat /\ FrameFits(dir, st, m)
      /\ Finished(st, m) = n - 1
  BY <1>3, FinishedIs DEF Finished
<1>6. Readable(dir, f) /\ Parses(dir, f) /\ \A k \in 1..(n - 1) : Part(dir, f, k, Below(dir, m)).ok
  BY <1>5 DEF FrameFits
<1>7. Part(dir, f, n, Below(dir, m)) = [ok |-> TRUE, lines |-> <<x>>]
  BY <1>4 DEF Part
<1> HIDE DEF x
<1>8. Part(dir, f, n, Below(dir, m)).ok /\ Part(dir, f, n, Below(dir, m)).lines = <<x>>
  BY <1>7
<1>9. x \in Marks
  BY <1>5 DEF Marks, x
<1>10. Below(dir, m) \in [CfgFiles -> Given]
  BY <1>1, BelowIs
<1> HIDE DEF m, f, n
<1>11. Finished(r, m) = n
  BY <1>3, <1>5 DEF Finished
<1>12. FrameFits(dir, r, m)
  <2>1. \A k \in 1..n : k = n \/ k \in 1..(n - 1)
    BY <1>5
  <2>2. \A k \in 1..n : Part(dir, f, k, Below(dir, m)).ok
    BY <1>6, <1>8, <2>1
  <2>3. n + 1 \in 1..(Len(dir[f]) + 1)
    BY <1>4, <1>5
  <2>4. st[m].key.file = f
    BY <1>5 DEF FrameFits, f
  <2> QED BY <1>3, <1>6, <1>11, <2>2, <2>3, <2>4 DEF FrameFits
<1>13. ASSUME NEW i \in 1..m, i # m PROVE FrameFits(dir, r, i) /\ Finished(r, i) = Finished(st, i)
  <2>1. i + 1 \in 1..m
    BY <1>3, <1>13
  <2>2. r[i + 1].file = st[i + 1].file
    BY <1>3, <2>1 DEF f
  <2>3. FrameFits(dir, st, i)
    BY FinishedIs DEF m
  <2>4. i # Len(st) /\ i # Len(r) /\ r[i] = st[i]
    BY <1>3, <1>13 DEF m
  <2>5. Finished(r, i) = Finished(st, i)
    BY <2>4 DEF Finished
  <2> QED BY <2>2, <2>3, <2>4, <2>5 DEF FrameFits
<1>14. \A i \in 1..m : r[i].key = st[i].key
  BY <1>3
<1>15. st[1].file = RootCfg /\ \A i, j \in 1..m : i # j => st[i].key # st[j].key
  BY DEF ChainFits, m
<1>16. r[1].file = RootCfg
  <2>1. 1 \in 1..m
    BY <1>3
  <2>2. r[1].file = st[1].file
    BY <1>3, <2>1 DEF f
  <2> QED BY <1>15, <2>2
<1>17. ChainFits(dir, r)
  <2>1. \A i \in 1..m : FrameFits(dir, r, i)
    BY <1>12, <1>13
  <2>2. \A i, j \in 1..m : i # j => r[i].key # r[j].key
    BY <1>14, <1>15
  <2> QED BY <1>1, <1>3, <1>16, <2>1, <2>2 DEF ChainFits
<1> DEFINE g == Taken(dir, st)
           h == Taken(dir, r)
           P == PartLines(dir, f, Below(dir, m))
<1>18. \A i \in 1..m : g[i] \in Seq(Marks) /\ g[i] = Concat(Finished(st, i), PartLines(dir, st[i].file, Below(dir, i)))
  BY TakenIs DEF m
<1>19. \A i \in 1..m : h[i] \in Seq(Marks) /\ h[i] = Concat(Finished(r, i), PartLines(dir, r[i].file, Below(dir, i)))
  BY <1>3, <1>17, TakenIs
<1> HIDE DEF g, h
<1>20. ASSUME NEW k \in 1..(m - 1) PROVE g[k] = h[k]
  <2>1. k \in 1..m /\ k # m
    BY <1>3
  <2>2. r[k] = st[k] /\ Finished(r, k) = Finished(st, k)
    BY <1>3, <1>13, <2>1
  <2> QED BY <1>18, <1>19, <2>1, <2>2
<1>21. h[m] = g[m] \o <<x>>
  <2>1. h[m] = Concat(n, P) /\ g[m] = Concat(n - 1, P)
    BY <1>3, <1>5, <1>11, <1>18, <1>19 DEF f, n, m
  <2>2. (n - 1) + 1 = n /\ (n - 1) + 1 <= Len(dir[f])
    BY <1>4, <1>5
  <2>3. Concat((n - 1) + 1, P) = Concat(n - 1, P) \o Part(dir, f, (n - 1) + 1, Below(dir, m)).lines
    BY <1>5, <1>6, <1>10, <2>2, LineDone
  <2> QED BY <1>8, <2>1, <2>2, <2>3
<1>22. <<x>> \in Seq(Marks)
  BY <1>9
<1>23. Concat(m, h) = Concat(m, g) \o <<x>>
  <2>1. Joinable(Marks, m, g) /\ Joinable(Marks, m, h)
    BY <1>18, <1>19 DEF Joinable
  <2>3. m \in Nat /\ m >= 1
    BY <1>3
  <2> DEFINE y == <<x>>
  <2>2. y \in Seq(Marks)
    BY <1>22
  <2>4. Longer(m, g, h, y)
    BY <1>20, <1>21 DEF Longer, Alike
  <2> HIDE DEF y
  <2>5. Concat(m, h) = Concat(m, g) \o y
    BY <2>1, <2>2, <2>3, <2>4, ConcatGrown
  <2> QED BY <2>5 DEF y
<1>24. Concat(m, g) \in Seq(Marks)
  BY <1>3, <1>18, ConcatType
<1>25. Concat(m, h) = Append(Concat(m, g), x)
  BY <1>9, <1>23, <1>24, JoinOne
<1>26. x = <<Last(st).file, Last(st).next>>
  BY <1>3 DEF x, f, n, m
<1> QED BY <1>3, <1>17, <1>25, <1>26 DEF g, h, m

(* expand_include: the included file goes on the chain. *)
Enters(dir, st, e) ==
    /\ Last(st).next <= Len(dir[Last(st).file]) /\ Follows(dir[Last(st).file][Last(st).next], e.file)
    /\ Len(st) < MaxIncludeDepth /\ \A i \in 1..Len(st) : st[i].key # e.key
    /\ Readable(dir, e.file) /\ Parses(dir, e.file) /\ e.next = 1 /\ e.key.file = e.file

LEMMA ChainGrows ==
    ASSUME NEW dir \in CfgDirs, NEW st, ChainFits(dir, st), NEW e \in IncludeEntry, Enters(dir, st, e),
           NEW r, r = Append(Append(Front(st), Moved(Last(st))), e)
    PROVE  /\ ChainFits(dir, r)
           /\ Concat(Len(r), Taken(dir, r)) = Concat(Len(st), Taken(dir, st))
<1> DEFINE m == Len(st)
           f == st[m].file
           n == st[m].next
           q == Append(Front(st), Moved(Last(st)))
<1>0. /\ Last(st).next <= Len(dir[Last(st).file]) /\ Follows(dir[Last(st).file][Last(st).next], e.file)
      /\ Len(st) < MaxIncludeDepth /\ (\A i \in 1..Len(st) : st[i].key # e.key)
      /\ Readable(dir, e.file) /\ Parses(dir, e.file) /\ e.next = 1 /\ e.key.file = e.file
  BY DEF Enters
<1>1. st \in Seq(IncludeEntry) /\ m \in 1..MaxIncludeDepth /\ MaxIncludeDepth \in Nat
  BY IncludeAssumption DEF ChainFits
<1>2. st # <<>>
  BY <1>1
<1>3. /\ m \in Nat /\ m >= 1 /\ m \in 1..m /\ Last(st) = st[m] /\ st[m] \in IncludeEntry
      /\ q \in Seq(IncludeEntry) /\ Len(q) = m
      /\ q[m].key = st[m].key /\ q[m].file = f /\ q[m].next = n + 1
      /\ \A i \in 1..m : i # m => q[i] = st[i]
  BY <1>1, <1>2, MovedIs
<1>4. n <= Len(dir[f]) /\ Follows(dir[f][n], e.file)
  BY <1>0, <1>3
<1>5. /\ n - 1 \in Nat /\ Len(dir[f]) \in Nat /\ f \in CfgFiles /\ n \in Nat /\ FrameFits(dir, st, m)
      /\ Finished(st, m) = n - 1
  BY <1>3, FinishedIs DEF Finished
<1>6. r = Append(q, e)
  OBVIOUS
<1> HIDE DEF q, m, f, n
<1>7. r \in Seq(IncludeEntry) /\ Len(r) = m + 1 /\ r[m + 1] = e /\ \A i \in 1..m : r[i] = q[i]
  <2>1. \A s \in Seq(IncludeEntry), x \in IncludeEntry : /\ Append(s, x) \in Seq(IncludeEntry) /\ Len(Append(s, x)) = Len(s) + 1
                                          /\ Append(s, x)[Len(s) + 1] = x /\ \A i \in 1..Len(s) : Append(s, x)[i] = s[i]
    OBVIOUS
  <2>2. q \in Seq(IncludeEntry) /\ Len(q) = m
    BY <1>3
  <2>3. /\ Append(q, e) \in Seq(IncludeEntry) /\ Len(Append(q, e)) = Len(q) + 1
        /\ Append(q, e)[Len(q) + 1] = e /\ \A i \in 1..Len(q) : Append(q, e)[i] = q[i]
    BY <2>1, <2>2
  <2> QED BY <1>6, <2>2, <2>3
<1>8. Finished(r, m) = n - 1 /\ Finished(r, m + 1) = 0
  <2>1. r[m].next = n + 1 /\ m # m + 1 /\ (n + 1) - 2 = n - 1 /\ r[m + 1].next - 1 = 0
    BY <1>0, <1>3, <1>5, <1>7
  <2> QED BY <1>7, <2>1 DEF Finished
<1>9. FrameFits(dir, r, m)
  <2>1. r[m].key.file = r[m].file /\ r[m].file = f /\ r[m].next = n + 1
    BY <1>3, <1>5, <1>7 DEF FrameFits, f
  <2>2. Readable(dir, f) /\ Parses(dir, f) /\ \A k \in 1..(n - 1) : Part(dir, f, k, Below(dir, m)).ok
    BY <1>5 DEF FrameFits, f, m
  <2>3. n + 1 \in 1..(Len(dir[f]) + 1) /\ n + 1 >= 2 /\ (n + 1) - 1 = n
    BY <1>4, <1>5
  <2> QED BY <1>4, <1>7, <1>8, <2>1, <2>2, <2>3 DEF FrameFits
<1>10. FrameFits(dir, r, m + 1)
  <2>1. Len(dir[e.file]) \in Nat
    BY EntryIs, FileIs
  <2>2. 1 \in 1..(Len(dir[e.file]) + 1)
    BY <2>1
  <2>3. \A k \in 1..0 : Part(dir, e.file, k, Below(dir, m + 1)).ok
    OBVIOUS
  <2> QED BY <1>0, <1>7, <1>8, <2>2, <2>3 DEF FrameFits
<1>11. ASSUME NEW i \in 1..m, i # m PROVE FrameFits(dir, r, i) /\ Finished(r, i) = Finished(st, i)
  <2>1. i + 1 \in 1..m
    BY <1>3, <1>11
  <2>2. r[i + 1].file = st[i + 1].file
    BY <1>3, <1>7, <2>1 DEF f
  <2>3. FrameFits(dir, st, i)
    BY FinishedIs DEF m
  <2>4. i # Len(st) /\ i # Len(r) /\ r[i] = st[i]
    BY <1>3, <1>7, <1>11 DEF m
  <2>5. Finished(r, i) = Finished(st, i)
    BY <2>4 DEF Finished
  <2> QED BY <2>2, <2>3, <2>4, <2>5 DEF FrameFits
<1>12. \A i \in 1..m : r[i].key = st[i].key /\ r[i].file = st[i].file
  BY <1>3, <1>7 DEF f
<1>13. st[1].file = RootCfg /\ \A i, j \in 1..m : i # j => st[i].key # st[j].key
  BY DEF ChainFits, m
<1>14. r[1].file = RootCfg
  <2>1. 1 \in 1..m
    BY <1>3
  <2> QED BY <1>12, <1>13, <2>1
<1>15. \A i \in 1..(m + 1) : i = m + 1 \/ i \in 1..m
  BY <1>3
<1>16. ChainFits(dir, r)
  <2>1. \A i \in 1..(m + 1) : FrameFits(dir, r, i)
    BY <1>9, <1>10, <1>11, <1>15
  <2>2. \A i \in 1..m : st[i].key # e.key
    BY <1>0 DEF m
  <2>3. \A i, j \in 1..(m + 1) : i # j => r[i].key # r[j].key
    BY <1>7, <1>12, <1>13, <1>15, <2>2
  <2>4. m + 1 \in 1..MaxIncludeDepth
    BY <1>0, <1>1, <1>3 DEF m
  <2> QED BY <1>7, <1>14, <2>1, <2>3, <2>4 DEF ChainFits
<1> DEFINE g == Taken(dir, st)
           h == Taken(dir, r)
<1>17. \A i \in 1..m : g[i] \in Seq(Marks) /\ g[i] = Concat(Finished(st, i), PartLines(dir, st[i].file, Below(dir, i)))
  BY TakenIs DEF m
<1>18. \A i \in 1..(m + 1) : h[i] \in Seq(Marks) /\ h[i] = Concat(Finished(r, i), PartLines(dir, r[i].file, Below(dir, i)))
  BY <1>7, <1>16, TakenIs
<1> HIDE DEF g, h
<1>19. ASSUME NEW i \in 1..m PROVE g[i] = h[i]
  <2>1. Finished(r, i) = Finished(st, i) /\ i \in 1..(m + 1)
    BY <1>3, <1>5, <1>8, <1>11 DEF m
  <2> QED BY <1>12, <1>17, <1>18, <2>1
<1>20. h[m + 1] = <<>>
  <2>1. m + 1 \in 1..(m + 1)
    BY <1>3
  <2>2. h[m + 1] = Concat(0, PartLines(dir, r[m + 1].file, Below(dir, m + 1)))
    BY <1>8, <1>18, <2>1
  <2> QED BY <2>2, ConcatNone
<1>21. Concat(m, g) = Concat(m, h)
  <2>1. Joinable(Marks, m, g) /\ Alike(m, g, h)
    BY <1>17, <1>19 DEF Joinable, Alike
  <2> QED BY <1>3, <2>1, ConcatAlike
<1>22. Concat(m + 1, h) = Concat(m, h) \o h[m + 1]
  BY <1>3, <1>18, ConcatNext
<1>23. Concat(m, g) \in Seq(Marks)
  BY <1>3, <1>17, ConcatType
<1>24. Concat(m, g) \o <<>> = Concat(m, g)
  BY <1>23, JoinEmpty
<1> QED BY <1>7, <1>16, <1>20, <1>21, <1>22, <1>24 DEF g, h, m

(* The file in work is read to its end. *)
LEMMA ChainTopDone ==
    ASSUME NEW dir \in CfgDirs, NEW st, ChainFits(dir, st), ~(Last(st).next <= Len(dir[Last(st).file]))
    PROVE  LET m == Len(st)
               flat == Flat(dir)[(MaxIncludeDepth - m) + 1][st[m].file]
           IN  flat.ok /\ flat.lines = Taken(dir, st)[m]
<1> DEFINE m == Len(st)
           f == st[m].file
           n == st[m].next
           d == (MaxIncludeDepth - m) + 1
<1>1. st \in Seq(IncludeEntry) /\ m \in 1..MaxIncludeDepth /\ MaxIncludeDepth \in Nat
  BY IncludeAssumption DEF ChainFits
<1>2. st # <<>>
  BY <1>1
<1>3. m \in Nat /\ m \in 1..m /\ Last(st) = st[m]
  BY <1>1, <1>2, FrontIs
<1>4. /\ Len(dir[f]) \in Nat /\ f \in CfgFiles /\ n \in Nat /\ FrameFits(dir, st, m)
      /\ Finished(st, m) = n - 1
  BY <1>3, FinishedIs DEF Finished
<1>5. n \in 1..(Len(dir[f]) + 1) /\ ~(n <= Len(dir[f]))
  BY <1>3, <1>4 DEF FrameFits
<1>6. n - 1 = Len(dir[f])
  <2> DEFINE l == Len(dir[f])
  <2>1. n \in Nat /\ l \in Nat /\ n \in 1..(l + 1) /\ ~(n <= l)
    BY <1>4, <1>5
  <2> HIDE DEF n, l
  <2>2. n - 1 = l
    BY <2>1
  <2> QED BY <2>2 DEF l
<1>7. Readable(dir, f) /\ Parses(dir, f) /\ \A k \in 1..Len(dir[f]) : Part(dir, f, k, Below(dir, m)).ok
  BY <1>4, <1>6 DEF FrameFits
<1>8. d \in 1..MaxIncludeDepth /\ Flat(dir)[d - 1] = Below(dir, m)
  BY <1>1, BelowIs DEF Below
<1>9. Taken(dir, st)[m] = Concat(Len(dir[f]), PartLines(dir, f, Below(dir, m)))
  BY <1>3, <1>4, <1>6, TakenIs
<1> HIDE DEF m, f, n, d
<1>10. Flat(dir)[d][f].ok
  BY <1>4, <1>7, <1>8, FlatOk
<1>11. Flat(dir)[d][f].lines = Concat(Len(dir[f]), PartLines(dir, f, Below(dir, m)))
  BY <1>4, <1>7, <1>8, FlatOk
<1> QED BY <1>9, <1>10, <1>11 DEF m, f, d

(* include_returns: the including file goes on. *)
LEMMA ChainShrinks ==
    ASSUME NEW dir \in CfgDirs, NEW st, ChainFits(dir, st), NEW r, r = Front(st),
           ~(Last(st).next <= Len(dir[Last(st).file])), Len(st) # 1
    PROVE  /\ ChainFits(dir, r)
           /\ Concat(Len(r), Taken(dir, r)) = Concat(Len(st), Taken(dir, st))
<1> DEFINE m == Len(st)
           c == m - 1
           f == st[c].file
           n == st[c].next
           t == st[m].file
<1>1. st \in Seq(IncludeEntry) /\ m \in 1..MaxIncludeDepth /\ MaxIncludeDepth \in Nat
  BY IncludeAssumption DEF ChainFits
<1>2. st # <<>>
  BY <1>1
<1>3. m \in Nat /\ m >= 1 /\ m \in 1..m /\ Last(st) = st[m] /\ r \in Seq(IncludeEntry) /\ Len(r) = m - 1
      /\ \A i \in 1..(m - 1) : r[i] = st[i]
  BY <1>1, <1>2, FrontIs
<1>4. m >= 2
  BY <1>3
<1> HIDE DEF m
<1>5. c \in Nat /\ c >= 1 /\ c \in 1..c /\ c \in 1..m /\ c # m /\ c + 1 = m /\ (\A i \in 1..c : i \in 1..m /\ i # m) /\ c \in 1..MaxIncludeDepth
  BY <1>1, <1>3, <1>4
<1> HIDE DEF c
<1>6. r \in Seq(IncludeEntry) /\ Len(r) = c /\ \A i \in 1..c : r[i] = st[i]
  BY <1>3 DEF c
<1>7. /\ Len(dir[f]) \in Nat /\ f \in CfgFiles /\ n \in Nat /\ FrameFits(dir, st, c)
      /\ Finished(st, c) = n - 2 /\ t \in CfgFiles
  <2>1. Len(dir[f]) \in Nat /\ f \in CfgFiles /\ n \in Nat /\ FrameFits(dir, st, c)
    BY <1>5, FinishedIs DEF m
  <2>2. Finished(st, c) = n - 2
    BY <1>5 DEF Finished, m
  <2>3. t \in CfgFiles
    BY <1>3, FinishedIs DEF m
  <2> QED BY <2>1, <2>2, <2>3
<1>8. /\ Readable(dir, f) /\ Parses(dir, f) /\ st[c].key.file = f
      /\ n \in 1..(Len(dir[f]) + 1) /\ n >= 2 /\ Follows(dir[f][n - 1], t)
      /\ \A k \in 1..(n - 2) : Part(dir, f, k, Below(dir, c)).ok
  BY <1>5, <1>7 DEF FrameFits, m
<1>9. Finished(r, c) = n - 1
  BY <1>5, <1>6 DEF Finished
<1> DEFINE flat == Flat(dir)[(MaxIncludeDepth - m) + 1][t]
<1>10. flat.ok /\ flat.lines = Taken(dir, st)[m]
  BY ChainTopDone DEF m
<1>11. Part(dir, f, n - 1, Below(dir, c)) = flat
  <2>1. MaxIncludeDepth - c = (MaxIncludeDepth - m) + 1
    BY <1>1, <1>3 DEF c
  <2>2. Part(dir, f, n - 1, Below(dir, c)) = Below(dir, c)[t]
    BY <1>8 DEF Part, Follows
  <2> QED BY <2>1, <2>2 DEF Below
<1> HIDE DEF f, n, t, flat
<1>12. FrameFits(dir, r, c)
  <2>1. \A k \in 1..(n - 1) : k = n - 1 \/ k \in 1..(n - 2)
    BY <1>7
  <2>2. \A k \in 1..(n - 1) : Part(dir, f, k, Below(dir, c)).ok
    BY <1>8, <1>10, <1>11, <2>1
  <2>3. r[c] = st[c]
    BY <1>5, <1>6
  <2> QED BY <1>6, <1>8, <1>9, <2>2, <2>3 DEF FrameFits, f, n
<1>13. ASSUME NEW i \in 1..c, i # c PROVE FrameFits(dir, r, i) /\ Finished(r, i) = Finished(st, i)
  <2>1. i + 1 \in 1..c /\ i \in 1..m /\ i # m
    BY <1>5, <1>13
  <2>2. r[i + 1].file = st[i + 1].file /\ r[i] = st[i]
    BY <1>6, <2>1
  <2>3. FrameFits(dir, st, i)
    BY <2>1, FinishedIs DEF m
  <2>4. i # Len(st) /\ i # Len(r)
    BY <1>6, <1>13, <2>1 DEF m
  <2>5. Finished(r, i) = Finished(st, i)
    BY <2>2, <2>4 DEF Finished
  <2> QED BY <2>2, <2>3, <2>4, <2>5 DEF FrameFits
<1>14. ChainFits(dir, r)
  <2>1. st[1].file = RootCfg /\ \A i, j \in 1..m : i # j => st[i].key # st[j].key
    BY DEF ChainFits, m
  <2>2. 1 \in 1..c
    BY <1>5
  <2>3. r[1].file = RootCfg
    BY <1>6, <2>1, <2>2
  <2>4. \A i, j \in 1..c : i # j => r[i].key # r[j].key
    BY <1>5, <1>6, <2>1
  <2>5. \A i \in 1..c : FrameFits(dir, r, i)
    BY <1>12, <1>13
  <2> QED BY <1>5, <1>6, <2>3, <2>4, <2>5 DEF ChainFits
<1> DEFINE g == Taken(dir, st)
           h == Taken(dir, r)
           P == PartLines(dir, f, Below(dir, c))
<1>15. \A i \in 1..m : g[i] \in Seq(Marks) /\ g[i] = Concat(Finished(st, i), PartLines(dir, st[i].file, Below(dir, i)))
  BY TakenIs DEF m
<1>16. \A i \in 1..c : h[i] \in Seq(Marks) /\ h[i] = Concat(Finished(r, i), PartLines(dir, r[i].file, Below(dir, i)))
  BY <1>6, <1>14, TakenIs
<1>17. g[m] = flat.lines
  BY <1>10
<1> HIDE DEF g, h
<1>18. ASSUME NEW k \in 1..(c - 1) PROVE g[k] = h[k]
  <2>1. k \in 1..c /\ k # c /\ k \in 1..m
    BY <1>5
  <2>2. r[k] = st[k] /\ Finished(r, k) = Finished(st, k)
    BY <1>6, <1>13, <2>1
  <2> QED BY <1>15, <1>16, <2>1, <2>2
<1>19. h[c] = g[c] \o g[m]
  <2>1. h[c] = Concat(n - 1, P) /\ g[c] = Concat(n - 2, P)
    BY <1>5, <1>6, <1>7, <1>9, <1>15, <1>16 DEF f, n
  <2>2. (n - 2) + 1 = n - 1 /\ n - 2 \in Nat /\ (n - 2) + 1 <= Len(dir[f])
    BY <1>7, <1>8
  <2>3. Below(dir, c) \in [CfgFiles -> Given]
    BY <1>5, BelowIs
  <2>4. Concat((n - 2) + 1, P) = Concat(n - 2, P) \o Part(dir, f, (n - 2) + 1, Below(dir, c)).lines
    BY <1>7, <1>8, <2>2, <2>3, LineDone
  <2> QED BY <1>11, <1>17, <2>1, <2>2, <2>4
<1>20. Concat(c, h) = Concat(c, g) \o g[m]
  <2>1. Joinable(Marks, c, g) /\ Joinable(Marks, c, h)
    BY <1>5, <1>15, <1>16 DEF Joinable
  <2> DEFINE y == g[m]
  <2>2. y \in Seq(Marks)
    BY <1>3, <1>15
  <2>3. Longer(c, g, h, y)
    BY <1>18, <1>19 DEF Longer, Alike
  <2> HIDE DEF y
  <2>4. Concat(c, h) = Concat(c, g) \o y
    BY <1>5, <2>1, <2>2, <2>3, ConcatGrown
  <2> QED BY <2>4 DEF y
<1>21. Concat(m, g) = Concat(m - 1, g) \o g[m]
  BY <1>3, <1>15, ConcatLast
<1> QED BY <1>6, <1>14, <1>20, <1>21 DEF g, h, m, c

(* resolve_root: the chain of the one file the server is started with. *)
LEMMA ChainStarts ==
    ASSUME NEW dir \in CfgDirs, NEW e \in IncludeEntry, Readable(dir, RootCfg), Parses(dir, RootCfg),
           e.file = RootCfg, e.next = 1, e.key.file = RootCfg, NEW r, r = <<e>>
    PROVE  /\ ChainFits(dir, r) /\ Concat(Len(r), Taken(dir, r)) = <<>>
<1>1. r \in Seq(IncludeEntry) /\ Len(r) = 1 /\ r[1] = e
  OBVIOUS
<1>2. Finished(r, 1) = 0
  BY <1>1 DEF Finished
<1>3. FrameFits(dir, r, 1)
  <2>1. Len(dir[RootCfg]) \in Nat
    BY IncludeAssumption, FileIs
  <2>2. 1 \in 1..(Len(dir[RootCfg]) + 1) /\ \A k \in 1..0 : Part(dir, RootCfg, k, Below(dir, 1)).ok
    BY <2>1
  <2> QED BY <1>1, <1>2, <2>2 DEF FrameFits
<1>4. ChainFits(dir, r)
  <2>1. 1 \in 1..MaxIncludeDepth /\ \A i \in 1..1 : i = 1
    BY IncludeAssumption
  <2> QED BY <1>1, <1>3, <2>1 DEF ChainFits
<1> DEFINE h == Taken(dir, r)
<1>5. h[1] = Concat(0, PartLines(dir, r[1].file, Below(dir, 1))) /\ h[1] \in Seq(Marks)
  <2>1. 1 \in 1..Len(r)
    BY <1>1
  <2>2. Taken(dir, r)[1] \in Seq(Marks) /\ Taken(dir, r)[1] = Concat(Finished(r, 1), PartLines(dir, r[1].file, Below(dir, 1)))
    BY <1>4, <2>1, TakenIs
  <2> QED BY <1>2, <2>2
<1>6. h[1] = <<>>
  BY <1>5, ConcatNone
<1> HIDE DEF h
<1>7. Concat(1, h) = Concat(1 - 1, h) \o h[1]
  <2>1. \A k \in 1..1 : h[k] \in Seq(Marks)
    BY <1>5
  <2>2. ASSUME NEW n \in Nat, n = 1 PROVE Concat(n, h) = Concat(n - 1, h) \o h[n]
    <3>1. n >= 1 /\ \A k \in 1..n : h[k] \in Seq(Marks)
      BY <2>1, <2>2
    <3> QED BY <3>1, ConcatLast
  <2>3. 1 \in Nat
    OBVIOUS
  <2> QED BY <2>2, <2>3
<1>8. Concat(0, h) = <<>>
  BY ConcatNone
<1>9. <<>> \in Seq(Marks) /\ 1 - 1 = 0
  OBVIOUS
<1>10. Concat(1, h) = <<>> \o <<>>
  BY <1>6, <1>7, <1>8, <1>9
<1>11. <<>> \o <<>> = <<>>
  BY <1>9, JoinEmpty
<1> QED BY <1>1, <1>4, <1>10, <1>11 DEF h

(* What the chain has given so far, and what the whole gives. *)
SoFar(dir, st) == Concat(Len(st), Taken(dir, st))
AllOf(dir) == Flat(dir)[MaxIncludeDepth][RootCfg]

IncludeInv ==
    /\ cfgDir \in CfgDirs
    /\ includeStack = <<>> \/ ChainFits(cfgDir, includeStack)
    /\ includeStatus = "none" => includeStack = <<>> /\ expanded = <<>>
    /\ includeStatus = "running" => ChainFits(cfgDir, includeStack) /\ expanded = SoFar(cfgDir, includeStack)
    /\ includeStatus = "ok" => AllOf(cfgDir).ok /\ expanded = AllOf(cfgDir).lines
    /\ includeStatus \notin {"none", "running", "ok"} => ~AllOf(cfgDir).ok

LEMMA IncludeInvImplies == IncludeInv => IncludesExact
<1> SUFFICES ASSUME IncludeInv PROVE IncludesExact
  OBVIOUS
<1>1. Len(includeStack) <= MaxIncludeDepth /\ \A i, j \in DOMAIN includeStack : i # j => includeStack[i].key # includeStack[j].key
  <2>1. MaxIncludeDepth \in Nat
    BY IncludeAssumption
  <2>2. CASE includeStack = <<>>
    <3>1. Len(<<>>) = 0 /\ DOMAIN <<>> = {}
      OBVIOUS
    <3> QED BY <2>1, <2>2, <3>1
  <2>3. CASE ChainFits(cfgDir, includeStack)
    <3>1. includeStack \in Seq(IncludeEntry) /\ Len(includeStack) \in 1..MaxIncludeDepth
          /\ \A i, j \in 1..Len(includeStack) : i # j => includeStack[i].key # includeStack[j].key
      BY <2>3 DEF ChainFits
    <3>2. DOMAIN includeStack = 1..Len(includeStack)
      BY <3>1
    <3> QED BY <2>1, <3>1, <3>2
  <2> QED BY <2>2, <2>3 DEF IncludeInv
<1> QED BY <1>1 DEF IncludeInv, IncludesExact, AllOf

LEMMA IncludeInvInit == IncludeInit => IncludeInv
BY DEF IncludeInit, IncludeInv, CfgDirs

LEMMA WriteCfgKeeps == IncludeInv /\ write_cfg_files => IncludeInv'
BY DEF write_cfg_files, IncludeInv, CfgDirs

LEMMA ResolveRootKeeps == IncludeInv /\ resolve_root => IncludeInv'
<1> SUFFICES ASSUME IncludeInv, resolve_root PROVE IncludeInv'
  OBVIOUS
<1>1. cfgDir \in CfgDirs /\ includeStack = <<>> /\ expanded = <<>> /\ includeStatus = "none" /\ RootCfg \in CfgFiles
  BY IncludeAssumption DEF IncludeInv, resolve_root
<1>2. MaxIncludeDepth \in 1..MaxIncludeDepth
  BY IncludeAssumption
<1>3. CASE ~Readable(cfgDir, RootCfg) \/ ~Parses(cfgDir, RootCfg)
  <2>1. ~AllOf(cfgDir).ok
    BY <1>1, <1>2, <1>3, FlatOk DEF AllOf
  <2>2. cfgDir' = cfgDir /\ includeStack' = includeStack /\ expanded' = expanded
        /\ includeStatus' \in {"IncludeMissing", "ParseError"}
    BY <1>3 DEF resolve_root, IncludeFails
  <2> QED BY <1>1, <2>1, <2>2 DEF IncludeInv
<1>4. CASE Readable(cfgDir, RootCfg) /\ Parses(cfgDir, RootCfg)
  <2> DEFINE e == [key |-> [file |-> RootCfg, spelled |-> "plain"], file |-> RootCfg, next |-> 1]
  <2>1. cfgDir' = cfgDir /\ includeStack' = <<e>> /\ expanded' = expanded /\ includeStatus' = "running"
    BY <1>4 DEF resolve_root, IncludeFails
  <2>2. e \in IncludeEntry /\ e.file = RootCfg /\ e.next = 1 /\ e.key.file = RootCfg
    BY <1>1 DEF IncludeEntry, Spellings
  <2> HIDE DEF e
  <2>3. ChainFits(cfgDir, includeStack') /\ Concat(Len(includeStack'), Taken(cfgDir, includeStack')) = <<>>
    BY <1>1, <1>4, <2>1, <2>2, ChainStarts
  <2> QED BY <1>1, <2>1, <2>3 DEF IncludeInv, SoFar
<1> QED BY <1>3, <1>4

(* The step of the chain that Advanced stands for. *)
LEMMA AdvancedIs == Advanced = Append(Front(includeStack), Moved(Last(includeStack)))
BY DEF Advanced, Top, Moved

LEMMA ExpandLineKeeps == IncludeInv /\ expand_line => IncludeInv'
<1> SUFFICES ASSUME IncludeInv, expand_line PROVE IncludeInv'
  OBVIOUS
<1> DEFINE r == Append(Front(includeStack), Moved(Last(includeStack)))
<1>1. /\ cfgDir \in CfgDirs /\ ChainFits(cfgDir, includeStack) /\ expanded = SoFar(cfgDir, includeStack)
      /\ includeStatus = "running"
  BY DEF IncludeInv, expand_line, AtLine
<1>2. /\ Last(includeStack).next <= Len(cfgDir[Last(includeStack).file])
      /\ cfgDir[Last(includeStack).file][Last(includeStack).next].k = "text"
      /\ expanded' = Append(expanded, <<Last(includeStack).file, Last(includeStack).next>>)
  BY DEF expand_line, AtLine, Line, Top
<1>3. includeStack' = r /\ cfgDir' = cfgDir /\ includeStatus' = includeStatus
  BY AdvancedIs DEF expand_line
<1> HIDE DEF r
<1>4. ChainFits(cfgDir, r) /\ Concat(Len(r), Taken(cfgDir, r)) = expanded'
  <2>1. r = Append(Front(includeStack), Moved(Last(includeStack)))
    BY DEF r
  <2>2. ChainFits(cfgDir, r) /\ Concat(Len(r), Taken(cfgDir, r)) =
            Append(Concat(Len(includeStack), Taken(cfgDir, includeStack)), <<Last(includeStack).file, Last(includeStack).next>>)
    BY <1>1, <1>2, <2>1, ChainAdvances
  <2> QED BY <1>1, <1>2, <2>2 DEF SoFar
<1> QED BY <1>1, <1>3, <1>4 DEF IncludeInv, SoFar

(* An include that is refused fails the whole. *)
LEMMA RefusedFails ==
    ASSUME NEW dir \in CfgDirs, NEW st, ChainFits(dir, st),
           Last(st).next <= Len(dir[Last(st).file]),
           ~Part(dir, Last(st).file, Last(st).next, Below(dir, Len(st))).ok
    PROVE  ~AllOf(dir).ok
<1> DEFINE m == Len(st)
           f == st[m].file
           n == st[m].next
           d == (MaxIncludeDepth - m) + 1
<1>1. st \in Seq(IncludeEntry) /\ m \in 1..MaxIncludeDepth /\ MaxIncludeDepth \in Nat
  BY IncludeAssumption DEF ChainFits
<1>2. st # <<>>
  BY <1>1
<1>3. m \in Nat /\ m \in 1..m /\ Last(st) = st[m]
  BY <1>1, <1>2, FrontIs
<1>4. Len(dir[f]) \in Nat /\ f \in CfgFiles /\ n \in Nat /\ FrameFits(dir, st, m)
  BY <1>3, FinishedIs
<1>5. n \in 1..Len(dir[f])
  BY <1>3, <1>4 DEF FrameFits
<1>6. d \in 1..MaxIncludeDepth /\ Flat(dir)[d - 1] = Below(dir, m)
  BY <1>1, BelowIs DEF Below
<1>7. ~Part(dir, f, n, Flat(dir)[d - 1]).ok
  BY <1>3, <1>6
<1> HIDE DEF d, f, n, m
<1>8. ~Flat(dir)[d][f].ok
  BY <1>4, <1>5, <1>6, <1>7, FlatOk
<1> QED BY <1>8, ChainFails DEF d, f, m, AllOf

(* So does one that leads back into the chain. *)
LEMMA CycleFailsAll ==
    ASSUME NEW dir \in CfgDirs, NEW st, ChainFits(dir, st),
           Last(st).next <= Len(dir[Last(st).file]), NEW j \in 1..Len(st),
           Follows(dir[Last(st).file][Last(st).next], st[j].file)
    PROVE  ~AllOf(dir).ok
<1> DEFINE m == Len(st)
           f == st[m].file
           n == st[m].next
           d == (MaxIncludeDepth - m) + 1
           C == {st[i].file : i \in j..m}
<1>1. st \in Seq(IncludeEntry) /\ m \in 1..MaxIncludeDepth /\ MaxIncludeDepth \in Nat
  BY IncludeAssumption DEF ChainFits
<1>2. st # <<>>
  BY <1>1
<1>3. m \in Nat /\ m \in 1..m /\ Last(st) = st[m] /\ j \in j..m /\ m \in j..m /\ j \in Nat
  <2>1. m \in Nat /\ m \in 1..m /\ Last(st) = st[m]
    BY <1>1, <1>2, FrontIs
  <2> QED BY <2>1
<1>4. Len(dir[f]) \in Nat /\ f \in CfgFiles /\ n \in Nat /\ FrameFits(dir, st, m)
  BY <1>3, FinishedIs
<1>5. n \in 1..Len(dir[f])
  BY <1>3, <1>4 DEF FrameFits
<1>6. Includes(dir, st[m].file, st[j].file)
  BY <1>3, <1>5 DEF Includes
<1>7. \A i \in j..m : i \in 1..m /\ (i # m => i + 1 \in j..m)
  BY <1>3
<1>8. C \subseteq CfgFiles
  BY <1>7, FinishedIs
<1>9. ASSUME NEW i \in j..m PROVE \E g \in C : Includes(dir, st[i].file, g)
  <2>1. CASE i = m
    BY <1>3, <1>6, <2>1
  <2>2. CASE i # m
    <3>1. i \in 1..Len(st) /\ i # Len(st) /\ i + 1 \in j..m
      BY <1>7, <2>2
    <3>2. Includes(dir, st[i].file, st[i + 1].file)
      BY <3>1, ChainIncludes
    <3> QED BY <3>1, <3>2
  <2> QED BY <2>1, <2>2
<1>10. \A x \in C : \E g \in C : Includes(dir, x, g)
  BY <1>9
<1>11. f \in C
  BY <1>3
<1>12. d \in 0..MaxIncludeDepth
  BY <1>1
<1> HIDE DEF C, d, f, m
<1>13. ~Flat(dir)[d][f].ok
  BY <1>8, <1>10, <1>11, <1>12, CycleFails
<1> QED BY <1>13, ChainFails DEF d, f, m, AllOf

LEMMA ExpandIncludeKeeps == IncludeInv /\ expand_include => IncludeInv'
<1> SUFFICES ASSUME IncludeInv, expand_include PROVE IncludeInv'
  OBVIOUS
<1> DEFINE st == includeStack
           m == Len(st)
           f == Last(st).file
           n == Last(st).next
           line == cfgDir[f][n]
           e == [key |-> normalize_owned(line), file |-> line.file, next |-> 1]
           r == Append(Append(Front(st), Moved(Last(st))), e)
<1>1. /\ cfgDir \in CfgDirs /\ ChainFits(cfgDir, st) /\ expanded = SoFar(cfgDir, st) /\ includeStatus = "running"
  BY DEF IncludeInv, expand_include, AtLine
<1>2. n <= Len(cfgDir[f]) /\ line.k = "exec" /\ Line = line
  BY DEF expand_include, AtLine, Line, Top
<1>3. \/ IncludeError(line) # "none" /\ IncludeFails(IncludeError(line))
      \/ /\ IncludeError(line) = "none" /\ includeStack' = r
         /\ UNCHANGED <<cfgDir, expanded, includeStatus>>
  BY <1>2, AdvancedIs DEF expand_include
<1>4. st \in Seq(IncludeEntry) /\ m \in 1..MaxIncludeDepth /\ MaxIncludeDepth \in Nat
  BY <1>1, IncludeAssumption DEF ChainFits
<1>5. st # <<>>
  BY <1>4
<1>6. m \in Nat /\ m \in 1..m /\ Last(st) = st[m] /\ DOMAIN st = 1..m
  <2>1. m \in Nat /\ m \in 1..m /\ Last(st) = st[m]
    BY <1>4, <1>5, FrontIs
  <2> QED BY <1>4, <2>1
<1>7. f \in CfgFiles /\ n \in Nat /\ Len(cfgDir[f]) \in Nat /\ FrameFits(cfgDir, st, m)
  BY <1>1, <1>6, FinishedIs
<1>8. n \in 1..Len(cfgDir[f]) /\ Readable(cfgDir, f)
  BY <1>2, <1>6, <1>7 DEF FrameFits
<1>9. line \in CfgLine
  BY <1>1, <1>7, <1>8, FileIs
<1>10. line.file \in CfgFiles /\ line.spelled \in Spellings
  BY <1>2, <1>9, LineIs
<1> HIDE DEF line, f, n, r, e, m
<1>11. CASE IncludeError(line) # "none"
  <2>1. IncludeFails(IncludeError(line))
    BY <1>3, <1>11
  <2>2. cfgDir' = cfgDir /\ includeStack' = includeStack /\ expanded' = expanded /\ includeStatus' = IncludeError(line)
    BY <2>1 DEF IncludeFails
  <2>3. IncludeError(line) \notin {"none", "running", "ok"}
    BY <1>11 DEF IncludeError
  <2> HIDE DEF st
  <2>4. ~AllOf(cfgDir).ok
    <3>1. CASE line.spelled \in {"empty", "absolute", "up"}
      <4>1. ~Part(cfgDir, f, n, Below(cfgDir, m)).ok
        <5>1. Part(cfgDir, f, n, Below(cfgDir, m)) = Failed
          BY <1>2, <3>1 DEF Part, line
        <5> QED BY <5>1 DEF Failed
      <4> QED BY <1>1, <1>2, <4>1, RefusedFails DEF f, n, m
    <3>2. CASE line.spelled \notin {"empty", "absolute", "up"}
      <4>1. Follows(cfgDir[f][n], line.file)
        BY <1>2, <1>10, <3>2 DEF Follows, line, Spellings
      <4>2. Part(cfgDir, f, n, Below(cfgDir, m)) = Below(cfgDir, m)[line.file]
        BY <4>1 DEF Part, Follows
      <4>3. CASE m >= MaxIncludeDepth
        <5>1. MaxIncludeDepth - m = 0
          BY <1>4, <4>3 DEF m, st
        <5>2. ~Below(cfgDir, m)[line.file].ok
          BY <1>1, <1>10, <5>1, FlatNone DEF Below
        <5> QED BY <1>1, <1>2, <4>2, <5>2, RefusedFails DEF f, n, m
      <4>4. CASE InChain(normalize_owned(line))
        <5>1. PICK j \in 1..m : st[j].key = normalize_owned(line)
          BY <1>6, <4>4 DEF InChain, st
        <5>2. st[j].key.file = line.file
          BY <5>1 DEF normalize_owned
        <5>3. j \in 1..Len(st)
          BY DEF m
        <5>4. FrameFits(cfgDir, st, j)
          BY <1>1, <5>3, FinishedIs
        <5>5. st[j].file = line.file
          BY <5>2, <5>4 DEF FrameFits
        <5> QED BY <1>1, <1>2, <4>1, <5>3, <5>5, CycleFailsAll DEF f, n
      <4>5. CASE m < MaxIncludeDepth /\ (~Readable(cfgDir, line.file) \/ ~Parses(cfgDir, line.file))
        <5>1. MaxIncludeDepth - m \in 1..MaxIncludeDepth
          BY <1>4, <4>5 DEF m, st
        <5>2. ~Below(cfgDir, m)[line.file].ok
          BY <1>1, <1>10, <4>5, <5>1, FlatOk DEF Below
        <5> QED BY <1>1, <1>2, <4>2, <5>2, RefusedFails DEF f, n, m
      <4>6. \/ m >= MaxIncludeDepth \/ InChain(normalize_owned(line))
            \/ ~Readable(cfgDir, line.file) \/ ~Parses(cfgDir, line.file)
        BY <1>11, <3>2 DEF IncludeError, m, st
      <4>7. m >= MaxIncludeDepth \/ m < MaxIncludeDepth
        BY <1>4, <1>6
      <4> QED BY <4>3, <4>4, <4>5, <4>6, <4>7
    <3> QED BY <3>1, <3>2
  <2> QED BY <1>1, <2>2, <2>3, <2>4 DEF IncludeInv, st
<1>12. CASE IncludeError(line) = "none"
  <2>1. includeStack' = r /\ cfgDir' = cfgDir /\ expanded' = expanded /\ includeStatus' = includeStatus
    BY <1>3, <1>12
  <2>2. /\ line.spelled \notin {"empty", "absolute", "up"} /\ ~(m >= MaxIncludeDepth)
        /\ ~InChain(normalize_owned(line)) /\ Readable(cfgDir, line.file) /\ Parses(cfgDir, line.file)
    BY <1>12 DEF IncludeError, m
  <2>3. Follows(line, line.file)
    BY <1>2, <1>10, <2>2 DEF Follows, Spellings
  <2>4. \A i \in 1..m : st[i].key # normalize_owned(line)
    BY <1>6, <2>2 DEF InChain
  <2> HIDE DEF st
  <2>5. e \in IncludeEntry /\ e.file = line.file /\ e.next = 1 /\ e.key = normalize_owned(line) /\ e.key.file = line.file
    <3>1. normalize_owned(line) \in [file : CfgFiles, spelled : Spellings] /\ normalize_owned(line).file = line.file
      BY <1>10 DEF normalize_owned, Spellings
    <3> QED BY <1>10, <3>1 DEF e, IncludeEntry
  <2>6. m < MaxIncludeDepth
    BY <1>4, <1>6, <2>2
  <2>7. ChainFits(cfgDir, r) /\ Concat(Len(r), Taken(cfgDir, r)) = Concat(Len(st), Taken(cfgDir, st))
    <3>1. r = Append(Append(Front(st), Moved(Last(st))), e)
      BY DEF r
    <3>2. Last(st).next <= Len(cfgDir[Last(st).file]) /\ Follows(cfgDir[Last(st).file][Last(st).next], e.file)
      BY <1>2, <2>3, <2>5 DEF f, n, line
    <3>3. Len(st) < MaxIncludeDepth /\ \A i \in 1..Len(st) : st[i].key # e.key
      BY <2>4, <2>5, <2>6 DEF m
    <3>4. Readable(cfgDir, e.file) /\ Parses(cfgDir, e.file) /\ e.next = 1 /\ e.key.file = e.file /\ e \in IncludeEntry
      BY <2>2, <2>5
    <3> HIDE DEF e
    <3>5. Enters(cfgDir, st, e)
      BY <3>2, <3>3, <3>4 DEF Enters
    <3> QED BY <1>1, <3>1, <3>4, <3>5, ChainGrows
  <2> QED BY <1>1, <2>1, <2>7 DEF IncludeInv, SoFar, st
<1> QED BY <1>11, <1>12

LEMMA IncludeReturnsKeeps == IncludeInv /\ include_returns => IncludeInv'
<1> SUFFICES ASSUME IncludeInv, include_returns PROVE IncludeInv'
  OBVIOUS
<1> DEFINE st == includeStack
           m == Len(st)
           r == Front(st)
<1>1. /\ cfgDir \in CfgDirs /\ ChainFits(cfgDir, st) /\ expanded = SoFar(cfgDir, st) /\ includeStatus = "running"
  BY DEF IncludeInv, include_returns
<1>2. ~(Last(st).next <= Len(cfgDir[Last(st).file]))
  BY DEF include_returns, AtLine, Top
<1>3. /\ includeStack' = r /\ cfgDir' = cfgDir /\ expanded' = expanded
      /\ includeStatus' = IF m = 1 THEN "ok" ELSE "running"
  BY DEF include_returns
<1>4. st \in Seq(IncludeEntry) /\ m \in 1..MaxIncludeDepth /\ MaxIncludeDepth \in Nat /\ st[1].file = RootCfg
  BY <1>1, IncludeAssumption DEF ChainFits
<1>5. st # <<>>
  BY <1>4
<1>6. r \in Seq(IncludeEntry) /\ Len(r) = m - 1
  BY <1>4, <1>5, FrontIs
<1> HIDE DEF st
<1>7. CASE m = 1
  <2>1. r = <<>>
    BY <1>6, <1>7
  <2> DEFINE g == Taken(cfgDir, st)
             flat == Flat(cfgDir)[(MaxIncludeDepth - m) + 1][st[m].file]
  <2>2. flat.ok /\ flat.lines = g[m]
    BY <1>1, <1>2, ChainTopDone
  <2>3. flat = AllOf(cfgDir)
    <3>1. (MaxIncludeDepth - 1) + 1 = MaxIncludeDepth
      BY <1>4
    <3> QED BY <1>4, <1>7, <3>1 DEF AllOf
  <2>4. \A k \in 1..m : g[k] \in Seq(Marks)
    BY <1>1, TakenIs
  <2> HIDE DEF g, flat
  <2>5. Concat(m, g) = g[m]
    <3>1. Concat(m, g) = Concat(m - 1, g) \o g[m]
      <4> HIDE DEF m
      <4>1. m \in Nat /\ m >= 1
        BY <1>7
      <4> QED BY <2>4, <4>1, ConcatLast
    <3>2. Concat(m - 1, g) = <<>>
      <4>1. m - 1 = 0
        BY <1>7
      <4>2. Concat(0, g) = <<>>
        BY ConcatNone
      <4> QED BY <4>1, <4>2
    <3>3. g[m] \in Seq(Marks)
      BY <1>7, <2>4
    <3>4. <<>> \o g[m] = g[m]
      BY <3>3, JoinEmpty
    <3> QED BY <3>1, <3>2, <3>4
  <2>6. expanded = AllOf(cfgDir).lines /\ AllOf(cfgDir).ok
    BY <1>1, <2>2, <2>3, <2>5 DEF SoFar, g
  <2> QED BY <1>1, <1>3, <1>7, <2>1, <2>6 DEF IncludeInv
<1>8. CASE m # 1
  <2>1. ChainFits(cfgDir, r) /\ Concat(Len(r), Taken(cfgDir, r)) = Concat(Len(st), Taken(cfgDir, st))
    <3> HIDE DEF r
    <3>1. r = Front(st)
      BY DEF r
    <3> QED BY <1>1, <1>2, <1>8, <3>1, ChainShrinks
  <2> QED BY <1>1, <1>3, <1>8, <2>1 DEF IncludeInv, SoFar
<1> QED BY <1>7, <1>8

LEMMA IncludeStep == IncludeInv /\ [IncludeNext]_includeVars => IncludeInv'
<1> SUFFICES ASSUME IncludeInv, [IncludeNext]_includeVars PROVE IncludeInv'
  OBVIOUS
<1>1. CASE UNCHANGED includeVars
  BY <1>1 DEF includeVars, IncludeInv
<1> QED BY <1>1, WriteCfgKeeps, ResolveRootKeeps, ExpandLineKeeps, ExpandIncludeKeeps, IncludeReturnsKeeps DEF IncludeNext

LEMMA IncludesAlwaysExact == IncludeInit /\ [][IncludeNext]_includeVars => []IncludesExact
<1>1. IncludeInit /\ [][IncludeNext]_includeVars => []IncludeInv
  BY IncludeInvInit, IncludeStep, PTL
<1> QED BY <1>1, IncludeInvImplies, PTL

-----------------------------------------------------------------------------
(* What the lines of server.cfg set. *)

(* Each member of a sequence once. *)
LEMMA DeduplicatedIs ==
    ASSUME NEW T, NEW s \in Seq(T)
    PROVE  /\ Deduplicated(s) \in Seq(T)
           /\ IsInjective(Deduplicated(s))
           /\ ToSet(Deduplicated(s)) = ToSet(s)
<1> DEFINE K == {i \in DOMAIN s : \A j \in 1..(i - 1) : s[j] # s[i]}
           r == Deduplicated(s)
           n == Len(s)
           k == Len(r)
<1>1. r = Selected(s, K)
  BY DEF Deduplicated
<1>2. n \in Nat /\ DOMAIN s = 1..n
  OBVIOUS
<1>3. \A i \in 1..n : i \in K <=> \A j \in 1..(i - 1) : s[j] # s[i]
  BY <1>2
<1>4. r \in Seq(T) /\ \E pos : Selection(pos, r, s, K)
  <2> HIDE DEF K
  <2> QED BY <1>1, SelectionIs
<1>5. PICK pos : Selection(pos, r, s, K)
  BY <1>4
<1> HIDE DEF r, K
<1>6. k \in Nat /\ DOMAIN r = 1..k
  BY <1>4
<1>7. /\ pos \in [1..k -> 1..n]
      /\ \A a, b \in 1..k : pos[a] = pos[b] => a = b
      /\ \A a \in 1..k : pos[a] \in K /\ r[a] = s[pos[a]]
      /\ \A i \in 1..n : i \in K => \E a \in 1..k : pos[a] = i
  BY <1>5 DEF Selection
<1> HIDE DEF n, k
<1>8. \A i, j \in 1..n : i \in K /\ j \in K /\ s[i] = s[j] => i = j
  <2> SUFFICES ASSUME NEW i \in 1..n, NEW j \in 1..n, i \in K, j \in K, s[i] = s[j], i # j PROVE FALSE
    OBVIOUS
  <2>1. i \in 1..(j - 1) \/ j \in 1..(i - 1)
    BY <1>2
  <2> QED BY <1>3, <2>1
<1>9. \A a, b \in 1..k : r[a] = r[b] => a = b
  <2> SUFFICES ASSUME NEW a \in 1..k, NEW b \in 1..k, r[a] = r[b] PROVE a = b
    OBVIOUS
  <2>1. pos[a] \in 1..n /\ pos[b] \in 1..n /\ pos[a] \in K /\ pos[b] \in K /\ s[pos[a]] = s[pos[b]]
    BY <1>7
  <2>2. pos[a] = pos[b]
    BY <1>8, <2>1
  <2> QED BY <1>7, <2>2
<1>10. ASSUME NEW i \in 1..n PROVE \E a \in 1..k : r[a] = s[i]
  <2> DEFINE G == {j \in 1..n : s[j] = s[i]}
  <2>1. G \subseteq Nat /\ i \in G
    BY <1>2
  <2>2. PICK j \in G : \A l \in G : j <= l
    BY <2>1, SmallestOf
  <2>3. j \in 1..n /\ s[j] = s[i]
    BY <2>2
  <2>4. \A l \in 1..(j - 1) : s[l] # s[j]
    <3> SUFFICES ASSUME NEW l \in 1..(j - 1), s[l] = s[j] PROVE FALSE
      OBVIOUS
    <3>1. l \in 1..n /\ ~(j <= l)
      BY <1>2, <2>3
    <3>2. l \in G
      BY <2>3, <3>1
    <3> QED BY <2>2, <3>1, <3>2
  <2>5. j \in K
    BY <1>3, <2>3, <2>4
  <2>6. PICK a \in 1..k : pos[a] = j
    BY <1>7, <2>3, <2>5
  <2>7. r[a] = s[i]
    BY <1>7, <2>3, <2>6
  <2> QED BY <2>7
<1>11. IsInjective(r)
  BY <1>6, <1>9 DEF IsInjective
<1>12. ToSet(r) = ToSet(s)
  <2>1. \A x \in ToSet(r) : x \in ToSet(s)
    BY <1>2, <1>6, <1>7 DEF ToSet
  <2>2. \A x \in ToSet(s) : x \in ToSet(r)
    BY <1>2, <1>6, <1>10 DEF ToSet
  <2> QED BY <2>1, <2>2
<1> QED BY <1>4, <1>11, <1>12 DEF r

-----------------------------------------------------------------------------
(* The lines of server.cfg. *)

SetVerbs == {"set", "setr", "sets", "bare"}
EndpointVerbs == {"endpoint_add_tcp", "endpoint_add_udp"}
ResourceVerbs == {"ensure", "start", "stop", "restart"}
SecretKeys == {"motd", "db_password"}
Verbs == SetVerbs \cup EndpointVerbs \cup ResourceVerbs
         \cup {"set_secret", "add_ace", "remove_ace", "add_principal", "remove_principal"}
CfgKeys == ConvarNames \cup CfgResources \cup {"ace", "principal", "endpoint"}
Vals == {"0", "16", "2000", "many", "addr1", "addr2", "addr3", "", "word",
         "env", "vault", "bare", "allow", "deny"}
Directive == [verb : Verbs, key : CfgKeys, val : Vals]

About(lines, key, i) == lines[i].key = key /\ lines[i].verb \in SetVerbs

(* Line i is the last one about the key, 0 if there is none. *)
IsLast(lines, key, i) ==
    /\ i \in 0..Len(lines)
    /\ i # 0 => About(lines, key, i)
    /\ \A j \in 1..Len(lines) : About(lines, key, j) => j <= i

LEMMA LargestIs ==
    ASSUME NEW n \in Nat, NEW S, S \subseteq 1..n, S # {}
    PROVE  Max(S) \in S /\ \A y \in S : y <= Max(S)
<1> DEFINE G == {n - y : y \in S}
<1>1. G \subseteq Nat /\ G # {}
  <2>1. \A y \in S : y \in 1..n
    OBVIOUS
  <2>2. \A y \in 1..n : n - y \in Nat
    OBVIOUS
  <2>3. \A y \in S : n - y \in Nat
    BY <2>1, <2>2
  <2> QED BY <2>3
<1>2. PICK g \in G : \A y \in G : g <= y
  BY <1>1, SmallestOf
<1>3. PICK x \in S : g = n - x
  BY <1>2
<1>4. \A y \in S : x >= y
  <2> SUFFICES ASSUME NEW y \in S PROVE x >= y
    OBVIOUS
  <2>1. n - y \in G /\ x \in Nat /\ y \in Nat
    OBVIOUS
  <2>2. n - x <= n - y
    BY <1>2, <1>3, <2>1
  <2> QED BY <2>1, <2>2
<1>5. Max(S) \in S /\ \A y \in S : Max(S) >= y
  BY <1>4 DEF Max
<1>6. \A y \in S : y \in Nat
  OBVIOUS
<1> QED BY <1>5, <1>6

LEMMA SmallestIs ==
    ASSUME NEW n \in Nat, NEW S, S \subseteq 1..n, S # {}
    PROVE  Min(S) \in S /\ \A y \in S : Min(S) <= y
<1>1. S \subseteq Nat
  OBVIOUS
<1>2. PICK x \in S : \A y \in S : x <= y
  BY <1>1, SmallestOf
<1> QED BY <1>2 DEF Min

LEMMA LastAboutIs ==
    ASSUME NEW lines \in Seq(Directive), NEW key
    PROVE  IsLast(lines, key, LastAbout(lines, key))
<1> DEFINE S == {i \in DOMAIN lines : lines[i].key = key /\ lines[i].verb \in {"set", "setr", "sets", "bare"}}
<1>1. LastAbout(lines, key) = IF S = {} THEN 0 ELSE Max(S)
  BY DEF LastAbout
<1>2. Len(lines) \in Nat /\ DOMAIN lines = 1..Len(lines)
  OBVIOUS
<1>3. \A j \in 1..Len(lines) : j \in S <=> About(lines, key, j)
  BY <1>2 DEF About, SetVerbs
<1>4. S \subseteq 1..Len(lines)
  BY <1>2
<1> HIDE DEF S
<1>5. CASE S = {}
  BY <1>1, <1>2, <1>3, <1>5 DEF IsLast
<1>6. CASE S # {}
  <2>1. Max(S) \in S /\ \A y \in S : y <= Max(S)
    BY <1>2, <1>4, <1>6, LargestIs
  <2>2. Max(S) \in 0..Len(lines) /\ Max(S) \in 1..Len(lines)
    <3>1. Max(S) \in 1..Len(lines)
      BY <1>4, <2>1
    <3>2. \A i \in 1..Len(lines) : i \in 0..Len(lines)
      BY <1>2
    <3> QED BY <3>1, <3>2
  <2> QED BY <1>1, <1>3, <1>6, <2>1, <2>2 DEF IsLast
<1> QED BY <1>5, <1>6

(* One more line. *)
LEMMA LastAboutNext ==
    ASSUME NEW lines \in Seq(Directive), NEW d \in Directive, NEW key
    PROVE  /\ LastAbout(Append(lines, d), key) =
                IF d.key = key /\ d.verb \in SetVerbs THEN Len(lines) + 1 ELSE LastAbout(lines, key)
           /\ LastAbout(lines, key) \in 0..Len(lines)
           /\ LastAbout(lines, key) # 0 => Append(lines, d)[LastAbout(lines, key)] = lines[LastAbout(lines, key)]
           /\ Append(lines, d)[Len(lines) + 1] = d
<1> DEFINE q == Append(lines, d)
           n == Len(lines)
           i == LastAbout(lines, key)
           j == LastAbout(q, key)
<1>1. n \in Nat /\ q \in Seq(Directive) /\ Len(q) = n + 1 /\ q[n + 1] = d /\ \A l \in 1..n : q[l] = lines[l]
  OBVIOUS
<1>2. IsLast(lines, key, i)
  BY LastAboutIs
<1>3. IsLast(q, key, j)
  BY <1>1, LastAboutIs
<1> HIDE DEF q, i, j
<1>4. /\ i \in 0..n /\ (i # 0 => About(lines, key, i))
      /\ \A l \in 1..n : About(lines, key, l) => l <= i
  BY <1>2 DEF IsLast
<1>5. /\ j \in 0..(n + 1) /\ (j # 0 => About(q, key, j))
      /\ \A l \in 1..(n + 1) : About(q, key, l) => l <= j
  BY <1>1, <1>3 DEF IsLast
<1>6. \A l \in 1..n : About(q, key, l) <=> About(lines, key, l)
  BY <1>1 DEF About
<1>7. About(q, key, n + 1) <=> d.key = key /\ d.verb \in SetVerbs
  BY <1>1 DEF About
<1> HIDE DEF n
<1>8. i # 0 => i \in 1..n /\ q[i] = lines[i]
  BY <1>1, <1>4
<1>9. CASE d.key = key /\ d.verb \in SetVerbs
  <2>1. n + 1 \in 1..(n + 1)
    BY <1>1
  <2>2. n + 1 <= j
    BY <1>5, <1>7, <1>9, <2>1
  <2>3. j = n + 1
    BY <1>1, <1>5, <2>2
  <2> QED BY <1>1, <1>4, <1>8, <1>9, <2>3 DEF q, n, i, j
<1>10. CASE ~(d.key = key /\ d.verb \in SetVerbs)
  <2>1. j # n + 1
    BY <1>1, <1>5, <1>7, <1>10
  <2>2. j \in 0..n
    BY <1>1, <1>5, <2>1
  <2>3. j # 0 => j <= i
    BY <1>1, <1>4, <1>5, <1>6, <2>2
  <2>4. i # 0 => i <= j
    <3> SUFFICES ASSUME i # 0 PROVE i <= j
      OBVIOUS
    <3>1. i \in 1..(n + 1) /\ About(q, key, i)
      BY <1>1, <1>4, <1>6, <1>8
    <3> QED BY <1>5, <3>1
  <2>5. j = i
    BY <1>1, <1>4, <2>2, <2>3, <2>4
  <2> QED BY <1>1, <1>4, <1>8, <1>10, <2>5 DEF q, n, i, j
<1> QED BY <1>9, <1>10

(* The first endpoint line, in the same way. *)
LEMMA FirstEndpointNext ==
    ASSUME NEW lines \in Seq(Directive), NEW d \in Directive
    PROVE  /\ FirstEndpoint(Append(lines, d)) =
                IF FirstEndpoint(lines) = 0 /\ d.verb \in EndpointVerbs THEN Len(lines) + 1 ELSE FirstEndpoint(lines)
           /\ FirstEndpoint(lines) # 0 => Append(lines, d)[FirstEndpoint(lines)] = lines[FirstEndpoint(lines)]
           /\ FirstEndpoint(lines) \in 0..Len(lines)
<1> DEFINE q == Append(lines, d)
           n == Len(lines)
           S == {i \in DOMAIN lines : lines[i].verb \in {"endpoint_add_tcp", "endpoint_add_udp"}}
           R == {i \in DOMAIN q : q[i].verb \in {"endpoint_add_tcp", "endpoint_add_udp"}}
<1>1. /\ n \in Nat /\ q \in Seq(Directive) /\ Len(q) = n + 1 /\ q[n + 1] = d /\ (\A l \in 1..n : q[l] = lines[l])
      /\ DOMAIN lines = 1..n /\ DOMAIN q = 1..(n + 1)
  OBVIOUS
<1>2. FirstEndpoint(lines) = IF S = {} THEN 0 ELSE Min(S)
  BY DEF FirstEndpoint
<1>3. FirstEndpoint(q) = IF R = {} THEN 0 ELSE Min(R)
  BY DEF FirstEndpoint
<1> HIDE DEF q
<1>4. S \subseteq 1..n /\ R \subseteq 1..(n + 1)
  BY <1>1
<1>5. \A l \in 1..n : l \in R <=> l \in S
  BY <1>1
<1>6. n + 1 \in R <=> d.verb \in EndpointVerbs
  BY <1>1 DEF EndpointVerbs
<1> HIDE DEF S, R, n
<1>7. S # {} => Min(S) \in S /\ \A y \in S : Min(S) <= y
  BY <1>1, <1>4, SmallestIs
<1>8. R # {} => Min(R) \in R /\ \A y \in R : Min(R) <= y
  <2>1. n + 1 \in Nat
    BY <1>1
  <2> QED BY <1>4, <2>1, SmallestIs
<1>9. CASE S # {}
  <2>1. Min(S) \in 1..n /\ Min(S) \in R
    BY <1>4, <1>5, <1>7, <1>9
  <2>2. Min(R) \in R /\ Min(R) <= Min(S) /\ Min(R) \in 1..(n + 1)
    BY <1>4, <1>8, <2>1
  <2>3. Min(R) \in 1..n
    BY <1>1, <2>1, <2>2
  <2>4. Min(R) \in S
    BY <1>5, <2>2, <2>3
  <2>5. Min(S) <= Min(R)
    BY <1>7, <2>4
  <2>6. Min(R) = Min(S)
    BY <1>1, <2>1, <2>2, <2>3, <2>5
  <2>7. R # {} /\ Min(S) # 0 /\ Min(S) \in 0..n
    BY <1>1, <2>1
  <2> QED BY <1>1, <1>2, <1>3, <1>9, <2>1, <2>6, <2>7 DEF q, n
<1>10. CASE S = {}
  <2>1. \A l \in R : l = n + 1
    BY <1>1, <1>4, <1>5, <1>10
  <2>2. CASE d.verb \in EndpointVerbs
    <3>1. R # {} /\ Min(R) = n + 1
      BY <1>6, <1>8, <2>1, <2>2
    <3> QED BY <1>1, <1>2, <1>3, <1>10, <2>2, <3>1 DEF q, n
  <2>3. CASE d.verb \notin EndpointVerbs
    <3>1. R = {}
      BY <1>6, <2>1, <2>3
    <3> QED BY <1>1, <1>2, <1>3, <1>10, <2>3, <3>1 DEF q, n
  <2> QED BY <2>2, <2>3
<1> QED BY <1>9, <1>10

ScopeNames == {"Local", "Replicated", "Public"}
ConvarWords == Vals \cup ConvarNames
ConvarMaps == UNION {[D -> [scope : ScopeNames, val : ConvarWords]] : D \in SUBSET ConvarNames}
SecretMaps == UNION {[D -> {"env", "vault"}] : D \in SUBSET SecretKeys}
Started == [verb : ResourceVerbs, key : CfgResources, val : {""}]
Norms == [max : Int, endpoint : {"unset", "addr1", ""}, endpoints : Seq({"addr2", "addr3"}), convars : ConvarMaps,
          secrets : SecretMaps, resources : Seq(Started), aces : Seq(BOOLEAN), principals : Seq(BOOLEAN)]

(* What line i says; none is line 0. *)
Limit(lines, i) == IF i = 0 THEN -1 ELSE parse_u32(lines[i].val)
Address(lines, i) == IF i = 0 THEN "unset" ELSE lines[i].val

MaxFits(n, lines) ==
    LET i == LastAbout(lines, "sv_maxclients") IN
    n.max = Limit(lines, i) /\ (i # 0 => n.max # -1)
AddressFits(n, lines) ==
    LET i == LastAbout(lines, "sv_endpoint") IN
    n.endpoint = Address(lines, i) /\ (i # 0 => n.endpoint # "unset")
EndpointsFit(n, lines) ==
    LET i == FirstEndpoint(lines) IN
    IF i = 0 THEN n.endpoints = <<>> ELSE n.endpoints # <<>> /\ n.endpoints[1] = lines[i].val
ResourcesFit(n, lines) == ToSet(n.resources) = {d \in ToSet(lines) : d.verb \in ResourceVerbs}
ConvarsFit(n, lines) ==
    \A k \in SecretKeys :
        LET i == LastAbout(lines, k) IN
        i # 0 => k \in DOMAIN n.convars /\ (n.convars[k].scope = "Local" => lines[i].verb \in {"set", "bare"})
SecretsFit(n, lines) ==
    \A i \in 1..Len(lines) : lines[i].verb = "set_secret" => lines[i].key \in SecretKeys /\ lines[i].key \in DOMAIN n.secrets

TextFits(n, lines) ==
    /\ n \in Norms /\ lines \in Seq(Directive)
    /\ MaxFits(n, lines) /\ AddressFits(n, lines) /\ EndpointsFit(n, lines)
    /\ ResourcesFit(n, lines) /\ ConvarsFit(n, lines) /\ SecretsFit(n, lines)

(* The server's configuration is the text's. *)
LoadedFits(s, lines) ==
    /\ LET i == LastAbout(lines, "sv_maxclients") IN
       s.max_players = IF i = 0 THEN 64 ELSE parse_u32(lines[i].val)
    /\ LET i == LastAbout(lines, "sv_endpoint")
           first == FirstEndpoint(lines)
       IN  s.bind = IF i # 0 THEN lines[i].val ELSE IF first # 0 THEN lines[first].val ELSE "default"
    /\ IsInjective(s.enabled)
    /\ ToSet(s.enabled) = {r \in CfgResources : \E i \in DOMAIN lines :
           lines[i].key = r /\ lines[i].verb \in {"ensure", "start"}}

NormInv ==
    /\ TextFits(norm, cfgLines)
    /\ cfgStatus \in {"accepted", "loaded"} => cfg_validate(norm, cfgEnv)
    /\ cfgStatus = "loaded" => LoadedFits(server, cfgLines)
    /\ secretRead # "empty"

(* What a directive d does to n. *)
LineEffect(n, d, p) ==
    /\ p \in Norms /\ d \in Directive
    /\ IF d.key = "sv_maxclients" /\ d.verb \in SetVerbs THEN p.max = parse_u32(d.val) /\ p.max # -1 ELSE p.max = n.max
    /\ IF d.key = "sv_endpoint" /\ d.verb \in SetVerbs THEN p.endpoint = d.val /\ d.val # "unset" ELSE p.endpoint = n.endpoint
    /\ IF d.verb \in EndpointVerbs THEN d.val \in {"addr2", "addr3"} /\ p.endpoints = Append(n.endpoints, d.val) ELSE p.endpoints = n.endpoints
    /\ IF d.verb \in ResourceVerbs THEN d \in Started /\ p.resources = Append(n.resources, d) ELSE p.resources = n.resources
    /\ \A k \in SecretKeys :
           IF d.key = k /\ d.verb \in SetVerbs
           THEN k \in DOMAIN p.convars /\ (p.convars[k].scope = "Local" => d.verb \in {"set", "bare"})
           ELSE k \in DOMAIN n.convars => k \in DOMAIN p.convars /\ p.convars[k] = n.convars[k]
    /\ DOMAIN n.secrets \subseteq DOMAIN p.secrets
    /\ d.verb = "set_secret" => d.key \in SecretKeys /\ d.key \in DOMAIN p.secrets

LEMMA NormsAre ==
    ASSUME NEW n \in Norms
    PROVE  /\ n.max \in Int /\ n.endpoint \in {"unset", "addr1", ""} /\ n.endpoints \in Seq({"addr2", "addr3"})
           /\ n.convars \in ConvarMaps /\ n.secrets \in SecretMaps /\ n.resources \in Seq(Started)
           /\ n.aces \in Seq(BOOLEAN) /\ n.principals \in Seq(BOOLEAN)
<1>1. n \in [max : Int, endpoint : {"unset", "addr1", ""}, endpoints : Seq({"addr2", "addr3"}), convars : ConvarMaps,
             secrets : SecretMaps, resources : Seq(Started), aces : Seq(BOOLEAN), principals : Seq(BOOLEAN)]
  BY DEF Norms
<1> QED BY <1>1

LEMMA TextGrows ==
    ASSUME NEW n, NEW lines, TextFits(n, lines), NEW d, NEW p, LineEffect(n, d, p)
    PROVE  TextFits(p, Append(lines, d))
<1> DEFINE q == Append(lines, d)
           m == Len(lines)
<1>1. n \in Norms /\ lines \in Seq(Directive) /\ p \in Norms /\ d \in Directive
  BY DEF TextFits, LineEffect
<1>2. m \in Nat /\ q \in Seq(Directive) /\ Len(q) = m + 1 /\ q[m + 1] = d /\ m + 1 # 0 /\ \A i \in 1..m : q[i] = lines[i]
  BY <1>1
<1>3. ASSUME NEW k
      PROVE  /\ LastAbout(q, k) = IF d.key = k /\ d.verb \in SetVerbs THEN m + 1 ELSE LastAbout(lines, k)
             /\ LastAbout(lines, k) # 0 => q[LastAbout(lines, k)] = lines[LastAbout(lines, k)]
  BY <1>1, LastAboutNext
<1> HIDE DEF q, m
<1>4. MaxFits(p, q)
  <2> DEFINE i == LastAbout(lines, "sv_maxclients")
             j == LastAbout(q, "sv_maxclients")
  <2>1. n.max = Limit(lines, i) /\ (i # 0 => n.max # -1)
    BY DEF TextFits, MaxFits
  <2>2. /\ j = IF d.key = "sv_maxclients" /\ d.verb \in SetVerbs THEN m + 1 ELSE i
        /\ i # 0 => q[i] = lines[i]
    BY <1>3
  <2>3. IF d.key = "sv_maxclients" /\ d.verb \in SetVerbs THEN p.max = parse_u32(d.val) /\ p.max # -1 ELSE p.max = n.max
    BY DEF LineEffect
  <2> HIDE DEF i, j
  <2>4. p.max = Limit(q, j) /\ (j # 0 => p.max # -1)
    BY <1>2, <2>1, <2>2, <2>3 DEF Limit
  <2> QED BY <2>4 DEF MaxFits, j
<1>5. AddressFits(p, q)
  <2> DEFINE i == LastAbout(lines, "sv_endpoint")
             j == LastAbout(q, "sv_endpoint")
  <2>1. n.endpoint = Address(lines, i) /\ (i # 0 => n.endpoint # "unset")
    BY DEF TextFits, AddressFits
  <2>2. /\ j = IF d.key = "sv_endpoint" /\ d.verb \in SetVerbs THEN m + 1 ELSE i
        /\ i # 0 => q[i] = lines[i]
    BY <1>3
  <2>3. IF d.key = "sv_endpoint" /\ d.verb \in SetVerbs THEN p.endpoint = d.val /\ d.val # "unset" ELSE p.endpoint = n.endpoint
    BY DEF LineEffect
  <2> HIDE DEF i, j
  <2>4. p.endpoint = Address(q, j) /\ (j # 0 => p.endpoint # "unset")
    BY <1>2, <2>1, <2>2, <2>3 DEF Address
  <2> QED BY <2>4 DEF AddressFits, j
<1>6. EndpointsFit(p, q)
  <2> DEFINE i == FirstEndpoint(lines)
             j == FirstEndpoint(q)
             A == {"addr2", "addr3"}
  <2>1. IF i = 0 THEN n.endpoints = <<>> ELSE n.endpoints # <<>> /\ n.endpoints[1] = lines[i].val
    BY DEF TextFits, EndpointsFit
  <2>2. /\ j = IF i = 0 /\ d.verb \in EndpointVerbs THEN m + 1 ELSE i
        /\ i # 0 => q[i] = lines[i]
    BY <1>1, FirstEndpointNext DEF q, m
  <2>3. IF d.verb \in EndpointVerbs THEN d.val \in A /\ p.endpoints = Append(n.endpoints, d.val) ELSE p.endpoints = n.endpoints
    BY DEF LineEffect
  <2>4. n.endpoints \in Seq(A)
    BY <1>1, NormsAre
  <2>5. \A s \in Seq(A), x \in A : Append(s, x) # <<>> /\ (s = <<>> => Append(s, x)[1] = x) /\ (s # <<>> => Append(s, x)[1] = s[1])
    <3> HIDE DEF A
    <3> SUFFICES ASSUME NEW s \in Seq(A), NEW x \in A
                 PROVE  Append(s, x) # <<>> /\ (s = <<>> => Append(s, x)[1] = x) /\ (s # <<>> => Append(s, x)[1] = s[1])
      OBVIOUS
    <3>1. Len(s) \in Nat /\ Len(Append(s, x)) = Len(s) + 1 /\ Append(s, x)[Len(s) + 1] = x
          /\ (\A l \in 1..Len(s) : Append(s, x)[l] = s[l]) /\ (s = <<>> => Len(s) = 0) /\ (s # <<>> => Len(s) >= 1)
      OBVIOUS
    <3>2. Append(s, x) # <<>>
      <4>1. Len(<<>>) = 0
        OBVIOUS
      <4>2. Len(Append(s, x)) # 0
        BY <3>1
      <4> QED BY <4>1, <4>2, Zenon
    <3> QED BY <3>1, <3>2
  <2> HIDE DEF i, j, A
  <2>6. IF j = 0 THEN p.endpoints = <<>> ELSE p.endpoints # <<>> /\ p.endpoints[1] = q[j].val
    <3>1. CASE d.verb \notin EndpointVerbs
      BY <2>1, <2>2, <2>3, <3>1
    <3>2. CASE d.verb \in EndpointVerbs
      <4>1. d.val \in A /\ p.endpoints = Append(n.endpoints, d.val)
        BY <2>3, <3>2
      <4>2. /\ p.endpoints # <<>>
            /\ n.endpoints = <<>> => p.endpoints[1] = d.val
            /\ n.endpoints # <<>> => p.endpoints[1] = n.endpoints[1]
        BY <2>4, <2>5, <4>1
      <4> QED BY <1>2, <2>1, <2>2, <3>2, <4>2
    <3> QED BY <3>1, <3>2
  <2> QED BY <2>6 DEF EndpointsFit, j
<1>7. ResourcesFit(p, q)
  <2>1. ToSet(n.resources) = {x \in ToSet(lines) : x.verb \in ResourceVerbs}
    BY DEF TextFits, ResourcesFit
  <2>2. ToSet(q) = ToSet(lines) \cup {d}
    BY <1>1, ToSetAppend DEF q
  <2>3. CASE d.verb \in ResourceVerbs
    <3>1. d \in Started /\ p.resources = Append(n.resources, d) /\ n.resources \in Seq(Started)
      BY <1>1, <2>3, NormsAre DEF LineEffect
    <3>2. ToSet(p.resources) = ToSet(n.resources) \cup {d}
      BY <3>1, ToSetAppend
    <3> QED BY <2>1, <2>2, <2>3, <3>2 DEF ResourcesFit
  <2>4. CASE d.verb \notin ResourceVerbs
    <3>1. p.resources = n.resources
      BY <2>4 DEF LineEffect
    <3> QED BY <2>1, <2>2, <2>4, <3>1 DEF ResourcesFit
  <2> QED BY <2>3, <2>4
<1>8. ConvarsFit(p, q)
  <2> SUFFICES ASSUME NEW k \in SecretKeys, LastAbout(q, k) # 0
               PROVE  k \in DOMAIN p.convars /\ (p.convars[k].scope = "Local" => q[LastAbout(q, k)].verb \in {"set", "bare"})
    BY DEF ConvarsFit
  <2> DEFINE i == LastAbout(lines, k)
             j == LastAbout(q, k)
  <2>1. i # 0 => k \in DOMAIN n.convars /\ (n.convars[k].scope = "Local" => lines[i].verb \in {"set", "bare"})
    BY DEF TextFits, ConvarsFit
  <2>2. /\ j = IF d.key = k /\ d.verb \in SetVerbs THEN m + 1 ELSE i
        /\ i # 0 => q[i] = lines[i]
    BY <1>3
  <2>3. IF d.key = k /\ d.verb \in SetVerbs
        THEN k \in DOMAIN p.convars /\ (p.convars[k].scope = "Local" => d.verb \in {"set", "bare"})
        ELSE k \in DOMAIN n.convars => k \in DOMAIN p.convars /\ p.convars[k] = n.convars[k]
    BY DEF LineEffect
  <2>4. j # 0
    OBVIOUS
  <2> HIDE DEF i, j
  <2>5. k \in DOMAIN p.convars /\ (p.convars[k].scope = "Local" => q[j].verb \in {"set", "bare"})
    BY <1>2, <2>1, <2>2, <2>3, <2>4
  <2> QED BY <2>5 DEF j
<1>9. SecretsFit(p, q)
  <2>1. \A i \in 1..m : lines[i].verb = "set_secret" => lines[i].key \in SecretKeys /\ lines[i].key \in DOMAIN n.secrets
    BY DEF TextFits, SecretsFit, m
  <2>2. DOMAIN n.secrets \subseteq DOMAIN p.secrets /\ (d.verb = "set_secret" => d.key \in SecretKeys /\ d.key \in DOMAIN p.secrets)
    BY DEF LineEffect
  <2>3. \A i \in 1..(m + 1) : i = m + 1 \/ i \in 1..m
    BY <1>2
  <2> QED BY <1>2, <2>1, <2>2, <2>3 DEF SecretsFit
<1> QED BY <1>1, <1>2, <1>4, <1>5, <1>6, <1>7, <1>8, <1>9 DEF TextFits, q

Convars == [scope : ScopeNames, val : ConvarWords]

LEMMA PutConvar ==
    ASSUME NEW map \in ConvarMaps, NEW k \in ConvarNames, NEW x \in Convars
    PROVE  /\ Put(map, k, x) \in ConvarMaps
           /\ k \in DOMAIN Put(map, k, x) /\ Put(map, k, x)[k] = x
           /\ \A j \in DOMAIN map : j # k => j \in DOMAIN Put(map, k, x) /\ Put(map, k, x)[j] = map[j]
<1>1. PICK D \in SUBSET ConvarNames : map \in [D -> Convars]
  BY DEF ConvarMaps, Convars
<1> DEFINE E == D \cup {k}
           p == [j \in E |-> IF j = k THEN x ELSE map[j]]
<1>2. Put(map, k, x) = p
  BY <1>1 DEF Put
<1>3. E \in SUBSET ConvarNames /\ p \in [E -> Convars]
  BY <1>1
<1>4. p \in ConvarMaps
  <2> HIDE DEF E, p
  <2> QED BY <1>3 DEF ConvarMaps, Convars
<1> QED BY <1>1, <1>2, <1>4

LEMMA PutSecret ==
    ASSUME NEW map \in SecretMaps, NEW k \in SecretKeys, NEW x \in {"env", "vault"}
    PROVE  /\ Put(map, k, x) \in SecretMaps
           /\ DOMAIN map \subseteq DOMAIN Put(map, k, x) /\ k \in DOMAIN Put(map, k, x)
<1> DEFINE V == {"env", "vault"}
<1>1. PICK D \in SUBSET SecretKeys : map \in [D -> V]
  BY DEF SecretMaps
<1>2. x \in V
  OBVIOUS
<1> HIDE DEF V
<1> DEFINE E == D \cup {k}
           p == [j \in E |-> IF j = k THEN x ELSE map[j]]
<1>3. Put(map, k, x) = p
  BY <1>1 DEF Put
<1>4. E \in SUBSET SecretKeys /\ p \in [E -> V]
  BY <1>1, <1>2
<1>5. p \in SecretMaps
  <2> HIDE DEF E, p
  <2> QED BY <1>4 DEF SecretMaps, V
<1> QED BY <1>1, <1>3, <1>5

(* A line that is read, or refused. *)
Took == Rejects \/ \E d, p : LineEffect(norm, d, p) /\ Reads(d, p)

LEMMA TookKeeps == NormInv /\ cfgStatus = "reading" /\ Took => NormInv'
<1> SUFFICES ASSUME NormInv, cfgStatus = "reading", Took PROVE NormInv'
  OBVIOUS
<1>1. CASE Rejects
  BY <1>1 DEF NormInv, Rejects
<1>2. ASSUME NEW d, NEW p, LineEffect(norm, d, p), Reads(d, p) PROVE NormInv'
  <2>1. /\ norm' = p /\ cfgLines' = Append(cfgLines, d) /\ cfgEnv' = cfgEnv /\ cfgStatus' = "reading"
        /\ server' = server /\ secretRead' = secretRead
    BY <1>2 DEF Reads
  <2>2. TextFits(norm, cfgLines) /\ secretRead # "empty"
    BY DEF NormInv
  <2>3. TextFits(p, Append(cfgLines, d))
    BY <1>2, <2>2, TextGrows
  <2> QED BY <2>1, <2>2, <2>3 DEF NormInv
<1> QED BY <1>1, <1>2 DEF Took

LEMMA WordsAre ==
    ASSUME NEW k \in ConvarNames, NEW w \in WordsFor(k)
    PROVE  /\ w \in Vals /\ w \in ConvarWords
           /\ k = "sv_maxclients" => parse_u32(w) \in Int
           /\ k = "sv_endpoint" => w \in {"addr1", ""}
<1>1. CASE k = "sv_maxclients"
  <2>1. w \in {"0", "16", "2000", "many"}
    BY <1>1 DEF WordsFor
  <2>2. parse_u32(w) \in Int
    BY <2>1 DEF parse_u32
  <2> QED BY <1>1, <2>1, <2>2 DEF Vals, ConvarWords
<1>2. CASE k = "sv_endpoint"
  <2>1. w \in {"addr1", ""}
    BY <1>2 DEF WordsFor
  <2> QED BY <1>2, <2>1 DEF Vals, ConvarWords
<1>3. CASE k \notin {"sv_maxclients", "sv_endpoint"}
  BY <1>3 DEF WordsFor, Vals, ConvarWords
<1> QED BY <1>1, <1>2, <1>3

(* A convar takes a value. *)
LEMMA ConvarEffect ==
    ASSUME NEW n \in Norms, NEW d \in Directive, d.verb \in SetVerbs, d.key \in ConvarNames,
           d.key \notin {"sv_maxclients", "sv_endpoint"}, NEW scope \in ScopeNames, NEW v \in ConvarWords,
           scope = "Local" => d.verb \in {"set", "bare"}
    PROVE  LineEffect(n, d, [n EXCEPT !.convars = Put(n.convars, d.key, [scope |-> scope, val |-> v])])
<1> DEFINE x == [scope |-> scope, val |-> v]
           c == Put(n.convars, d.key, x)
           p == [n EXCEPT !.convars = c]
<1>1. n.convars \in ConvarMaps /\ x \in Convars /\ x.scope = scope
  BY NormsAre DEF Convars
<1> HIDE DEF x
<1>2. /\ c \in ConvarMaps /\ d.key \in DOMAIN c /\ c[d.key] = x
      /\ \A j \in DOMAIN n.convars : j # d.key => j \in DOMAIN c /\ c[j] = n.convars[j]
  BY <1>1, PutConvar
<1> HIDE DEF c
<1>3. /\ p \in Norms /\ p.max = n.max /\ p.endpoint = n.endpoint /\ p.endpoints = n.endpoints
      /\ p.resources = n.resources /\ p.secrets = n.secrets /\ p.convars = c
  BY <1>2 DEF Norms
<1>4. d.verb \notin EndpointVerbs /\ d.verb \notin ResourceVerbs /\ d.verb # "set_secret"
  BY DEF SetVerbs, EndpointVerbs, ResourceVerbs
<1> HIDE DEF p
<1>5. \A k \in SecretKeys :
           IF d.key = k /\ d.verb \in SetVerbs
           THEN k \in DOMAIN p.convars /\ (p.convars[k].scope = "Local" => d.verb \in {"set", "bare"})
           ELSE k \in DOMAIN n.convars => k \in DOMAIN p.convars /\ p.convars[k] = n.convars[k]
  BY <1>1, <1>2, <1>3
<1>6. LineEffect(n, d, p)
  BY <1>3, <1>4, <1>5 DEF LineEffect
<1> QED BY <1>6 DEF p, c, x

(* A line that says nothing of convars. *)
LEMMA OtherEffect ==
    ASSUME NEW n \in Norms, NEW d \in Directive, NEW p \in Norms, d.verb \notin SetVerbs,
           p.max = n.max, p.endpoint = n.endpoint, p.convars = n.convars,
           IF d.verb \in EndpointVerbs THEN d.val \in {"addr2", "addr3"} /\ p.endpoints = Append(n.endpoints, d.val)
           ELSE p.endpoints = n.endpoints,
           IF d.verb \in ResourceVerbs THEN d \in Started /\ p.resources = Append(n.resources, d) ELSE p.resources = n.resources,
           DOMAIN n.secrets \subseteq DOMAIN p.secrets,
           d.verb = "set_secret" => d.key \in SecretKeys /\ d.key \in DOMAIN p.secrets
    PROVE  LineEffect(n, d, p)
BY DEF LineEffect

LEMMA TypedTakes ==
    ASSUME NormInv, NEW verb \in {"set", "bare"}, NEW k \in ConvarNames, NEW w \in WordsFor(k), NEW shown \in ConvarWords,
           apply_typed([verb |-> verb, key |-> k, val |-> w], shown)
    PROVE  Took
<1> DEFINE d == [verb |-> verb, key |-> k, val |-> w]
           n == norm
<1>1. n \in Norms
  BY DEF NormInv, TextFits
<1>2. w \in Vals /\ (k = "sv_maxclients" => parse_u32(w) \in Int) /\ (k = "sv_endpoint" => w \in {"addr1", ""})
  BY WordsAre
<1>3. d \in Directive /\ d.verb = verb /\ d.key = k /\ d.val = w /\ d.verb \in SetVerbs
  BY <1>2 DEF Directive, Verbs, SetVerbs, CfgKeys
<1>4. apply_typed(d, shown)
  OBVIOUS
<1> HIDE DEF d, n
<1>5. d.verb \notin EndpointVerbs /\ d.verb \notin ResourceVerbs /\ d.verb # "set_secret"
  BY <1>3 DEF SetVerbs, EndpointVerbs, ResourceVerbs
<1>6. CASE k = "sv_maxclients"
  <2>1. CASE parse_u32(w) = -1
    <3>1. Rejects
      BY <1>3, <1>4, <1>6, <2>1 DEF apply_typed
    <3> QED BY <3>1 DEF Took
  <2>2. CASE parse_u32(w) # -1
    <3> DEFINE p == [n EXCEPT !.max = parse_u32(w)]
    <3>1. Reads(d, p)
      BY <1>3, <1>4, <1>6, <2>2 DEF apply_typed, n
    <3>2. /\ p \in Norms /\ p.max = parse_u32(w) /\ p.endpoint = n.endpoint /\ p.endpoints = n.endpoints
          /\ p.resources = n.resources /\ p.secrets = n.secrets /\ p.convars = n.convars
      BY <1>1, <1>2, <1>6 DEF Norms
    <3> HIDE DEF p
    <3>3. \A j \in SecretKeys : j # "sv_maxclients"
      BY DEF SecretKeys
    <3>4. LineEffect(n, d, p)
      BY <1>3, <1>5, <1>6, <2>2, <3>2, <3>3 DEF LineEffect
    <3> QED BY <3>1, <3>4 DEF Took, n
  <2> QED BY <2>1, <2>2
<1>7. CASE k = "sv_endpoint"
  <2> DEFINE p == [n EXCEPT !.endpoint = w]
  <2>1. Reads(d, p)
    BY <1>3, <1>4, <1>7 DEF apply_typed, n
  <2>2. /\ p \in Norms /\ p.max = n.max /\ p.endpoint = w /\ p.endpoints = n.endpoints
        /\ p.resources = n.resources /\ p.secrets = n.secrets /\ p.convars = n.convars
    BY <1>1, <1>2, <1>7 DEF Norms
  <2> HIDE DEF p
  <2>3. \A j \in SecretKeys : j # "sv_endpoint"
    BY DEF SecretKeys
  <2>4. w # "unset"
    BY <1>2, <1>7
  <2>5. LineEffect(n, d, p)
    BY <1>3, <1>5, <1>7, <2>2, <2>3, <2>4 DEF LineEffect
  <2> QED BY <2>1, <2>5 DEF Took, n
<1>8. CASE k \notin {"sv_maxclients", "sv_endpoint"}
  <2> DEFINE p == [n EXCEPT !.convars = Put(n.convars, d.key, [scope |-> "Local", val |-> shown])]
  <2>1. Reads(d, p)
    BY <1>3, <1>4, <1>8 DEF apply_typed, n
  <2>2. "Local" \in ScopeNames
    BY DEF ScopeNames
  <2>3. LineEffect(n, d, p)
    BY <1>1, <1>3, <1>8, <2>2, ConvarEffect
  <2> HIDE DEF p
  <2> QED BY <2>1, <2>3 DEF Took, n
<1> QED BY <1>6, <1>7, <1>8

LEMMA ConvarTakes ==
    ASSUME NormInv, NEW verb \in {"set", "setr", "sets"}, NEW k \in ConvarNames, k \notin TYPED_DIRECTIVES, NEW w \in WordsFor(k),
           apply_convar([verb |-> verb, key |-> k, val |-> w])
    PROVE  Took
<1> DEFINE d == [verb |-> verb, key |-> k, val |-> w]
           n == norm
           scope == Scopes[verb]
           p == [n EXCEPT !.convars = Put(n.convars, k, [scope |-> scope, val |-> w])]
<1>1. n \in Norms
  BY DEF NormInv, TextFits
<1>2. w \in Vals /\ w \in ConvarWords
  BY WordsAre
<1>3. d \in Directive /\ d.verb = verb /\ d.key = k /\ d.val = w /\ d.verb \in SetVerbs
  BY <1>2 DEF Directive, Verbs, SetVerbs, CfgKeys
<1>4. scope \in ScopeNames /\ (scope = "Local" => verb \in {"set", "bare"})
  BY DEF Scopes, ScopeNames
<1>5. apply_convar(d)
  OBVIOUS
<1> HIDE DEF d, n, scope
<1>6. Rejects \/ Reads(d, p)
  BY <1>3, <1>5 DEF apply_convar, scope, n
<1>7. k \notin {"sv_maxclients", "sv_endpoint"}
  BY DEF TYPED_DIRECTIVES
<1>8. LineEffect(n, d, p)
  BY <1>1, <1>2, <1>3, <1>4, <1>7, ConvarEffect
<1> HIDE DEF p
<1> QED BY <1>6, <1>8 DEF Took, n

LEMMA SetLineTakes == NormInv /\ set_line => Took
<1> SUFFICES ASSUME NormInv, set_line PROVE Took
  OBVIOUS
<1>1. PICK k \in ConvarNames : \E verb \in VerbsFor(k), w \in WordsFor(k) :
          \/ k \in TYPED_DIRECTIVES /\ apply_typed([verb |-> verb, key |-> k, val |-> w], k)
          \/ k \notin TYPED_DIRECTIVES /\ apply_convar([verb |-> verb, key |-> k, val |-> w])
  BY DEF set_line
<1>2. PICK verb \in VerbsFor(k), w \in WordsFor(k) :
          \/ k \in TYPED_DIRECTIVES /\ apply_typed([verb |-> verb, key |-> k, val |-> w], k)
          \/ k \notin TYPED_DIRECTIVES /\ apply_convar([verb |-> verb, key |-> k, val |-> w])
  BY <1>1
<1>3. CASE k \in TYPED_DIRECTIVES
  <2>1. verb \in {"set", "bare"} /\ k \in ConvarWords
    BY <1>3 DEF VerbsFor, ConvarWords
  <2>2. apply_typed([verb |-> verb, key |-> k, val |-> w], k)
    BY <1>2, <1>3
  <2> QED BY <2>1, <2>2, TypedTakes
<1>4. CASE k \notin TYPED_DIRECTIVES
  <2>1. verb \in {"set", "setr", "sets"}
    BY <1>4 DEF VerbsFor, Scopes
  <2>2. apply_convar([verb |-> verb, key |-> k, val |-> w])
    BY <1>2, <1>4
  <2> QED BY <1>4, <2>1, <2>2, ConvarTakes
<1> QED BY <1>3, <1>4

LEMMA BareLineTakes == NormInv /\ bare_line => Took
<1> SUFFICES ASSUME NormInv, bare_line PROVE Took
  OBVIOUS
<1>1. PICK k \in ConvarNames \ {"endpoint_add_udp"} : \E w \in WordsFor(k) : apply_typed([verb |-> "bare", key |-> k, val |-> w], w)
  BY DEF bare_line
<1>2. PICK w \in WordsFor(k) : apply_typed([verb |-> "bare", key |-> k, val |-> w], w)
  BY <1>1
<1>3. w \in ConvarWords /\ k \in ConvarNames
  BY WordsAre
<1> QED BY <1>2, <1>3, TypedTakes

LEMMA SecretTakes == NormInv /\ apply_secret => Took
<1> SUFFICES ASSUME NormInv, apply_secret PROVE Took
  OBVIOUS
<1>1. PICK k \in SecretKeys, provider \in {"env", "vault", "bare", "unknown", "empty"} :
          \/ provider \in {"unknown", "empty"} /\ Rejects
          \/ /\ provider \notin {"unknown", "empty"}
             /\ Reads([verb |-> "set_secret", key |-> k, val |-> provider],
                      [norm EXCEPT !.secrets = Put(norm.secrets, k, IF provider = "bare" THEN "env" ELSE provider)])
  BY DEF apply_secret, SecretKeys
<1>2. CASE Rejects
  BY <1>2 DEF Took
<1>3. CASE provider \notin {"unknown", "empty"}
  <2> DEFINE d == [verb |-> "set_secret", key |-> k, val |-> provider]
             v == IF provider = "bare" THEN "env" ELSE provider
             s == Put(norm.secrets, k, v)
             p == [norm EXCEPT !.secrets = s]
  <2>1. Reads(d, p)
    BY <1>1, <1>3
  <2>2. norm \in Norms
    BY DEF NormInv, TextFits
  <2>3. norm.secrets \in SecretMaps /\ v \in {"env", "vault"}
    BY <1>3, <2>2, NormsAre
  <2> HIDE DEF v
  <2>4. s \in SecretMaps /\ DOMAIN norm.secrets \subseteq DOMAIN s /\ k \in DOMAIN s
    BY <2>3, PutSecret
  <2> HIDE DEF s
  <2>5. /\ p \in Norms /\ p.max = norm.max /\ p.endpoint = norm.endpoint /\ p.endpoints = norm.endpoints
        /\ p.resources = norm.resources /\ p.secrets = s /\ p.convars = norm.convars
    BY <2>2, <2>4 DEF Norms
  <2>6. d \in Directive /\ d.verb = "set_secret" /\ d.key = k
    BY <1>3 DEF Directive, Verbs, CfgKeys, Vals, ConvarNames, SecretKeys
  <2>7. d.verb \notin EndpointVerbs /\ d.verb \notin ResourceVerbs /\ d.verb \notin SetVerbs
    BY <2>6 DEF SetVerbs, EndpointVerbs, ResourceVerbs
  <2> HIDE DEF d, p
  <2>8. LineEffect(norm, d, p)
    BY <2>2, <2>4, <2>5, <2>6, <2>7, OtherEffect
  <2> QED BY <2>1, <2>8 DEF Took
<1> QED BY <1>1, <1>2, <1>3

LEMMA ResourceTakes == NormInv /\ apply_resource => Took
<1> SUFFICES ASSUME NormInv, apply_resource PROVE Took
  OBVIOUS
<1>1. PICK action \in ResourceVerbs, r \in CfgResources :
          Reads([verb |-> action, key |-> r, val |-> ""],
                [norm EXCEPT !.resources = Append(norm.resources, [verb |-> action, key |-> r, val |-> ""])])
  BY DEF apply_resource, ResourceVerbs
<1> DEFINE d == [verb |-> action, key |-> r, val |-> ""]
           s == Append(norm.resources, d)
           p == [norm EXCEPT !.resources = s]
<1>2. Reads(d, p)
  BY <1>1
<1>3. norm \in Norms
  BY DEF NormInv, TextFits
<1>4. d \in Started /\ d.verb = action /\ d.verb \in ResourceVerbs
  BY DEF Started
<1>5. d \in Directive
  BY DEF Directive, Verbs, CfgKeys, Vals, ResourceVerbs
<1>6. d.verb \notin EndpointVerbs /\ d.verb # "set_secret" /\ d.verb \notin SetVerbs
  BY <1>4 DEF SetVerbs, EndpointVerbs, ResourceVerbs
<1> HIDE DEF d
<1>7. norm.resources \in Seq(Started)
  BY <1>3, NormsAre
<1>8. s \in Seq(Started)
  BY <1>4, <1>7
<1> HIDE DEF s
<1>9. /\ p \in Norms /\ p.max = norm.max /\ p.endpoint = norm.endpoint /\ p.endpoints = norm.endpoints
      /\ p.resources = s /\ p.secrets = norm.secrets /\ p.convars = norm.convars
  BY <1>3, <1>8 DEF Norms
<1> HIDE DEF p
<1>10. LineEffect(norm, d, p)
  BY <1>3, <1>4, <1>5, <1>6, <1>9, OtherEffect DEF s
<1> QED BY <1>2, <1>10 DEF Took

LEMMA AceTakes == NormInv /\ apply_ace => Took
<1> SUFFICES ASSUME NormInv, apply_ace PROVE Took
  OBVIOUS
<1>1. PICK verb \in {"add_ace", "remove_ace"}, grant \in {"allow", "deny", "maybe"} :
          \/ grant = "maybe" /\ Rejects
          \/ /\ grant # "maybe"
             /\ Reads([verb |-> verb, key |-> "ace", val |-> grant],
                      [norm EXCEPT !.aces = Append(norm.aces, (verb = "add_ace") <=> (grant = "allow"))])
  BY DEF apply_ace
<1>2. CASE Rejects
  BY <1>2 DEF Took
<1>3. CASE grant # "maybe"
  <2> DEFINE d == [verb |-> verb, key |-> "ace", val |-> grant]
             b == (verb = "add_ace") <=> (grant = "allow")
             s == Append(norm.aces, b)
             p == [norm EXCEPT !.aces = s]
  <2>1. Reads(d, p)
    BY <1>1, <1>3
  <2>2. norm \in Norms
    BY DEF NormInv, TextFits
  <2>3. b \in BOOLEAN
    OBVIOUS
  <2> HIDE DEF b
  <2>4. norm.aces \in Seq(BOOLEAN)
    BY <2>2, NormsAre
  <2>5. s \in Seq(BOOLEAN)
    BY <2>3, <2>4
  <2> HIDE DEF s
  <2>6. /\ p \in Norms /\ p.max = norm.max /\ p.endpoint = norm.endpoint /\ p.endpoints = norm.endpoints
        /\ p.resources = norm.resources /\ p.secrets = norm.secrets /\ p.convars = norm.convars
    BY <2>2, <2>5 DEF Norms
  <2>7. d \in Directive /\ d.verb = verb
    BY <1>3 DEF Directive, Verbs, CfgKeys, Vals
  <2>8. d.verb \notin EndpointVerbs /\ d.verb \notin ResourceVerbs /\ d.verb \notin SetVerbs /\ d.verb # "set_secret"
    BY <2>7 DEF SetVerbs, EndpointVerbs, ResourceVerbs
  <2> HIDE DEF d, p
  <2>9. LineEffect(norm, d, p)
    BY <2>2, <2>6, <2>7, <2>8, OtherEffect
  <2> QED BY <2>1, <2>9 DEF Took
<1> QED BY <1>1, <1>2, <1>3

LEMMA PrincipalTakes == NormInv /\ apply_principal => Took
<1> SUFFICES ASSUME NormInv, apply_principal PROVE Took
  OBVIOUS
<1>1. PICK verb \in {"add_principal", "remove_principal"} :
          Reads([verb |-> verb, key |-> "principal", val |-> ""],
                [norm EXCEPT !.principals = Append(norm.principals, verb = "add_principal")])
  BY DEF apply_principal
<1> DEFINE d == [verb |-> verb, key |-> "principal", val |-> ""]
           b == verb = "add_principal"
           s == Append(norm.principals, b)
           p == [norm EXCEPT !.principals = s]
<1>2. Reads(d, p)
  BY <1>1
<1>3. norm \in Norms
  BY DEF NormInv, TextFits
<1>4. b \in BOOLEAN
  OBVIOUS
<1> HIDE DEF b
<1>5. norm.principals \in Seq(BOOLEAN)
  BY <1>3, NormsAre
<1>6. s \in Seq(BOOLEAN)
  BY <1>4, <1>5
<1> HIDE DEF s
<1>7. /\ p \in Norms /\ p.max = norm.max /\ p.endpoint = norm.endpoint /\ p.endpoints = norm.endpoints
      /\ p.resources = norm.resources /\ p.secrets = norm.secrets /\ p.convars = norm.convars
  BY <1>3, <1>6 DEF Norms
<1>8. d \in Directive /\ d.verb = verb
  BY DEF Directive, Verbs, CfgKeys, Vals
<1>9. d.verb \notin EndpointVerbs /\ d.verb \notin ResourceVerbs /\ d.verb \notin SetVerbs /\ d.verb # "set_secret"
  BY <1>8 DEF SetVerbs, EndpointVerbs, ResourceVerbs
<1> HIDE DEF d, p
<1>10. LineEffect(norm, d, p)
  BY <1>3, <1>7, <1>8, <1>9, OtherEffect
<1> QED BY <1>2, <1>10 DEF Took

LEMMA EndpointTakes == NormInv /\ apply_endpoint => Took
<1> SUFFICES ASSUME NormInv, apply_endpoint PROVE Took
  OBVIOUS
<1> DEFINE addrOf(verb) == IF verb = "endpoint_add_tcp" THEN "addr2" ELSE "addr3"
<1>1. PICK verb \in EndpointVerbs :
          Reads([verb |-> verb, key |-> "endpoint", val |-> addrOf(verb)],
                [norm EXCEPT !.endpoints = Append(norm.endpoints, addrOf(verb))])
  BY DEF apply_endpoint, EndpointVerbs
<1> DEFINE a == addrOf(verb)
           A == {"addr2", "addr3"}
           d == [verb |-> verb, key |-> "endpoint", val |-> a]
           s == Append(norm.endpoints, a)
           p == [norm EXCEPT !.endpoints = s]
<1>2. Reads(d, p)
  BY <1>1
<1>3. norm \in Norms
  BY DEF NormInv, TextFits
<1>4. a \in A
  OBVIOUS
<1>5. norm.endpoints \in Seq(A)
  BY <1>3, NormsAre
<1>6. d \in Directive /\ d.verb = verb /\ d.val = a
  BY DEF Directive, Verbs, CfgKeys, Vals
<1> HIDE DEF a
<1>7. s \in Seq(A)
  <2> HIDE DEF A
  <2> QED BY <1>4, <1>5
<1> HIDE DEF s
<1>8. /\ p \in Norms /\ p.max = norm.max /\ p.endpoint = norm.endpoint /\ p.endpoints = s
      /\ p.resources = norm.resources /\ p.secrets = norm.secrets /\ p.convars = norm.convars
  BY <1>3, <1>7 DEF Norms
<1>9. d.verb \notin ResourceVerbs /\ d.verb \notin SetVerbs /\ d.verb # "set_secret"
  BY <1>6 DEF SetVerbs, EndpointVerbs, ResourceVerbs
<1> HIDE DEF d, p
<1>10. d.val \in {"addr2", "addr3"} /\ p.endpoints = Append(norm.endpoints, d.val)
  BY <1>4, <1>6, <1>8 DEF s
<1>11. LineEffect(norm, d, p)
  BY <1>3, <1>6, <1>8, <1>9, <1>10, OtherEffect
<1> QED BY <1>2, <1>11 DEF Took

LEMMA FinishKeeps == NormInv /\ finish_reading => NormInv'
<1> SUFFICES ASSUME NormInv, finish_reading PROVE NormInv'
  OBVIOUS
<1>1. /\ cfgStatus' = IF cfg_validate(norm, cfgEnv') THEN "accepted" ELSE "error"
      /\ norm' = norm /\ cfgLines' = cfgLines /\ server' = server /\ secretRead' = secretRead
  BY DEF finish_reading
<1>2. cfgStatus' = "accepted" => cfg_validate(norm, cfgEnv')
  BY <1>1
<1>3. cfgStatus' # "loaded" /\ cfgStatus' \in {"accepted", "error"}
  BY <1>1
<1>4. cfg_validate(norm, cfgEnv') => cfg_validate(norm, cfgEnv)'
  BY <1>1 DEF cfg_validate, EnvResolve
<1> QED BY <1>1, <1>2, <1>3, <1>4 DEF NormInv

LEMMA ReadSecretKeeps == NormInv /\ read_secret => NormInv'
<1> SUFFICES ASSUME NormInv, read_secret PROVE NormInv'
  OBVIOUS
<1>1. PICK k \in {"motd", "db_password"} : secretRead' = IF k \notin DOMAIN norm.secrets THEN "error" ELSE EnvResolve(cfgEnv)
  BY DEF read_secret
<1>2. cfg_validate(norm, cfgEnv)
  BY DEF NormInv, read_secret
<1>3. k \in DOMAIN norm.secrets => EnvResolve(cfgEnv) # "empty"
  BY <1>2 DEF cfg_validate
<1>4. secretRead' # "empty"
  BY <1>1, <1>3
<1>5. UNCHANGED <<norm, cfgLines, cfgEnv, cfgStatus, server>>
  BY DEF read_secret
<1> QED BY <1>4, <1>5 DEF NormInv, TextFits, LoadedFits, cfg_validate

(* The resources a text starts. *)
StartedOf(lines) == {r \in CfgResources : \E i \in DOMAIN lines : lines[i].key = r /\ lines[i].verb \in {"ensure", "start"}}
StartPlaces(s) == {i \in DOMAIN s : s[i].verb \in {"ensure", "start"}}
KeysOf(s) == [i \in DOMAIN s |-> s[i].key]

LEMMA EnabledIs ==
    ASSUME NEW n, NEW lines, TextFits(n, lines)
    PROVE  LET e == Deduplicated(KeysOf(Selected(n.resources, StartPlaces(n.resources))))
           IN  IsInjective(e) /\ ToSet(e) = StartedOf(lines)
<1> DEFINE R == n.resources
           K == StartPlaces(R)
           t == Selected(R, K)
           s == KeysOf(t)
           e == Deduplicated(s)
<1>1. n \in Norms /\ lines \in Seq(Directive) /\ ToSet(R) = {d \in ToSet(lines) : d.verb \in ResourceVerbs}
  BY DEF TextFits, ResourcesFit
<1>2. R \in Seq(Started)
  BY <1>1, NormsAre
<1> HIDE DEF R
<1>3. \A i \in 1..Len(R) : i \in K <=> R[i].verb \in {"ensure", "start"}
  BY <1>2 DEF StartPlaces
<1> HIDE DEF K
<1>4. t \in Seq(Started) /\ \E pos : Selection(pos, t, R, K)
  BY <1>2, SelectionIs
<1>5. PICK pos : Selection(pos, t, R, K)
  BY <1>4
<1> HIDE DEF t
<1>6. DOMAIN t = 1..Len(t) /\ DOMAIN R = 1..Len(R) /\ DOMAIN lines = 1..Len(lines)
  BY <1>1, <1>2, <1>4
<1>7. /\ pos \in [1..Len(t) -> 1..Len(R)]
      /\ \A a \in 1..Len(t) : pos[a] \in K /\ t[a] = R[pos[a]]
      /\ \A i \in 1..Len(R) : i \in K => \E a \in 1..Len(t) : pos[a] = i
  BY <1>5 DEF Selection
<1>8. \A x \in Started : x.key \in CfgResources /\ x.verb \in ResourceVerbs
  BY DEF Started
<1>9. s \in Seq(CfgResources) /\ DOMAIN s = 1..Len(t) /\ \A a \in 1..Len(t) : s[a] = t[a].key
  <2>1. \A a \in 1..Len(t) : t[a].key \in CfgResources
    BY <1>4, <1>8
  <2>2. s = [a \in 1..Len(t) |-> t[a].key] /\ Len(t) \in Nat
    BY <1>4, <1>6 DEF KeysOf
  <2> QED BY <2>1, <2>2
<1> HIDE DEF s
<1>10. IsInjective(e) /\ ToSet(e) = ToSet(s)
  BY <1>9, DeduplicatedIs
<1>11. ASSUME NEW r \in ToSet(s) PROVE r \in StartedOf(lines)
  <2>1. PICK a \in 1..Len(t) : r = t[a].key
    BY <1>9 DEF ToSet
  <2>2. pos[a] \in 1..Len(R) /\ pos[a] \in K /\ t[a] = R[pos[a]] /\ t[a] \in Started
    BY <1>4, <1>7
  <2>3. t[a].verb \in {"ensure", "start"} /\ t[a].key \in CfgResources
    BY <1>3, <1>8, <2>2
  <2>4. t[a] \in ToSet(R)
    BY <1>6, <2>2 DEF ToSet
  <2>5. t[a] \in ToSet(lines)
    BY <1>1, <2>4
  <2>6. PICK i \in DOMAIN lines : lines[i] = t[a]
    BY <2>5 DEF ToSet
  <2> QED BY <2>1, <2>3, <2>6 DEF StartedOf
<1>12. ASSUME NEW r \in StartedOf(lines) PROVE r \in ToSet(s)
  <2>1. PICK i \in DOMAIN lines : lines[i].key = r /\ lines[i].verb \in {"ensure", "start"}
    BY DEF StartedOf
  <2>2. lines[i] \in ToSet(lines) /\ lines[i].verb \in ResourceVerbs
    BY <2>1 DEF ToSet, ResourceVerbs
  <2>3. lines[i] \in ToSet(R)
    BY <1>1, <2>2
  <2>4. PICK j \in 1..Len(R) : R[j] = lines[i]
    BY <1>6, <2>3 DEF ToSet
  <2>5. j \in K
    BY <1>3, <2>1, <2>4
  <2>6. PICK a \in 1..Len(t) : pos[a] = j
    BY <1>7, <2>5
  <2>7. t[a] = lines[i]
    BY <1>7, <2>4, <2>6
  <2>8. s[a] = r /\ a \in DOMAIN s
    BY <1>9, <2>1, <2>7
  <2> QED BY <2>8 DEF ToSet
<1>13. ToSet(s) = StartedOf(lines)
  BY <1>11, <1>12
<1> QED BY <1>10, <1>13 DEF s, t, K, R

LEMMA BindIs ==
    ASSUME NEW n, NEW lines, TextFits(n, lines)
    PROVE  (IF n.endpoint # "unset" THEN n.endpoint
            ELSE IF n.endpoints # <<>> THEN Head(n.endpoints) ELSE "default")
           = LET i == LastAbout(lines, "sv_endpoint")
                 first == FirstEndpoint(lines)
             IN  IF i # 0 THEN lines[i].val ELSE IF first # 0 THEN lines[first].val ELSE "default"
<1> DEFINE i == LastAbout(lines, "sv_endpoint")
           first == FirstEndpoint(lines)
<1>1. n.endpoint = Address(lines, i) /\ (i # 0 => n.endpoint # "unset")
  BY DEF TextFits, AddressFits
<1>2. IF first = 0 THEN n.endpoints = <<>> ELSE n.endpoints # <<>> /\ n.endpoints[1] = lines[first].val
  BY DEF TextFits, EndpointsFit
<1>3. n.endpoints # <<>> => Head(n.endpoints) = n.endpoints[1]
  <2> DEFINE A == {"addr2", "addr3"}
  <2>1. n.endpoints \in Seq(A)
    BY NormsAre DEF TextFits
  <2> HIDE DEF A
  <2> QED BY <2>1
<1> HIDE DEF i, first
<1>4. (IF n.endpoint # "unset" THEN n.endpoint
       ELSE IF n.endpoints # <<>> THEN Head(n.endpoints) ELSE "default")
      = IF i # 0 THEN lines[i].val ELSE IF first # 0 THEN lines[first].val ELSE "default"
  BY <1>1, <1>2, <1>3 DEF Address
<1> QED BY <1>4 DEF i, first

LEMMA ApplyKeeps == NormInv /\ apply_normalized => NormInv'
<1> SUFFICES ASSUME NormInv, apply_normalized PROVE NormInv'
  OBVIOUS
<1> DEFINE n == norm
           bind == IF n.endpoint # "unset" THEN n.endpoint
                   ELSE IF n.endpoints # <<>> THEN Head(n.endpoints) ELSE "default"
           e == Deduplicated(KeysOf(Selected(n.resources, StartPlaces(n.resources))))
<1>1. /\ \/ cfgStatus' = "refused"
         \/ /\ cfgStatus' = "loaded"
            /\ server' = [max_players |-> IF n.max = -1 THEN 64 ELSE n.max, bind |-> bind, enabled |-> e]
      /\ norm' = norm /\ cfgLines' = cfgLines /\ cfgEnv' = cfgEnv /\ secretRead' = secretRead
  BY DEF apply_normalized, KeysOf, StartPlaces, DefaultConfig
<1>2. TextFits(n, cfgLines) /\ cfg_validate(norm, cfgEnv) /\ secretRead # "empty"
  BY DEF NormInv, apply_normalized
<1>3. IsInjective(e) /\ ToSet(e) = StartedOf(cfgLines)
  BY <1>2, EnabledIs
<1>4. bind = LET i == LastAbout(cfgLines, "sv_endpoint")
                 first == FirstEndpoint(cfgLines)
             IN  IF i # 0 THEN cfgLines[i].val ELSE IF first # 0 THEN cfgLines[first].val ELSE "default"
  BY <1>2, BindIs
<1>5. (IF n.max = -1 THEN 64 ELSE n.max) = LET i == LastAbout(cfgLines, "sv_maxclients") IN
          IF i = 0 THEN 64 ELSE parse_u32(cfgLines[i].val)
  BY <1>2 DEF TextFits, MaxFits, Limit
<1> HIDE DEF e, bind, n
<1>6. cfgStatus' = "loaded" => LoadedFits(server', cfgLines)
  <2> SUFFICES ASSUME cfgStatus' = "loaded" PROVE LoadedFits(server', cfgLines)
    OBVIOUS
  <2>1. server' = [max_players |-> IF n.max = -1 THEN 64 ELSE n.max, bind |-> bind, enabled |-> e]
    BY <1>1
  <2>2. server'.max_players = (IF n.max = -1 THEN 64 ELSE n.max) /\ server'.bind = bind /\ server'.enabled = e
    BY <2>1
  <2> QED BY <1>3, <1>4, <1>5, <2>2 DEF LoadedFits, StartedOf
<1>7. cfgStatus' = "loaded" => LoadedFits(server, cfgLines)'
  BY <1>1, <1>6 DEF LoadedFits
<1>8. cfg_validate(norm, cfgEnv)' /\ TextFits(norm, cfgLines)'
  BY <1>1, <1>2 DEF n
<1> QED BY <1>1, <1>2, <1>7, <1>8 DEF NormInv

LEMMA NormInvInit == NormInit => NormInv
<1> SUFFICES ASSUME NormInit PROVE NormInv
  OBVIOUS
<1> DEFINE E == <<>>
<1>1. /\ norm.max = -1 /\ norm.endpoint = "unset" /\ norm.endpoints = E /\ norm.convars = NoMap /\ norm.secrets = NoMap
      /\ norm.resources = E /\ norm.aces = E /\ norm.principals = E
  BY DEF NormInit
<1>2. cfgLines = E /\ cfgStatus = "reading" /\ secretRead = "none"
  BY DEF NormInit
<1>3. E \in Seq(Directive) /\ Len(E) = 0 /\ DOMAIN E = {}
  OBVIOUS
<1>4. NoMap \in ConvarMaps /\ NoMap \in SecretMaps
  <2>1. \A V : NoMap \in [{} -> V]
    BY DEF NoMap
  <2>2. NoMap \in [{} -> [scope : ScopeNames, val : ConvarWords]] /\ NoMap \in [{} -> {"env", "vault"}]
    BY <2>1
  <2> QED BY <2>2 DEF ConvarMaps, SecretMaps
<1>5. norm \in Norms
  <2>1. \A V : E \in Seq(V)
    OBVIOUS
  <2>2. norm = [max |-> -1, endpoint |-> "unset", endpoints |-> E, convars |-> NoMap,
                secrets |-> NoMap, resources |-> E, aces |-> E, principals |-> E]
    BY DEF NormInit
  <2> HIDE DEF E
  <2> QED BY <1>4, <2>1, <2>2 DEF Norms
<1>6. \A k : LastAbout(cfgLines, k) = 0
  <2> SUFFICES ASSUME NEW k PROVE LastAbout(cfgLines, k) = 0
    OBVIOUS
  <2>1. IsLast(cfgLines, k, LastAbout(cfgLines, k))
    BY <1>2, <1>3, LastAboutIs
  <2> QED BY <1>2, <1>3, <2>1 DEF IsLast
<1>7. FirstEndpoint(cfgLines) = 0
  BY <1>2, <1>3 DEF FirstEndpoint
<1>8. ToSet(norm.resources) = {} /\ ToSet(cfgLines) = {}
  BY <1>1, <1>2, ToSetEmpty
<1>9. MaxFits(norm, cfgLines) /\ AddressFits(norm, cfgLines) /\ EndpointsFit(norm, cfgLines)
  BY <1>1, <1>6, <1>7 DEF MaxFits, AddressFits, EndpointsFit, Limit, Address
<1>10. ResourcesFit(norm, cfgLines) /\ ConvarsFit(norm, cfgLines) /\ SecretsFit(norm, cfgLines)
  BY <1>2, <1>3, <1>6, <1>8 DEF ResourcesFit, ConvarsFit, SecretsFit
<1> QED BY <1>2, <1>3, <1>5, <1>9, <1>10 DEF NormInv, TextFits

LEMMA NormInvImplies == NormInv => LoadedAsWritten
<1> SUFFICES ASSUME NormInv PROVE LoadedAsWritten
  OBVIOUS
<1>1. cfgStatus = "loaded" => LoadedFits(server, cfgLines)
  BY DEF NormInv
<1>2. ASSUME cfgStatus \in {"accepted", "loaded"}, NEW i \in DOMAIN cfgLines, cfgLines[i].verb = "set_secret",
             LastAbout(cfgLines, cfgLines[i].key) # 0
      PROVE  cfgLines[LastAbout(cfgLines, cfgLines[i].key)].verb \in {"set", "bare"}
  <2> DEFINE k == cfgLines[i].key
             l == LastAbout(cfgLines, k)
  <2>1. TextFits(norm, cfgLines) /\ cfg_validate(norm, cfgEnv)
    BY <1>2 DEF NormInv
  <2>2. i \in 1..Len(cfgLines)
    BY <2>1 DEF TextFits
  <2>3. k \in SecretKeys /\ k \in DOMAIN norm.secrets
    BY <1>2, <2>1, <2>2 DEF TextFits, SecretsFit
  <2>4. l # 0
    BY <1>2
  <2> HIDE DEF k
  <2>5. k \in DOMAIN norm.convars /\ (norm.convars[k].scope = "Local" => cfgLines[l].verb \in {"set", "bare"})
    BY <2>1, <2>3, <2>4 DEF TextFits, ConvarsFit
  <2>6. norm.convars[k].scope = "Local"
    BY <2>1, <2>3, <2>5 DEF cfg_validate
  <2> QED BY <2>5, <2>6 DEF k
<1>3. secretRead # "empty"
  BY DEF NormInv
<1> QED BY <1>1, <1>2, <1>3 DEF LoadedAsWritten, LoadedFits

LEMMA NormStep == NormInv /\ [NormNext]_normVars => NormInv'
<1> SUFFICES ASSUME NormInv, [NormNext]_normVars PROVE NormInv'
  OBVIOUS
<1>1. CASE UNCHANGED normVars
  BY <1>1 DEF normVars, NormInv, TextFits, LoadedFits, cfg_validate
<1>2. CASE set_line \/ bare_line \/ apply_secret \/ apply_resource \/ apply_ace \/ apply_principal \/ apply_endpoint
  <2>1. Took
    BY <1>2, SetLineTakes, BareLineTakes, SecretTakes, ResourceTakes, AceTakes, PrincipalTakes, EndpointTakes
  <2>2. cfgStatus = "reading"
    BY <1>2 DEF set_line, bare_line, apply_secret, apply_resource, apply_ace, apply_principal, apply_endpoint, Reading
  <2> QED BY <2>1, <2>2, TookKeeps
<1> QED BY <1>1, <1>2, FinishKeeps, ApplyKeeps, ReadSecretKeeps DEF NormNext

LEMMA LoadedAlwaysAsWritten == NormInit /\ [][NormNext]_normVars => []LoadedAsWritten
<1>1. NormInit /\ [][NormNext]_normVars => []NormInv
  BY NormInvInit, NormStep, PTL
<1> QED BY <1>1, NormInvImplies, PTL

-----------------------------------------------------------------------------
(* Manifests. *)

(* What a token adds to the number of open tables. *)
Opens(tok) == IF tok.t = "LBrace" THEN 1 ELSE IF tok.t = "RBrace" THEN -1 ELSE 0
OpensOf(toks, n) == [k \in 1..n |-> Opens(toks[k])]

LEMMA DepthIs == ASSUME NEW toks, NEW n PROVE Depth(toks, n) = SumTo(n, OpensOf(toks, n))
BY DEF Depth, OpensOf, Opens

LEMMA OpensType == ASSUME NEW toks, NEW n \in Nat PROVE OpensOf(toks, n) \in [1..n -> Int]
<1>1. \A k \in 1..n : Opens(toks[k]) \in Int
  BY DEF Opens
<1> QED BY <1>1 DEF OpensOf

LEMMA DepthType == ASSUME NEW toks, NEW n \in Nat PROVE Depth(toks, n) \in Int
<1>1. OpensOf(toks, n) \in [1..n -> Int]
  BY OpensType
<1> QED BY <1>1, DepthIs, SumToType

(* One more token. *)
LEMMA DepthNext ==
    ASSUME NEW toks \in Seq(Tok), NEW tok \in Tok, NEW q, q = Append(toks, tok)
    PROVE  /\ \A n \in 0..Len(toks) : Depth(q, n) = Depth(toks, n)
           /\ Depth(q, Len(toks) + 1) = Depth(toks, Len(toks)) + Opens(tok)
<1> DEFINE m == Len(toks)
<1>1. m \in Nat /\ q[m + 1] = tok /\ \A i \in 1..m : q[i] = toks[i]
  OBVIOUS
<1> HIDE DEF m
<1>2. ASSUME NEW n \in 0..m PROVE Depth(q, n) = Depth(toks, n)
  <2>1. \A k \in 1..n : k \in 1..m
    BY <1>1
  <2>2. \A k \in 1..n : Opens(q[k]) = Opens(toks[k])
    BY <1>1, <2>1
  <2>3. OpensOf(q, n) = OpensOf(toks, n)
    BY <2>2 DEF OpensOf
  <2> QED BY <2>3, DepthIs
<1>3. Depth(q, m + 1) = Depth(toks, m) + Opens(tok)
  <2> DEFINE f == OpensOf(toks, m)
             g == OpensOf(q, m + 1)
  <2>1. f \in [1..m -> Int] /\ g \in [1..(m + 1) -> Int]
    BY <1>1, OpensType
  <2>9. (\A k \in 1..m : f[k] = Opens(toks[k])) /\ \A k \in 1..(m + 1) : g[k] = Opens(q[k])
    BY DEF OpensOf
  <2>10. m + 1 \in 1..(m + 1) /\ \A k \in 1..m : k \in 1..(m + 1)
    BY <1>1
  <2>2. \A k \in 1..m : k \in 1..(m + 1) /\ g[k] = f[k]
    BY <1>1, <2>9, <2>10
  <2>3. g[m + 1] = Opens(tok)
    BY <1>1, <2>9, <2>10
  <2>4. SumTo(m, f) = Depth(toks, m) /\ SumTo(m + 1, g) = Depth(q, m + 1)
    BY DepthIs
  <2> HIDE DEF f, g
  <2>5. SumTo(m + 1, g) = SumTo(m, f) + g[m + 1]
    BY <1>1, <2>1, <2>2, SumToAppend
  <2> QED BY <2>3, <2>4, <2>5
<1> QED BY <1>2, <1>3 DEF m

(* The new token is a name outside of any table. *)
IsTop(toks, tok) == tok.t = "Ident" /\ Depth(toks, Len(toks)) = 0

LEMMA TopNamesNext ==
    ASSUME NEW toks \in Seq(Tok), NEW tok \in Tok, NEW q, q = Append(toks, tok)
    PROVE  /\ \A i \in 1..Len(toks) : i \in TopNames(toks) <=> i \in TopNames(q)
           /\ Len(toks) + 1 \in TopNames(q) <=> IsTop(toks, tok)
           /\ TopNames(toks) \subseteq 1..Len(toks) /\ TopNames(q) \subseteq 1..(Len(toks) + 1)
<1> DEFINE m == Len(toks)
<1>1. /\ m \in Nat /\ q[m + 1] = tok /\ (\A i \in 1..m : q[i] = toks[i])
      /\ DOMAIN toks = 1..m /\ DOMAIN q = 1..(m + 1)
  OBVIOUS
<1>2. (\A n \in 0..m : Depth(q, n) = Depth(toks, n)) /\ Depth(q, m + 1) = Depth(toks, m) + Opens(tok)
  BY DepthNext
<1>3. Depth(toks, m) \in Int
  BY <1>1, DepthType
<1>4. TopNames(toks) \subseteq 1..m /\ TopNames(q) \subseteq 1..(m + 1)
  BY <1>1 DEF TopNames
<1> HIDE DEF m
<1>5. ASSUME NEW i \in 1..m PROVE i \in TopNames(toks) <=> i \in TopNames(q)
  <2>1. i \in 0..m /\ i \in 1..(m + 1)
    BY <1>1
  <2>2. Depth(q, i) = Depth(toks, i) /\ q[i] = toks[i]
    BY <1>1, <1>2, <2>1
  <2> QED BY <1>1, <2>1, <2>2 DEF TopNames
<1>6. m + 1 \in TopNames(q) <=> IsTop(toks, tok)
  <2>1. m + 1 \in 1..(m + 1)
    BY <1>1
  <2>2. m + 1 \in TopNames(q) <=> tok.t = "Ident" /\ Depth(q, m + 1) = 0
    BY <1>1, <2>1 DEF TopNames
  <2>3. tok.t = "Ident" => Opens(tok) = 0
    BY DEF Opens
  <2>4. tok.t = "Ident" => Depth(q, m + 1) = Depth(toks, m)
    BY <1>2, <1>3, <2>3
  <2> QED BY <2>2, <2>4 DEF IsTop, m
<1> QED BY <1>4, <1>5, <1>6 DEF m

LEMMA BelongsNext ==
    ASSUME NEW toks \in Seq(Tok), NEW tok \in Tok, NEW q, q = Append(toks, tok), NEW name
    PROVE  /\ \A n \in 0..Len(toks) : Belongs(q, n, name) <=> Belongs(toks, n, name)
           /\ Belongs(q, Len(toks) + 1, name) <=>
                 IF IsTop(toks, tok) THEN tok.s = name ELSE Belongs(toks, Len(toks), name)
<1> DEFINE m == Len(toks)
<1>1. m \in Nat /\ q[m + 1] = tok /\ \A i \in 1..m : q[i] = toks[i]
  OBVIOUS
<1>2. /\ \A i \in 1..m : i \in TopNames(toks) <=> i \in TopNames(q)
      /\ m + 1 \in TopNames(q) <=> IsTop(toks, tok)
  BY TopNamesNext
<1> HIDE DEF m
<1>3. ASSUME NEW n \in 0..m PROVE Belongs(q, n, name) <=> Belongs(toks, n, name)
  <2>1. \A i \in 1..n : i \in 1..m /\ \A k \in (i + 1)..n : k \in 1..m
    BY <1>1
  <2>2. ASSUME Belongs(q, n, name) PROVE Belongs(toks, n, name)
    <3>1. PICK i \in 1..n : i \in TopNames(q) /\ q[i].s = name /\ \A k \in (i + 1)..n : k \notin TopNames(q)
      BY <2>2 DEF Belongs
    <3>2. i \in TopNames(toks) /\ toks[i].s = name /\ \A k \in (i + 1)..n : k \notin TopNames(toks)
      BY <1>1, <1>2, <2>1, <3>1
    <3> QED BY <3>2 DEF Belongs
  <2>3. ASSUME Belongs(toks, n, name) PROVE Belongs(q, n, name)
    <3>1. PICK i \in 1..n : i \in TopNames(toks) /\ toks[i].s = name /\ \A k \in (i + 1)..n : k \notin TopNames(toks)
      BY <2>3 DEF Belongs
    <3>2. i \in TopNames(q) /\ q[i].s = name /\ \A k \in (i + 1)..n : k \notin TopNames(q)
      BY <1>1, <1>2, <2>1, <3>1
    <3> QED BY <3>2 DEF Belongs
  <2> QED BY <2>2, <2>3
<1>4. CASE IsTop(toks, tok)
  <2>1. m + 1 \in TopNames(q) /\ m + 1 \in 1..(m + 1)
    BY <1>1, <1>2, <1>4
  <2>2. ASSUME Belongs(q, m + 1, name) PROVE tok.s = name
    <3>1. PICK i \in 1..(m + 1) : i \in TopNames(q) /\ q[i].s = name /\ \A k \in (i + 1)..(m + 1) : k \notin TopNames(q)
      BY <2>2 DEF Belongs
    <3>2. i = m + 1 \/ m + 1 \in (i + 1)..(m + 1)
      BY <1>1
    <3>3. i = m + 1
      BY <2>1, <3>1, <3>2
    <3> QED BY <1>1, <3>1, <3>3
  <2>3. ASSUME tok.s = name PROVE Belongs(q, m + 1, name)
    <3>1. \A k \in ((m + 1) + 1)..(m + 1) : FALSE
      BY <1>1
    <3> QED BY <1>1, <2>1, <2>3, <3>1 DEF Belongs
  <2> QED BY <1>3, <1>4, <2>2, <2>3 DEF m
<1>5. CASE ~IsTop(toks, tok)
  <2>1. m + 1 \notin TopNames(q)
    BY <1>2, <1>5
  <2>2. ASSUME Belongs(q, m + 1, name) PROVE Belongs(q, m, name)
    <3>1. PICK i \in 1..(m + 1) : i \in TopNames(q) /\ q[i].s = name /\ \A k \in (i + 1)..(m + 1) : k \notin TopNames(q)
      BY <2>2 DEF Belongs
    <3>2. i # m + 1
      BY <2>1, <3>1
    <3>3. i \in 1..m /\ \A k \in (i + 1)..m : k \in (i + 1)..(m + 1)
      BY <1>1, <3>2
    <3> QED BY <3>1, <3>3 DEF Belongs
  <2>3. ASSUME Belongs(q, m, name) PROVE Belongs(q, m + 1, name)
    <3>1. PICK i \in 1..m : i \in TopNames(q) /\ q[i].s = name /\ \A k \in (i + 1)..m : k \notin TopNames(q)
      BY <2>3 DEF Belongs
    <3>2. i \in 1..(m + 1) /\ \A k \in (i + 1)..(m + 1) : k = m + 1 \/ k \in (i + 1)..m
      BY <1>1
    <3>3. \A k \in (i + 1)..(m + 1) : k \notin TopNames(q)
      BY <2>1, <3>1, <3>2
    <3> QED BY <3>1, <3>2, <3>3 DEF Belongs
  <2>4. m \in 0..m
    BY <1>1
  <2> QED BY <1>3, <1>5, <2>2, <2>3, <2>4 DEF m
<1> QED BY <1>4, <1>5

(* The last name outside a table is one. *)
LEMMA BelongsOnce ==
    ASSUME NEW toks, NEW n \in Nat, NEW a, NEW b, Belongs(toks, n, a), Belongs(toks, n, b)
    PROVE  a = b
<1>1. PICK i \in 1..n : i \in TopNames(toks) /\ toks[i].s = a /\ \A k \in (i + 1)..n : k \notin TopNames(toks)
  BY DEF Belongs
<1>2. PICK j \in 1..n : j \in TopNames(toks) /\ toks[j].s = b /\ \A k \in (j + 1)..n : k \notin TopNames(toks)
  BY DEF Belongs
<1>3. i = j \/ i \in (j + 1)..n \/ j \in (i + 1)..n
  OBVIOUS
<1>4. i = j
  BY <1>1, <1>2, <1>3
<1> QED BY <1>1, <1>2, <1>4

Chars == DirectiveNames \cup {"a", "b", "__bool_true__", ""}

LEMMA TokenIs == ASSUME NEW tok \in Tok PROVE tok.s \in Chars
BY DEF Tok, Chars

LEMMA WordsNext ==
    ASSUME NEW s \in Seq(Tok), NEW x \in Tok
    PROVE  /\ Words(s) \in Seq(Chars) /\ Words(Append(s, x)) = Append(Words(s), x.s)
<1> DEFINE n == Len(s)
           w == Words(s)
           q == Append(s, x)
<1>1. n \in Nat /\ DOMAIN s = 1..n /\ DOMAIN q = 1..(n + 1) /\ q[n + 1] = x /\ \A i \in 1..n : q[i] = s[i]
  OBVIOUS
<1> HIDE DEF n, q
<1>2. w = [i \in 1..n |-> s[i].s] /\ Words(q) = [i \in 1..(n + 1) |-> q[i].s]
  BY <1>1 DEF Words
<1>3. \A i \in 1..n : s[i].s \in Chars
  BY TokenIs DEF n
<1>4. w \in Seq(Chars) /\ Len(w) = n
  BY <1>1, <1>2, <1>3
<1>5. x.s \in Chars
  BY TokenIs
<1>6. Append(w, x.s) = [i \in 1..(n + 1) |-> IF i = n + 1 THEN x.s ELSE w[i]]
  <2> HIDE DEF w
  <2> QED BY <1>1, <1>4, <1>5
<1>7. \A i \in 1..(n + 1) : q[i].s = IF i = n + 1 THEN x.s ELSE w[i]
  <2>1. \A i \in 1..(n + 1) : i # n + 1 => i \in 1..n
    BY <1>1
  <2> QED BY <1>1, <1>2, <2>1
<1> HIDE DEF w
<1>8. Words(q) = Append(w, x.s)
  BY <1>2, <1>6, <1>7
<1> QED BY <1>4, <1>8 DEF q, w

LEMMA WordsNone == Words(<<>>) = <<>>
BY DEF Words

(* What one more token adds to the names and to the strings declared. *)
LEMMA DeclaredNext ==
    ASSUME NEW toks \in Seq(Tok), NEW tok \in Tok, NEW q, q = Append(toks, tok), NEW name
    PROVE  /\ Declared(toks, name) \in Seq(Chars)
           /\ Declared(q, name) = IF tok.t = "Str" /\ Belongs(toks, Len(toks), name)
                                  THEN Append(Declared(toks, name), tok.s) ELSE Declared(toks, name)
<1> DEFINE m == Len(toks)
           K == {n \in DOMAIN toks : toks[n].t = "Str" /\ Belongs(toks, n, name)}
           L == {n \in DOMAIN q : q[n].t = "Str" /\ Belongs(q, n, name)}
           sel == Selected(toks, K)
<1>1. /\ m \in Nat /\ q[m + 1] = tok /\ (\A i \in 1..m : q[i] = toks[i])
      /\ DOMAIN toks = 1..m /\ DOMAIN q = 1..(m + 1) /\ m + 1 \in 1..(m + 1)
      /\ \A i \in 1..m : i \in 0..m /\ i \in 1..(m + 1)
  OBVIOUS
<1>2. \A n \in 0..m : Belongs(q, n, name) <=> Belongs(toks, n, name)
  BY BelongsNext
<1>3. tok.t = "Str" => (Belongs(q, m + 1, name) <=> Belongs(toks, m, name))
  <2>1. tok.t = "Str" => ~IsTop(toks, tok)
    BY DEF IsTop
  <2> QED BY <2>1, BelongsNext
<1>4. Declared(toks, name) = Words(sel) /\ Declared(q, name) = Words(Selected(q, L))
  BY DEF Declared
<1>5. \A i \in 1..Len(toks) : i \in K <=> i \in L
  BY <1>1, <1>2
<1>6. m + 1 \in L <=> tok.t = "Str" /\ Belongs(toks, m, name)
  BY <1>1, <1>3
<1> HIDE DEF K, L
<1>7. Selected(Append(toks, tok), L) = IF Len(toks) + 1 \in L THEN Append(sel, tok) ELSE sel
  BY <1>5, SelectedNext
<1>8. sel \in Seq(Tok)
  BY SelectionIs
<1> HIDE DEF sel
<1>9. Words(sel) \in Seq(Chars) /\ Words(Append(sel, tok)) = Append(Words(sel), tok.s)
  BY <1>8, WordsNext
<1> QED BY <1>4, <1>6, <1>7, <1>9

LEMMA TopWordsNext ==
    ASSUME NEW toks \in Seq(Tok), NEW tok \in Tok, NEW q, q = Append(toks, tok)
    PROVE  Words(Selected(q, TopNames(q))) =
               IF IsTop(toks, tok) THEN Append(Words(Selected(toks, TopNames(toks))), tok.s)
               ELSE Words(Selected(toks, TopNames(toks)))
<1> DEFINE K == TopNames(toks)
           L == TopNames(q)
           sel == Selected(toks, K)
<1>1. /\ \A i \in 1..Len(toks) : i \in K <=> i \in L
      /\ Len(toks) + 1 \in L <=> IsTop(toks, tok)
  BY TopNamesNext
<1> HIDE DEF K, L
<1>2. Selected(Append(toks, tok), L) = IF Len(toks) + 1 \in L THEN Append(sel, tok) ELSE sel
  BY <1>1, SelectedNext
<1>3. sel \in Seq(Tok)
  BY SelectionIs
<1> HIDE DEF sel
<1>4. Words(Append(sel, tok)) = Append(Words(sel), tok.s)
  BY <1>3, WordsNext
<1> QED BY <1>1, <1>2, <1>4 DEF sel, K, L

ManifestStrings == {"a", "b", "__bool_true__"}
Tables == {t \in [strs : Seq(ManifestStrings), key : DirectiveNames \cup {""}, size : Nat, lead : Nat,
                  seq : BOOLEAN, flat : BOOLEAN] : t.lead <= Len(t.strs)}
Places == {"name", "assign", "value", "fold", "entry", "key", "separator"}
Parsings == [at : Places, name : DirectiveNames \cup {""}, folded : BOOLEAN, label : Seq(ManifestStrings)]
Manifests == [fx_version : BOOLEAN, files : Seq(ManifestStrings), shared : Seq(ManifestStrings),
              data_files : Seq(ManifestStrings), custom : Seq(ManifestStrings), directives : Seq(DirectiveNames)]
ManifestValues == [shape : {"str", "bool", "table"}, strs : Seq(ManifestStrings), seq : BOOLEAN, flat : BOOLEAN, lead : Nat]
ListNames == {"files", "shared_scripts", "custom"}
ListOf(man, x) == IF x = "files" THEN man.files ELSE IF x = "shared_scripts" THEN man.shared ELSE man.custom

(* The strings in open tables. *)
StrsIn(tabs) == [i \in 1..Len(tabs) |-> tabs[i].strs]
StrsOf(tabs) == Concat(Len(tabs), StrsIn(tabs))

LEMMA TablesAre ==
    ASSUME NEW t \in Tables
    PROVE  /\ t.strs \in Seq(ManifestStrings) /\ Len(t.strs) \in Nat /\ t.key \in DirectiveNames \cup {""}
           /\ t.size \in Nat /\ t.lead \in Nat /\ t.seq \in BOOLEAN /\ t.flat \in BOOLEAN /\ t.lead <= Len(t.strs)
<1>1. t \in [strs : Seq(ManifestStrings), key : DirectiveNames \cup {""}, size : Nat, lead : Nat,
             seq : BOOLEAN, flat : BOOLEAN] /\ t.lead <= Len(t.strs)
  BY DEF Tables
<1>2. /\ t.strs \in Seq(ManifestStrings) /\ t.key \in DirectiveNames \cup {""}
      /\ t.size \in Nat /\ t.lead \in Nat /\ t.seq \in BOOLEAN /\ t.flat \in BOOLEAN
  BY <1>1
<1>3. Len(t.strs) \in Nat
  <2>1. \A s \in Seq(ManifestStrings) : Len(s) \in Nat
    OBVIOUS
  <2> QED BY <1>2, <2>1
<1> QED BY <1>1, <1>2, <1>3

LEMMA StrsJoin ==
    ASSUME NEW tabs \in Seq(Tables)
    PROVE  Joinable(ManifestStrings, Len(tabs), StrsIn(tabs)) /\ StrsOf(tabs) \in Seq(ManifestStrings)
<1>1. \A i \in 1..Len(tabs) : StrsIn(tabs)[i] \in Seq(ManifestStrings)
  <2>1. \A i \in 1..Len(tabs) : tabs[i] \in Tables
    OBVIOUS
  <2>2. \A i \in 1..Len(tabs) : tabs[i].strs \in Seq(ManifestStrings)
    BY <2>1, TablesAre
  <2>3. \A i \in 1..Len(tabs) : StrsIn(tabs)[i] = tabs[i].strs
    BY DEF StrsIn
  <2> QED BY <2>2, <2>3
<1>2. Len(tabs) \in Nat
  OBVIOUS
<1>3. Concat(Len(tabs), StrsIn(tabs)) \in Seq(ManifestStrings)
  BY <1>1, <1>2, ConcatType
<1> QED BY <1>1, <1>3 DEF Joinable, StrsOf

LEMMA StrsNone == StrsOf(<<>>) = <<>>
<1>1. Len(<<>>) = 0
  OBVIOUS
<1> QED BY <1>1, ConcatNone DEF StrsOf

LEMMA StrsAppend ==
    ASSUME NEW tabs \in Seq(Tables), NEW t \in Tables
    PROVE  StrsOf(Append(tabs, t)) = StrsOf(tabs) \o t.strs
<1> DEFINE q == Append(tabs, t)
           n == Len(tabs)
           g == StrsIn(tabs)
           h == StrsIn(q)
<1>1. n \in Nat /\ q \in Seq(Tables) /\ Len(q) = n + 1 /\ q[n + 1] = t /\ (\A i \in 1..n : q[i] = tabs[i])
  OBVIOUS
<1> HIDE DEF q
<1>2. Joinable(ManifestStrings, n, g) /\ Joinable(ManifestStrings, n + 1, h)
  BY <1>1, StrsJoin
<1>3. /\ \A i \in 1..n : g[i] = tabs[i].strs
      /\ \A i \in 1..(n + 1) : h[i] = q[i].strs
  BY <1>1 DEF StrsIn
<1>4. n + 1 \in 1..(n + 1) /\ \A i \in 1..n : i \in 1..(n + 1)
  BY <1>1
<1>5. Alike(n, g, h) /\ h[n + 1] = t.strs
  BY <1>1, <1>3, <1>4 DEF Alike
<1> HIDE DEF g, h, n
<1>6. Concat(n, g) = Concat(n, h)
  BY <1>1, <1>2, <1>5, ConcatAlike
<1>7. Concat(n + 1, h) = Concat(n, h) \o h[n + 1]
  BY <1>1, <1>2, ConcatNext DEF Joinable
<1> QED BY <1>1, <1>5, <1>6, <1>7 DEF StrsOf, g, h, n, q

LEMMA StrsLast ==
    ASSUME NEW tabs \in Seq(Tables), tabs # <<>>
    PROVE  /\ StrsOf(tabs) = StrsOf(Front(tabs)) \o Last(tabs).strs
           /\ Front(tabs) \in Seq(Tables) /\ Last(tabs) \in Tables /\ Len(Front(tabs)) = Len(tabs) - 1
<1>1. Front(tabs) \in Seq(Tables) /\ Last(tabs) \in Tables /\ Len(Front(tabs)) = Len(tabs) - 1
  BY FrontIs
<1>2. tabs = Append(Front(tabs), Last(tabs))
  BY FrontLast
<1>3. StrsOf(Append(Front(tabs), Last(tabs))) = StrsOf(Front(tabs)) \o Last(tabs).strs
  BY <1>1, StrsAppend
<1> QED BY <1>1, <1>2, <1>3

-----------------------------------------------------------------------------
(* Where the parser stands. *)

PlaceFits(par, tabs) ==
    /\ par.at \in {"name", "assign", "fold"} => tabs = <<>>
    /\ par.at \in {"entry", "key", "separator"} => tabs # <<>>
    /\ par.at # "name" => par.name \in DirectiveNames
    /\ par.at \notin {"name", "fold"} /\ ~par.folded => par.label = <<>>

ParserFits(tabs, par, man) ==
    tabs \in Seq(Tables) /\ par \in Parsings /\ man \in Manifests /\ PlaceFits(par, tabs)

(* The names and strings taken over so far, with the directive in work. *)
NamedBy(man, par) == IF par.at = "name" THEN man.directives ELSE Append(man.directives, par.name)
Collected(man, par, tabs, x) ==
    IF par.at # "name" /\ par.name = x THEN ListOf(man, x) \o (par.label \o StrsOf(tabs)) ELSE ListOf(man, x)

LEMMA ParsingsAre ==
    ASSUME NEW p \in Parsings
    PROVE  /\ p.at \in Places /\ p.name \in DirectiveNames \cup {""} /\ p.folded \in BOOLEAN /\ p.label \in Seq(ManifestStrings)
           /\ \A a \in Places : LET q == [p EXCEPT !.at = a] IN
                  q \in Parsings /\ q.at = a /\ q.name = p.name /\ q.folded = p.folded /\ q.label = p.label
BY DEF Parsings

LEMMA ManifestsAre ==
    ASSUME NEW m \in Manifests
    PROVE  /\ m.fx_version \in BOOLEAN /\ m.files \in Seq(ManifestStrings) /\ m.shared \in Seq(ManifestStrings)
           /\ m.data_files \in Seq(ManifestStrings) /\ m.custom \in Seq(ManifestStrings) /\ m.directives \in Seq(DirectiveNames)
BY DEF Manifests

(* What apply does to the manifest. *)
ManifestApplied(v) ==
    /\ manifestStatus' = manifestStatus /\ parsing' = At("name") /\ manifest' \in Manifests
    /\ manifest'.directives = Append(manifest.directives, parsing.name)
    /\ \A x \in ListNames : ListOf(manifest', x) = IF parsing.name = x THEN ListOf(manifest, x) \o v.strs ELSE ListOf(manifest, x)

LEMMA ApplyManifestIs ==
    ASSUME manifest \in Manifests, parsing.name \in DirectiveNames, NEW v \in ManifestValues,
           v.shape = "table" /\ v.lead >= 2 => Len(v.strs) >= 2, apply_manifest(v)
    PROVE  manifestStatus' = "InvalidValue" \/ ManifestApplied(v)
<1> DEFINE d == Append(manifest.directives, parsing.name)
           m == [manifest EXCEPT !.directives = d]
           Done(m2) == manifest' = m2 /\ parsing' = At("name") /\ UNCHANGED manifestStatus
           Invalid == manifestStatus' = "InvalidValue"
<1>1. v.strs \in Seq(ManifestStrings) /\ v.shape \in {"str", "bool", "table"} /\ v.lead \in Nat
  BY DEF ManifestValues
<1>2. d \in Seq(DirectiveNames)
  BY ManifestsAre
<1>3. manifest.files \o v.strs \in Seq(ManifestStrings) /\ manifest.shared \o v.strs \in Seq(ManifestStrings)
      /\ manifest.custom \o v.strs \in Seq(ManifestStrings)
  BY <1>1, ManifestsAre
<1>4. \/ parsing.name = "fx_version" /\ Done([m EXCEPT !.fx_version = (v.shape = "str")])
      \/ parsing.name = "files" /\ (Invalid \/ Done([m EXCEPT !.files = manifest.files \o v.strs]))
      \/ parsing.name = "shared_scripts" /\ (Invalid \/ Done([m EXCEPT !.shared = manifest.shared \o v.strs]))
      \/ /\ parsing.name = "data_file"
         /\ Invalid \/ (v.shape = "table" /\ v.lead >= 2 /\ Done([m EXCEPT !.data_files = Append(manifest.data_files, v.strs[2])]))
      \/ parsing.name = "custom" /\ Done([m EXCEPT !.custom = manifest.custom \o v.strs])
  BY DEF apply_manifest, DirectiveNames, coerce_string_list
<1> HIDE DEF d
<1>5. m \in Manifests /\ m.files = manifest.files /\ m.shared = manifest.shared /\ m.custom = manifest.custom
      /\ m.data_files = manifest.data_files /\ m.directives = d
  BY <1>2 DEF Manifests
<1> HIDE DEF m
<1>6. CASE parsing.name = "fx_version" /\ Done([m EXCEPT !.fx_version = (v.shape = "str")])
  <2> DEFINE b == v.shape = "str"
             n == [m EXCEPT !.fx_version = b]
  <2>1. b \in BOOLEAN
    OBVIOUS
  <2> HIDE DEF b
  <2>2. n \in Manifests /\ n.files = m.files /\ n.shared = m.shared /\ n.custom = m.custom /\ n.directives = m.directives
    BY <1>5, <2>1 DEF Manifests
  <2>3. manifest' = n /\ parsing' = At("name") /\ manifestStatus' = manifestStatus
    BY <1>6 DEF b
  <2> HIDE DEF n
  <2> QED BY <1>5, <1>6, <2>2, <2>3 DEF ManifestApplied, ListOf, ListNames, d
<1>7. CASE parsing.name = "files" /\ Done([m EXCEPT !.files = manifest.files \o v.strs])
  <2> DEFINE n == [m EXCEPT !.files = manifest.files \o v.strs]
  <2>1. n \in Manifests /\ n.files = manifest.files \o v.strs /\ n.shared = m.shared /\ n.custom = m.custom /\ n.directives = m.directives
    BY <1>3, <1>5 DEF Manifests
  <2>2. manifest' = n /\ parsing' = At("name") /\ manifestStatus' = manifestStatus
    BY <1>7
  <2> HIDE DEF n
  <2> QED BY <1>5, <1>7, <2>1, <2>2 DEF ManifestApplied, ListOf, ListNames, d
<1>8. CASE parsing.name = "shared_scripts" /\ Done([m EXCEPT !.shared = manifest.shared \o v.strs])
  <2> DEFINE n == [m EXCEPT !.shared = manifest.shared \o v.strs]
  <2>1. n \in Manifests /\ n.files = m.files /\ n.shared = manifest.shared \o v.strs /\ n.custom = m.custom /\ n.directives = m.directives
    BY <1>3, <1>5 DEF Manifests
  <2>2. manifest' = n /\ parsing' = At("name") /\ manifestStatus' = manifestStatus
    BY <1>8
  <2> HIDE DEF n
  <2> QED BY <1>5, <1>8, <2>1, <2>2 DEF ManifestApplied, ListOf, ListNames, d
<1>9. CASE /\ parsing.name = "data_file"
           /\ v.shape = "table" /\ v.lead >= 2 /\ Done([m EXCEPT !.data_files = Append(manifest.data_files, v.strs[2])])
  <2> DEFINE f == Append(manifest.data_files, v.strs[2])
             n == [m EXCEPT !.data_files = f]
  <2>1. f \in Seq(ManifestStrings)
    <3>1. v.strs[2] \in ManifestStrings
      <4> DEFINE S == ManifestStrings
                 s == v.strs
      <4>1. s \in Seq(S) /\ Len(s) >= 2
        BY <1>1, <1>9
      <4> HIDE DEF S, s
      <4>2. s[2] \in S
        BY <4>1
      <4> QED BY <4>2 DEF S, s
    <3>2. manifest.data_files \in Seq(ManifestStrings)
      BY ManifestsAre
    <3> QED BY <3>1, <3>2
  <2> HIDE DEF f
  <2>2. n \in Manifests /\ n.files = m.files /\ n.shared = m.shared /\ n.custom = m.custom /\ n.directives = m.directives
    BY <1>5, <2>1 DEF Manifests
  <2>3. manifest' = n /\ parsing' = At("name") /\ manifestStatus' = manifestStatus
    BY <1>9 DEF f
  <2> HIDE DEF n
  <2> QED BY <1>5, <1>9, <2>2, <2>3 DEF ManifestApplied, ListOf, ListNames, d
<1>10. CASE parsing.name = "custom" /\ Done([m EXCEPT !.custom = manifest.custom \o v.strs])
  <2> DEFINE n == [m EXCEPT !.custom = manifest.custom \o v.strs]
  <2>1. n \in Manifests /\ n.files = m.files /\ n.shared = m.shared /\ n.custom = manifest.custom \o v.strs /\ n.directives = m.directives
    BY <1>3, <1>5 DEF Manifests
  <2>2. manifest' = n /\ parsing' = At("name") /\ manifestStatus' = manifestStatus
    BY <1>10
  <2> HIDE DEF n
  <2> QED BY <1>5, <1>10, <2>1, <2>2 DEF ManifestApplied, ListOf, ListNames, d
<1> QED BY <1>4, <1>6, <1>7, <1>8, <1>9, <1>10

(* What the delivery of a value v to the open tables does. *)
Delivered(v, open) ==
    /\ manifestStatus' = manifestStatus
    /\ ParserFits(tables', parsing', manifest') /\ Len(tables') = Len(open)
    /\ parsing'.at # "name" => parsing'.name = parsing.name
    /\ NamedBy(manifest', parsing') = Append(manifest.directives, parsing.name)
    /\ \A x \in ListNames : Collected(manifest', parsing', tables', x) =
           IF parsing.name = x THEN ListOf(manifest, x) \o (parsing.label \o (StrsOf(open) \o v.strs)) ELSE ListOf(manifest, x)

LEMMA ListTypes == ASSUME NEW m \in Manifests, NEW x PROVE ListOf(m, x) \in Seq(ManifestStrings)
BY ManifestsAre DEF ListOf

(* A value for the directive, with no table open. *)
LEMMA AppliedDelivers ==
    ASSUME manifest \in Manifests, parsing \in Parsings, tables' = <<>>, NEW v \in ManifestValues, NEW w, ManifestApplied(w),
           w.strs = parsing.label \o v.strs
    PROVE  Delivered(v, <<>>)
<1> DEFINE S == ManifestStrings
           E == <<>>
<1>1. /\ manifestStatus' = manifestStatus /\ parsing' = At("name") /\ manifest' \in Manifests
      /\ manifest'.directives = Append(manifest.directives, parsing.name)
      /\ \A x \in ListNames : ListOf(manifest', x) = IF parsing.name = x THEN ListOf(manifest, x) \o w.strs ELSE ListOf(manifest, x)
  BY DEF ManifestApplied
<1>2. "name" \in Places
  BY DEF Places
<1>3. parsing' \in Parsings /\ parsing'.at = "name"
  BY <1>1, <1>2, ParsingsAre DEF At
<1>4. E \in Seq(Tables) /\ Len(E) = Len(E)
  OBVIOUS
<1>5. ParserFits(tables', parsing', manifest')
  BY <1>1, <1>3, <1>4 DEF ParserFits, PlaceFits
<1>6. v.strs \in Seq(S)
  BY DEF ManifestValues
<1>7. StrsOf(E) \o v.strs = v.strs
  BY <1>6, StrsNone, JoinEmpty
<1>8. w.strs = parsing.label \o (StrsOf(E) \o v.strs)
  BY <1>7
<1> QED BY <1>1, <1>3, <1>5, <1>8 DEF Delivered, NamedBy, Collected

LEMMA DeliverIs ==
    ASSUME NEW open \in Seq(Tables), parsing \in Parsings, parsing.at \in {"value", "entry", "separator"},
           parsing.name \in DirectiveNames, ~parsing.folded => parsing.label = <<>>, manifest \in Manifests,
           NEW v \in ManifestValues, IF v.shape = "table" THEN v.lead <= Len(v.strs) ELSE Len(v.strs) = 1, Deliver(v, open)
    PROVE  manifestStatus' = "InvalidValue" \/ Delivered(v, open)
<1> DEFINE S == ManifestStrings
           E == <<>>
<1>1. v.strs \in Seq(S) /\ v.shape \in {"str", "bool", "table"} /\ v.lead \in Nat /\ Len(v.strs) \in Nat
  <2>1. v.strs \in Seq(S) /\ v.shape \in {"str", "bool", "table"} /\ v.lead \in Nat
    BY DEF ManifestValues
  <2>2. \A s \in Seq(S) : Len(s) \in Nat
    OBVIOUS
  <2> QED BY <2>1, <2>2
<1>2. parsing.label \in Seq(S)
  BY ParsingsAre
<1>3. CASE open = E /\ v.shape = "str" /\ ~parsing.folded
  <2>1. tables' = E /\ parsing' = [At("fold") EXCEPT !.label = v.strs] /\ manifest' = manifest /\ manifestStatus' = manifestStatus
    BY <1>3 DEF Deliver
  <2>2. parsing' \in Parsings /\ parsing'.at = "fold" /\ parsing'.label = v.strs /\ parsing'.name = parsing.name
    BY <1>1, <2>1 DEF At, Parsings, Places
  <2>3. E \in Seq(Tables)
    OBVIOUS
  <2>4. ParserFits(tables', parsing', manifest')
    BY <2>1, <2>2, <2>3 DEF ParserFits, PlaceFits
  <2>5. parsing.label \o (StrsOf(E) \o v.strs) = v.strs
    <3>1. StrsOf(E) \o v.strs = v.strs
      BY <1>1, StrsNone, JoinEmpty
    <3>2. E \o v.strs = v.strs
      BY <1>1, JoinEmpty
    <3> QED BY <1>3, <3>1, <3>2
  <2>6. parsing'.label \o StrsOf(E) = v.strs
    BY <1>1, <2>2, StrsNone, JoinEmpty
  <2>7. NamedBy(manifest', parsing') = Append(manifest.directives, parsing.name)
    BY <2>1, <2>2 DEF NamedBy
  <2>8. \A x \in ListNames : Collected(manifest', parsing', tables', x) =
            IF parsing.name = x THEN ListOf(manifest, x) \o (parsing.label \o (StrsOf(open) \o v.strs)) ELSE ListOf(manifest, x)
    <3> SUFFICES ASSUME NEW x \in ListNames
                 PROVE  Collected(manifest', parsing', tables', x) =
                          IF parsing.name = x THEN ListOf(manifest, x) \o (parsing.label \o (StrsOf(open) \o v.strs)) ELSE ListOf(manifest, x)
      OBVIOUS
    <3>1. Collected(manifest', parsing', tables', x) =
              IF parsing.name = x THEN ListOf(manifest, x) \o (parsing'.label \o StrsOf(tables')) ELSE ListOf(manifest, x)
      BY <2>1, <2>2 DEF Collected
    <3>2. parsing'.label \o StrsOf(tables') = v.strs
      BY <2>1, <2>6
    <3>3. parsing.label \o (StrsOf(open) \o v.strs) = v.strs
      BY <1>3, <2>5
    <3> QED BY <3>1, <3>2, <3>3
  <2> QED BY <1>3, <2>1, <2>2, <2>4, <2>7, <2>8 DEF Delivered
<1>4. CASE open = E /\ ~(v.shape = "str" /\ ~parsing.folded) /\ ~parsing.folded
  <2>1. tables' = E /\ apply_manifest(v)
    BY <1>4 DEF Deliver
  <2>2. v.shape = "table" /\ v.lead >= 2 => Len(v.strs) >= 2
    BY <1>1
  <2>3. manifestStatus' = "InvalidValue" \/ ManifestApplied(v)
    BY <2>1, <2>2, ApplyManifestIs
  <2>4. v.strs = parsing.label \o v.strs
    BY <1>1, <1>4, JoinEmpty
  <2> QED BY <1>4, <2>1, <2>3, <2>4, AppliedDelivers
<1>5. CASE open = E /\ parsing.folded
  <2> DEFINE w == [shape |-> "table", strs |-> parsing.label \o v.strs, seq |-> TRUE, flat |-> FALSE, lead |-> 1]
  <2>1. tables' = E /\ apply_manifest(w)
    BY <1>5 DEF Deliver
  <2>2. parsing.label \o v.strs \in Seq(S)
    BY <1>1, <1>2, JoinedIs
  <2>3. w \in ManifestValues /\ ~(w.lead >= 2) /\ w.strs = parsing.label \o v.strs
    BY <2>2 DEF ManifestValues
  <2> HIDE DEF w
  <2>4. manifestStatus' = "InvalidValue" \/ ManifestApplied(w)
    BY <2>1, <2>3, ApplyManifestIs
  <2> QED BY <1>5, <2>1, <2>3, <2>4, AppliedDelivers
<1>6. CASE open # E
  <2> DEFINE top == Last(open)
             lead == IF top.lead = top.size /\ v.shape = "str" THEN top.lead + 1 ELSE top.lead
             sq == top.seq /\ ~(top.key # "")
             fl == top.flat /\ v.shape # "table"
             s == top.strs \o v.strs
             t == [strs |-> s, key |-> "", size |-> top.size + 1, lead |-> lead, seq |-> sq, flat |-> fl]
             r == Append(Front(open), t)
  <2>1. tables' = r /\ parsing' = At("separator") /\ manifest' = manifest /\ manifestStatus' = manifestStatus
    BY <1>6 DEF Deliver
  <2>2. top \in Tables /\ Front(open) \in Seq(Tables) /\ StrsOf(open) = StrsOf(Front(open)) \o top.strs /\ Len(Front(open)) = Len(open) - 1
    BY <1>6, StrsLast
  <2>3. /\ top.strs \in Seq(S) /\ Len(top.strs) \in Nat /\ top.size \in Nat /\ top.lead \in Nat
        /\ top.seq \in BOOLEAN /\ top.flat \in BOOLEAN /\ top.lead <= Len(top.strs)
    BY <2>2, TablesAre
  <2> HIDE DEF top
  <2>4. s \in Seq(S) /\ Len(s) = Len(top.strs) + Len(v.strs)
    BY <1>1, <2>3, JoinedIs
  <2> HIDE DEF s
  <2>5. lead \in Nat /\ lead <= Len(s) /\ sq \in BOOLEAN /\ fl \in BOOLEAN
    <3>1. v.shape = "str" => Len(v.strs) = 1
      OBVIOUS
    <3>2. lead \in Nat
      BY <2>3
    <3> DEFINE a == top.lead
               b == Len(top.strs)
               c == Len(v.strs)
               d == Len(s)
    <3>3. a \in Nat /\ b \in Nat /\ c \in Nat /\ a <= b /\ d = b + c
      BY <1>1, <2>3, <2>4
    <3>4. lead = a \/ (lead = a + 1 /\ c = 1)
      BY <3>1
    <3> HIDE DEF a, b, c, d, lead
    <3>5. lead <= d
      BY <3>3, <3>4
    <3> QED BY <2>3, <3>2, <3>5 DEF d
  <2> HIDE DEF lead, sq, fl
  <2>6. t \in Tables /\ t.strs = s
    <3>1. t \in [strs : Seq(S), key : DirectiveNames \cup {""}, size : Nat, lead : Nat, seq : BOOLEAN, flat : BOOLEAN]
      BY <2>3, <2>4, <2>5
    <3>2. t.strs = s /\ t.lead = lead
      OBVIOUS
    <3> QED BY <2>5, <3>1, <3>2 DEF Tables
  <2> HIDE DEF t
  <2>7. r \in Seq(Tables) /\ Len(r) = Len(open) /\ r # E
    <3>1. r \in Seq(Tables) /\ Len(r) = Len(open)
      BY <1>6, <2>6, ReplaceLast
    <3>2. Len(open) # 0
      BY <1>6
    <3> QED BY <3>1, <3>2
  <2>8. StrsOf(r) = StrsOf(open) \o v.strs
    <3> DEFINE a == StrsOf(Front(open))
               b == top.strs
               c == v.strs
    <3>1. StrsOf(r) = a \o s /\ StrsOf(open) = a \o b
      BY <2>2, <2>6, StrsAppend
    <3>2. a \in Seq(S) /\ b \in Seq(S) /\ c \in Seq(S) /\ s = b \o c
      BY <1>1, <2>2, <2>3, StrsJoin DEF s
    <3> HIDE DEF a, b, c, S
    <3>3. (a \o b) \o c = a \o (b \o c)
      BY <3>2, JoinAssociative
    <3> QED BY <3>1, <3>2, <3>3 DEF c
  <2> HIDE DEF r
  <2>9. "separator" \in Places
    BY DEF Places
  <2>10. /\ parsing' \in Parsings /\ parsing'.at = "separator" /\ parsing'.name = parsing.name
         /\ parsing'.folded = parsing.folded /\ parsing'.label = parsing.label
    BY <2>1, <2>9, ParsingsAre DEF At
  <2>11. ParserFits(tables', parsing', manifest')
    BY <2>1, <2>7, <2>10 DEF ParserFits, PlaceFits
  <2>12. NamedBy(manifest', parsing') = Append(manifest.directives, parsing.name)
    BY <2>1, <2>10 DEF NamedBy
  <2>13. \A x \in ListNames : Collected(manifest', parsing', tables', x) =
             IF parsing.name = x THEN ListOf(manifest, x) \o (parsing.label \o (StrsOf(open) \o v.strs)) ELSE ListOf(manifest, x)
    BY <2>1, <2>8, <2>10 DEF Collected
  <2> QED BY <2>1, <2>7, <2>10, <2>11, <2>12, <2>13 DEF Delivered
<1> QED BY <1>3, <1>4, <1>5, <1>6

(* The manifest so far is what the tokens so far say. *)
Grammar(toks, tabs, par, man) ==
    /\ toks \in Seq(Tok) /\ ParserFits(tabs, par, man)
    /\ Depth(toks, Len(toks)) = Len(tabs) /\ \A n \in 1..Len(toks) : Depth(toks, n) >= 0
    /\ Words(Selected(toks, TopNames(toks))) = NamedBy(man, par)
    /\ par.at # "name" => Belongs(toks, Len(toks), par.name)
    /\ \A x \in ListNames : Declared(toks, x) = Collected(man, par, tabs, x)

(* A step within a directive that takes tok. *)
Moves(tok) ==
    /\ ParserFits(tables', parsing', manifest') /\ Len(tables') = Len(tables) + Opens(tok)
    /\ NamedBy(manifest', parsing') = NamedBy(manifest, parsing)
    /\ parsing'.at # "name" => parsing'.name = parsing.name
    /\ \A x \in ListNames : Collected(manifest', parsing', tables', x) =
           IF tok.t = "Str" /\ parsing.name = x THEN Append(Collected(manifest, parsing, tables, x), tok.s)
           ELSE Collected(manifest, parsing, tables, x)

LEMMA DepthGrows ==
    ASSUME NEW toks \in Seq(Tok), NEW tok \in Tok, NEW q, q = Append(toks, tok),
           Depth(toks, Len(toks)) + Opens(tok) >= 0, \A n \in 1..Len(toks) : Depth(toks, n) >= 0
    PROVE  /\ q \in Seq(Tok) /\ Len(q) = Len(toks) + 1
           /\ Depth(q, Len(q)) = Depth(toks, Len(toks)) + Opens(tok) /\ \A n \in 1..Len(q) : Depth(q, n) >= 0
<1> DEFINE m == Len(toks)
<1>1. m \in Nat /\ q \in Seq(Tok) /\ Len(q) = m + 1
  OBVIOUS
<1>2. (\A n \in 0..m : Depth(q, n) = Depth(toks, n)) /\ Depth(q, m + 1) = Depth(toks, m) + Opens(tok)
  BY DepthNext
<1> HIDE DEF m
<1>3. \A n \in 1..(m + 1) : n = m + 1 \/ (n \in 0..m /\ n \in 1..m)
  BY <1>1
<1>4. \A n \in 1..(m + 1) : Depth(q, n) >= 0
  BY <1>2, <1>3 DEF m
<1> QED BY <1>1, <1>2, <1>4 DEF m

LEMMA TakenStep ==
    ASSUME Grammar(tokens, tables, parsing, manifest), parsing.at # "name", NEW tok \in Tok, ~IsTop(tokens, tok),
           Moves(tok), tokens' = Append(tokens, tok)
    PROVE  Grammar(tokens', tables', parsing', manifest')
<1> DEFINE q == tokens'
<1>1. /\ tokens \in Seq(Tok) /\ ParserFits(tables, parsing, manifest)
      /\ Depth(tokens, Len(tokens)) = Len(tables) /\ \A n \in 1..Len(tokens) : Depth(tokens, n) >= 0
  BY DEF Grammar
<1>2. ParserFits(tables', parsing', manifest') /\ Len(tables') = Len(tables) + Opens(tok)
  BY DEF Moves
<1>3. Len(tables') >= 0
  <2>1. tables' \in Seq(Tables)
    BY <1>2 DEF ParserFits
  <2>2. \A s \in Seq(Tables) : Len(s) >= 0
    OBVIOUS
  <2> QED BY <2>1, <2>2
<1>4. q \in Seq(Tok) /\ Len(q) = Len(tokens) + 1 /\ Depth(q, Len(q)) = Len(tables') /\ \A n \in 1..Len(q) : Depth(q, n) >= 0
  <2>1. q = Append(tokens, tok)
    OBVIOUS
  <2> HIDE DEF q
  <2>2. Depth(tokens, Len(tokens)) + Opens(tok) >= 0
    BY <1>1, <1>2, <1>3
  <2>3. /\ q \in Seq(Tok) /\ Len(q) = Len(tokens) + 1
        /\ Depth(q, Len(q)) = Depth(tokens, Len(tokens)) + Opens(tok) /\ \A n \in 1..Len(q) : Depth(q, n) >= 0
    BY <1>1, <2>1, <2>2, DepthGrows
  <2> QED BY <1>1, <1>2, <2>3
<1>5. Words(Selected(q, TopNames(q))) = NamedBy(manifest', parsing')
  <2>1. q = Append(tokens, tok)
    OBVIOUS
  <2> HIDE DEF q
  <2>2. Words(Selected(q, TopNames(q))) = Words(Selected(tokens, TopNames(tokens)))
    BY <1>1, <2>1, TopWordsNext
  <2> QED BY <2>2 DEF Grammar, Moves
<1>6. parsing'.at # "name" => Belongs(q, Len(q), parsing'.name)
  <2>1. q = Append(tokens, tok)
    OBVIOUS
  <2> HIDE DEF q
  <2>2. Belongs(q, Len(tokens) + 1, parsing.name) <=> Belongs(tokens, Len(tokens), parsing.name)
    BY <1>1, <2>1, BelongsNext
  <2> QED BY <1>4, <2>2 DEF Grammar, Moves
<1>7. ASSUME NEW x \in ListNames PROVE Declared(q, x) = Collected(manifest', parsing', tables', x)
  <2>1. q = Append(tokens, tok)
    OBVIOUS
  <2> HIDE DEF q
  <2>2. Declared(q, x) = IF tok.t = "Str" /\ Belongs(tokens, Len(tokens), x)
                         THEN Append(Declared(tokens, x), tok.s) ELSE Declared(tokens, x)
    BY <1>1, <2>1, DeclaredNext, ZenonT(30)
  <2>3. Len(tokens) \in Nat
    BY <1>1
  <2>4. Belongs(tokens, Len(tokens), parsing.name)
    BY DEF Grammar
  <2>5. Belongs(tokens, Len(tokens), x) <=> parsing.name = x
    BY <2>3, <2>4, BelongsOnce
  <2>6. Declared(tokens, x) = Collected(manifest, parsing, tables, x)
    BY DEF Grammar
  <2> QED BY <2>2, <2>5, <2>6 DEF Moves
<1> QED BY <1>2, <1>4, <1>5, <1>6, <1>7 DEF Grammar

(* A step within a directive that takes no token. *)
LEMMA StillStep ==
    ASSUME Grammar(tokens, tables, parsing, manifest), parsing.at # "name", tokens' = tokens,
           ParserFits(tables', parsing', manifest'), tables' = tables,
           NamedBy(manifest', parsing') = NamedBy(manifest, parsing),
           parsing'.at # "name" => parsing'.name = parsing.name,
           \A x \in ListNames : Collected(manifest', parsing', tables', x) = Collected(manifest, parsing, tables, x)
    PROVE  Grammar(tokens', tables', parsing', manifest')
BY DEF Grammar

LEMMA PeekedIs ==
    ASSUME peeked # <<>> => peeked[1] \in Tok \cup {EndOfText}, NEW kind, kind # "End", Sees(kind)
    PROVE  peeked[1] \in Tok /\ peeked[1].t = kind
<1>1. EndOfText.t = "End"
  BY DEF EndOfText
<1>2. peeked # <<>> /\ peeked[1].t = kind
  BY DEF Sees
<1> QED BY <1>1, <1>2

(* The parser moves on within the directive, in the same tables. *)
LEMMA PlaceMoves ==
    ASSUME Grammar(tokens, tables, parsing, manifest), parsing.at # "name", NEW tabs \in Seq(Tables),
           StrsOf(tabs) = StrsOf(tables), tables' = tabs,
           NEW a \in Places, a # "name", parsing' = At(a), manifest' = manifest, PlaceFits(parsing', tabs)
    PROVE  /\ ParserFits(tables', parsing', manifest')
           /\ NamedBy(manifest', parsing') = NamedBy(manifest, parsing)
           /\ parsing'.at # "name" => parsing'.name = parsing.name
           /\ \A x \in ListNames : Collected(manifest', parsing', tables', x) = Collected(manifest, parsing, tables, x)
<1>1. parsing \in Parsings /\ manifest \in Manifests
  BY DEF Grammar, ParserFits
<1>2. /\ parsing' \in Parsings /\ parsing'.at = a /\ parsing'.name = parsing.name /\ parsing'.folded = parsing.folded
      /\ parsing'.label = parsing.label
  BY <1>1, ParsingsAre DEF At
<1> QED BY <1>1, <1>2 DEF ParserFits, NamedBy, Collected

ManifestInv ==
    /\ peeked # <<>> => peeked[1] \in Tok \cup {EndOfText}
    /\ manifestStatus \in {"parsing", "ok"} => Grammar(tokens, tables, parsing, manifest)
    /\ manifestStatus = "ok" => parsing.at = "name"

LEMMA ManifestInvInit == ManifestInit => ManifestInv
<1> SUFFICES ASSUME ManifestInit PROVE ManifestInv
  OBVIOUS
<1> DEFINE E == <<>>
<1>1. /\ tokens = E /\ peeked = E /\ tables = E /\ manifestStatus = "parsing"
      /\ parsing = [at |-> "name", name |-> "", folded |-> FALSE, label |-> E]
      /\ manifest = [fx_version |-> FALSE, files |-> E, shared |-> E, data_files |-> E, custom |-> E, directives |-> E]
  BY DEF ManifestInit
<1>2. /\ E \in Seq(Tok) /\ Len(E) = 0 /\ E \in Seq(ManifestStrings) /\ E \in Seq(DirectiveNames) /\ E \in Seq(Tables)
      /\ DOMAIN E = {}
  OBVIOUS
<1> HIDE DEF E
<1>3. parsing \in Parsings /\ parsing.at = "name" /\ manifest \in Manifests
      /\ manifest.files = E /\ manifest.shared = E /\ manifest.custom = E /\ manifest.directives = E
  BY <1>1, <1>2 DEF Parsings, Places, Manifests
<1>4. ParserFits(tables, parsing, manifest)
  BY <1>1, <1>2, <1>3 DEF ParserFits, PlaceFits, E
<1>5. Depth(E, 0) = 0
  <2>1. OpensOf(E, 0) \in [1..0 -> Int]
    BY OpensType
  <2> QED BY <2>1, DepthIs, SumToNone
<1>6. \A K : Words(Selected(E, K)) = E
  BY SelectedNone, WordsNone DEF E
<1>7. \A x \in ListNames : Declared(E, x) = Collected(manifest, parsing, tables, x)
  BY <1>3, <1>6 DEF Declared, Collected, ListOf
<1>8. \A n \in 1..Len(E) : FALSE
  BY <1>2
<1>9. Grammar(tokens, tables, parsing, manifest)
  BY <1>1, <1>2, <1>3, <1>4, <1>5, <1>6, <1>7, <1>8 DEF Grammar, NamedBy
<1> QED BY <1>1, <1>3, <1>9 DEF ManifestInv, E

LEMMA LexKeeps == ManifestInv /\ lex => ManifestInv'
<1> SUFFICES ASSUME ManifestInv, lex PROVE ManifestInv'
  OBVIOUS
<1>1. PICK tok \in Tok \cup {EndOfText} : peeked' = <<tok>>
  BY DEF lex
<1>2. peeked'[1] = tok
  BY <1>1
<1>3. tokens' = tokens /\ tables' = tables /\ parsing' = parsing /\ manifest' = manifest /\ manifestStatus' = manifestStatus
  BY DEF lex
<1> QED BY <1>1, <1>2, <1>3 DEF ManifestInv

LEMMA FailureKeeps ==
    ASSUME ManifestInv, peeked' = peeked \/ peeked' = <<>>, manifestStatus' \notin {"parsing", "ok"}
    PROVE  ManifestInv'
BY DEF ManifestInv

(* A name outside of any table starts a directive. *)
LEMMA NameKeeps == ManifestInv /\ manifest_name => ManifestInv'
<1> SUFFICES ASSUME ManifestInv, manifest_name PROVE ManifestInv'
  OBVIOUS
<1>1. parsing.at = "name" /\ manifestStatus = "parsing"
  BY DEF manifest_name
<1>2. Grammar(tokens, tables, parsing, manifest)
  BY <1>1 DEF ManifestInv
<1>3. CASE Sees("Ident") /\ take_token /\ tables' = tables /\ manifest' = manifest /\ manifestStatus' = manifestStatus
           /\ parsing' = [at |-> "assign", name |-> peeked[1].s, folded |-> FALSE, label |-> <<>>]
  <2> DEFINE tok == peeked[1]
             q == tokens'
             E == <<>>
  <2>1. tok \in Tok /\ tok.t = "Ident"
    BY <1>3, PeekedIs DEF ManifestInv
  <2>2. peeked' = E /\ q = Append(tokens, tok)
    BY <1>3 DEF take_token
  <2>3. tok.s \in DirectiveNames
    BY <2>1 DEF Tok
  <2> HIDE DEF tok, q
  <2>4. E \in Seq(ManifestStrings)
    OBVIOUS
  <2>5. parsing' \in Parsings /\ parsing'.at = "assign" /\ parsing'.name = tok.s /\ parsing'.label = E
    BY <1>3, <2>3, <2>4 DEF Parsings, Places, tok
  <2>6. tables = E /\ ParserFits(tables, parsing, manifest) /\ tokens \in Seq(Tok)
    BY <1>1, <1>2 DEF Grammar, ParserFits, PlaceFits
  <2>7. ParserFits(tables', parsing', manifest')
    BY <1>3, <2>3, <2>5, <2>6 DEF ParserFits, PlaceFits
  <2>8. Depth(tokens, Len(tokens)) = 0 /\ Opens(tok) = 0 /\ \A n \in 1..Len(tokens) : Depth(tokens, n) >= 0
    <3>1. Len(E) = 0
      OBVIOUS
    <3> QED BY <1>2, <2>1, <2>6, <3>1 DEF Grammar, Opens
  <2>9. IsTop(tokens, tok)
    BY <2>1, <2>8 DEF IsTop
  <2>10. /\ q \in Seq(Tok) /\ Len(q) = Len(tokens) + 1
         /\ Depth(q, Len(q)) = Len(tables') /\ \A n \in 1..Len(q) : Depth(q, n) >= 0
    <3>1. /\ q \in Seq(Tok) /\ Len(q) = Len(tokens) + 1
          /\ Depth(q, Len(q)) = Depth(tokens, Len(tokens)) + Opens(tok) /\ \A n \in 1..Len(q) : Depth(q, n) >= 0
      <4>1. Depth(tokens, Len(tokens)) + Opens(tok) >= 0
        BY <2>8
      <4> QED BY <2>1, <2>2, <2>6, <2>8, <4>1, DepthGrows
    <3>2. Len(E) = 0
      OBVIOUS
    <3> QED BY <1>3, <2>6, <2>8, <3>1, <3>2
  <2>11. Words(Selected(q, TopNames(q))) = NamedBy(manifest', parsing')
    <3>1. Words(Selected(q, TopNames(q))) = Append(Words(Selected(tokens, TopNames(tokens))), tok.s)
      BY <2>1, <2>2, <2>6, <2>9, TopWordsNext
    <3>2. Words(Selected(tokens, TopNames(tokens))) = manifest.directives
      BY <1>1, <1>2 DEF Grammar, NamedBy
    <3>3. NamedBy(manifest', parsing') = Append(manifest.directives, tok.s)
      BY <1>3, <2>5 DEF NamedBy
    <3> QED BY <3>1, <3>2, <3>3
  <2>12. Belongs(q, Len(q), parsing'.name)
    <3>1. Belongs(q, Len(tokens) + 1, tok.s)
      BY <2>1, <2>2, <2>6, <2>9, BelongsNext
    <3> QED BY <2>5, <2>10, <3>1
  <2>13. ASSUME NEW x \in ListNames PROVE Declared(q, x) = Collected(manifest', parsing', tables', x)
    <3>1. Declared(q, x) = Declared(tokens, x)
      BY <2>1, <2>2, <2>6, DeclaredNext, ZenonT(30)
    <3>2. Declared(tokens, x) = ListOf(manifest, x)
      BY <1>1, <1>2 DEF Grammar, Collected
    <3>3. ListOf(manifest, x) \o (parsing'.label \o StrsOf(tables')) = ListOf(manifest, x)
      <4>1. parsing'.label \o StrsOf(tables') = E
        BY <1>3, <2>4, <2>5, <2>6, StrsNone, JoinEmpty
      <4>2. ListOf(manifest, x) \in Seq(ManifestStrings)
        BY <2>6, ListTypes DEF ParserFits
      <4> QED BY <4>1, <4>2, JoinEmpty
    <3> QED BY <1>3, <3>1, <3>2, <3>3 DEF Collected
  <2>14. Grammar(tokens', tables', parsing', manifest')
    BY <2>7, <2>10, <2>11, <2>12, <2>13 DEF Grammar, q
  <2> QED BY <1>1, <1>3, <2>2, <2>14 DEF ManifestInv
<1>4. CASE Sees("End") /\ UNCHANGED <<tokens, peeked, tables, parsing, manifest>>
  BY <1>1, <1>2, <1>4 DEF ManifestInv
<1>5. CASE SyntaxError
  <2>1. peeked' = peeked /\ manifestStatus' \notin {"parsing", "ok"}
    BY <1>5 DEF SyntaxError
  <2> QED BY <2>1, FailureKeeps
<1> QED BY <1>3, <1>4, <1>5 DEF manifest_name

(* A step that takes a token and stays in the directive. *)
LEMMA MoveKeeps ==
    ASSUME ManifestInv, manifestStatus = "parsing", parsing.at # "name", take_token,
           peeked[1] \in Tok, ~IsTop(tokens, peeked[1]), Moves(peeked[1]), manifestStatus' = manifestStatus
    PROVE  ManifestInv'
<1>1. Grammar(tokens, tables, parsing, manifest)
  BY DEF ManifestInv
<1>2. peeked' = <<>> /\ tokens' = Append(tokens, peeked[1])
  BY DEF take_token
<1>3. Grammar(tokens', tables', parsing', manifest')
  BY <1>1, <1>2, TakenStep
<1> QED BY <1>2, <1>3 DEF ManifestInv

(* A value delivered with what its tokens said. *)
LEMMA DeliveredKeeps ==
    ASSUME ManifestInv, manifestStatus = "parsing", parsing.at # "name", take_token,
           peeked[1] \in Tok, ~IsTop(tokens, peeked[1]), NEW v, NEW open,
           Len(open) = Len(tables) + Opens(peeked[1]), StrsOf(open) \in Seq(ManifestStrings), v.strs \in Seq(ManifestStrings),
           StrsOf(open) \o v.strs = IF peeked[1].t = "Str" THEN StrsOf(tables) \o <<peeked[1].s>> ELSE StrsOf(tables),
           peeked[1].t = "Str" => peeked[1].s \in ManifestStrings,
           manifestStatus' = "InvalidValue" \/ Delivered(v, open)
    PROVE  ManifestInv'
<1> DEFINE tok == peeked[1]
           S == ManifestStrings
<1>1. Grammar(tokens, tables, parsing, manifest) /\ ParserFits(tables, parsing, manifest)
  BY DEF ManifestInv, Grammar
<1>2. CASE manifestStatus' = "InvalidValue"
  BY <1>2, FailureKeeps DEF take_token
<1>3. CASE Delivered(v, open)
  <2>1. NamedBy(manifest, parsing) = Append(manifest.directives, parsing.name)
    BY DEF NamedBy
  <2>2. ASSUME NEW x \in ListNames
        PROVE  Collected(manifest', parsing', tables', x) =
                 IF tok.t = "Str" /\ parsing.name = x THEN Append(Collected(manifest, parsing, tables, x), tok.s)
                 ELSE Collected(manifest, parsing, tables, x)
    <3> DEFINE a == ListOf(manifest, x)
               b == parsing.label
               c == StrsOf(tables)
               w == <<tok.s>>
    <3>1. a \in Seq(S) /\ b \in Seq(S) /\ c \in Seq(S)
      BY <1>1, ListTypes, ParsingsAre, StrsJoin DEF ParserFits
    <3>2. Collected(manifest', parsing', tables', x) = IF parsing.name = x THEN a \o (b \o (StrsOf(open) \o v.strs)) ELSE a
      BY <1>3 DEF Delivered
    <3>3. Collected(manifest, parsing, tables, x) = IF parsing.name = x THEN a \o (b \o c) ELSE a
      BY DEF Collected
    <3>4. StrsOf(open) \o v.strs = IF tok.t = "Str" THEN c \o w ELSE c
      OBVIOUS
    <3>5. tok.t = "Str" => a \o (b \o (c \o w)) = Append(a \o (b \o c), tok.s)
      <4>1. tok.t = "Str" => tok.s \in S
        OBVIOUS
      <4> HIDE DEF a, b, c, S
      <4>2. tok.s \in S => a \o (b \o (c \o <<tok.s>>)) = Append(a \o (b \o c), tok.s)
        <5> HIDE DEF tok
        <5>1. tok.s \in S => NextJoined(a, b, c, tok.s)
          BY <3>1, JoinNext
        <5> QED BY <5>1 DEF NextJoined
      <4> QED BY <4>1, <4>2
    <3> HIDE DEF a, b, c, w, tok
    <3> QED BY <3>2, <3>3, <3>4, <3>5
  <2>3. Moves(tok)
    BY <1>3, <2>1, <2>2 DEF Moves, Delivered
  <2>4. manifestStatus' = manifestStatus
    BY <1>3 DEF Delivered
  <2> QED BY <2>3, <2>4, MoveKeeps
<1> QED BY <1>2, <1>3

LEMMA AssignKeeps == ManifestInv /\ optional_assign => ManifestInv'
<1> SUFFICES ASSUME ManifestInv, optional_assign PROVE ManifestInv'
  OBVIOUS
<1>1. /\ parsing.at = "assign" /\ manifestStatus = "parsing" /\ parsing' = At("value") /\ tables' = tables /\ manifest' = manifest
      /\ manifestStatus' = manifestStatus
  BY DEF optional_assign
<1>2. Grammar(tokens, tables, parsing, manifest) /\ ParserFits(tables, parsing, manifest)
  BY <1>1 DEF ManifestInv, Grammar
<1>3. "value" \in Places
  BY DEF Places
<1>4. PlaceFits(parsing', tables) /\ tables \in Seq(Tables)
  <2>1. parsing \in Parsings /\ PlaceFits(parsing, tables) /\ tables \in Seq(Tables)
    BY <1>2 DEF ParserFits
  <2>2. /\ parsing'.at = "value" /\ parsing'.name = parsing.name /\ parsing'.folded = parsing.folded
        /\ parsing'.label = parsing.label
    BY <1>1, <1>3, <2>1, ParsingsAre DEF At
  <2> QED BY <1>1, <2>1, <2>2 DEF PlaceFits
<1>5. /\ ParserFits(tables', parsing', manifest')
      /\ NamedBy(manifest', parsing') = NamedBy(manifest, parsing)
      /\ parsing'.at # "name" => parsing'.name = parsing.name
      /\ \A x \in ListNames : Collected(manifest', parsing', tables', x) = Collected(manifest, parsing, tables, x)
  BY <1>1, <1>2, <1>3, <1>4, PlaceMoves
<1>6. CASE Sees("Assign")
  <2>1. take_token
    BY <1>6 DEF optional_assign
  <2>2. peeked[1] \in Tok /\ peeked[1].t = "Assign"
    BY <1>6, PeekedIs DEF ManifestInv
  <2>3. ~IsTop(tokens, peeked[1])
    BY <2>2 DEF IsTop
  <2>4. Moves(peeked[1])
    <3>1. Opens(peeked[1]) = 0
      BY <2>2 DEF Opens
    <3>2. Len(tables') = Len(tables) + Opens(peeked[1])
      BY <1>1, <1>4, <3>1
    <3> QED BY <1>5, <2>2, <3>2 DEF Moves
  <2> QED BY <1>1, <2>1, <2>2, <2>3, <2>4, MoveKeeps
<1>7. CASE ~Sees("Assign")
  <2>1. peeked' = peeked /\ tokens' = tokens
    BY <1>7 DEF optional_assign
  <2>2. Grammar(tokens', tables', parsing', manifest')
    BY <1>1, <1>2, <1>5, <2>1, StillStep
  <2> QED BY <1>1, <2>1, <2>2 DEF ManifestInv
<1> QED BY <1>6, <1>7

(* Where the parser stands next. *)
LEMMA PlaceIs ==
    ASSUME parsing \in Parsings, NEW a \in Places, parsing' = At(a)
    PROVE  /\ parsing' \in Parsings /\ parsing'.at = a /\ parsing'.name = parsing.name
           /\ parsing'.folded = parsing.folded /\ parsing'.label = parsing.label
BY ParsingsAre DEF At

(* A token that leaves the strings as they are. *)
LEMMA PlaceKeeps ==
    ASSUME ManifestInv, manifestStatus = "parsing", parsing.at \notin {"name", "fold"}, NEW a \in {"value", "entry", "key"},
           parsing' = At(a), NEW tabs \in Seq(Tables), tabs # <<>>, tables' = tabs, StrsOf(tabs) = StrsOf(tables),
           manifest' = manifest, manifestStatus' = manifestStatus,
           NEW tok, tok = peeked[1], tok \in Tok, tok.t # "Str", ~IsTop(tokens, tok), Len(tabs) = Len(tables) + Opens(tok), take_token
    PROVE  ManifestInv'
<1>1. Grammar(tokens, tables, parsing, manifest) /\ ParserFits(tables, parsing, manifest)
  BY DEF ManifestInv, Grammar
<1>2. a \in Places /\ a # "name"
  BY DEF Places
<1>3. PlaceFits(parsing', tabs)
  <2>1. parsing \in Parsings /\ PlaceFits(parsing, tables)
    BY <1>1 DEF ParserFits
  <2>2. /\ parsing'.at = a /\ parsing'.name = parsing.name /\ parsing'.folded = parsing.folded
        /\ parsing'.label = parsing.label
    BY <1>2, <2>1, PlaceIs
  <2> QED BY <2>1, <2>2 DEF PlaceFits
<1>4. /\ ParserFits(tables', parsing', manifest')
      /\ NamedBy(manifest', parsing') = NamedBy(manifest, parsing)
      /\ parsing'.at # "name" => parsing'.name = parsing.name
      /\ \A x \in ListNames : Collected(manifest', parsing', tables', x) = Collected(manifest, parsing, tables, x)
  BY <1>1, <1>2, <1>3, PlaceMoves
<1>5. Moves(tok)
  BY <1>4 DEF Moves
<1> QED BY <1>5, MoveKeeps

LEMMA ValueKeeps == ManifestInv /\ parse_value => ManifestInv'
<1> SUFFICES ASSUME ManifestInv, parse_value PROVE ManifestInv'
  OBVIOUS
<1> DEFINE tok == peeked[1]
           S == ManifestStrings
           E == <<>>
<1>1. parsing.at = "value" /\ manifestStatus = "parsing"
  BY DEF parse_value
<1>2. Grammar(tokens, tables, parsing, manifest) /\ ParserFits(tables, parsing, manifest)
  BY <1>1 DEF ManifestInv, Grammar
<1>3. /\ tables \in Seq(Tables) /\ parsing \in Parsings /\ manifest \in Manifests
      /\ parsing.name \in DirectiveNames /\ (~parsing.folded => parsing.label = E)
  BY <1>1, <1>2 DEF ParserFits, PlaceFits
<1>4. CASE Sees("Str") /\ take_token /\ Deliver(decode_literal(tok.s), tables)
  <2> DEFINE v == decode_literal(tok.s)
  <2>1. tok \in Tok /\ tok.t = "Str"
    BY <1>4, PeekedIs DEF ManifestInv
  <2>2. tok.s \in S
    BY <2>1 DEF Tok, ManifestStrings
  <2>3. <<tok.s>> \in Seq(S) /\ Len(<<tok.s>>) = 1
    BY <2>2
  <2>4. v \in ManifestValues /\ v.strs = <<tok.s>> /\ v.shape # "table"
    BY <2>3 DEF decode_literal, ManifestValues
  <2> HIDE DEF v, tok
  <2>5. IF v.shape = "table" THEN v.lead <= Len(v.strs) ELSE Len(v.strs) = 1
    BY <2>3, <2>4
  <2>6. manifestStatus' = "InvalidValue" \/ Delivered(v, tables)
    BY <1>1, <1>3, <1>4, <2>4, <2>5, DeliverIs DEF v
  <2>7. StrsOf(tables) \in Seq(S)
    BY <1>3, StrsJoin
  <2>8. ~IsTop(tokens, tok) /\ Opens(tok) = 0
    BY <2>1 DEF IsTop, Opens
  <2>9. Len(tables) = Len(tables) + Opens(tok)
    BY <1>3, <2>8
  <2> QED BY <1>1, <1>4, <2>1, <2>2, <2>3, <2>4, <2>6, <2>7, <2>8, <2>9, DeliveredKeeps DEF tok
<1>5. CASE /\ Sees("LBrace") /\ take_token
           /\ tables' = Append(tables, [strs |-> <<>>, key |-> "", size |-> 0, lead |-> 0, seq |-> TRUE, flat |-> TRUE])
           /\ parsing' = At("entry") /\ manifest' = manifest /\ manifestStatus' = manifestStatus
  <2> DEFINE t == [strs |-> E, key |-> "", size |-> 0, lead |-> 0, seq |-> TRUE, flat |-> TRUE]
             tabs == Append(tables, t)
  <2>1. tok \in Tok /\ tok.t = "LBrace"
    BY <1>5, PeekedIs DEF ManifestInv
  <2>2. E \in Seq(S) /\ Len(E) = 0
    OBVIOUS
  <2>3. t \in Tables /\ t.strs = E
    <3> HIDE DEF E
    <3>1. t \in [strs : Seq(S), key : DirectiveNames \cup {""}, size : Nat, lead : Nat, seq : BOOLEAN, flat : BOOLEAN]
      BY <2>2
    <3>2. t.strs = E /\ t.lead = 0
      OBVIOUS
    <3>3. 0 <= Len(E)
      BY <2>2
    <3> QED BY <3>1, <3>2, <3>3 DEF Tables
  <2> HIDE DEF t, tok
  <2>4. tabs \in Seq(Tables) /\ Len(tabs) = Len(tables) + 1 /\ tabs # E
    <3>1. tabs \in Seq(Tables) /\ Len(tabs) = Len(tables) + 1 /\ Len(tables) \in Nat
      BY <1>3, <2>3
    <3>2. Len(tabs) # 0
      BY <3>1
    <3> QED BY <2>2, <3>1, <3>2
  <2>5. StrsOf(tabs) = StrsOf(tables)
    BY <1>3, <2>3, StrsAppend, StrsJoin, JoinEmpty
  <2>6. tables' = tabs
    BY <1>5 DEF t
  <2> HIDE DEF tabs
  <2>7. ~IsTop(tokens, tok) /\ Opens(tok) = 1
    BY <2>1 DEF IsTop, Opens
  <2>8. Len(tabs) = Len(tables) + Opens(tok)
    BY <2>4, <2>7
  <2>9. tok = peeked[1]
    BY DEF tok
  <2> QED BY <1>1, <1>5, <2>1, <2>4, <2>5, <2>6, <2>7, <2>8, <2>9, PlaceKeeps
<1>6. CASE SyntaxError
  <2>1. peeked' = peeked /\ manifestStatus' \notin {"parsing", "ok"}
    BY <1>6 DEF SyntaxError
  <2> QED BY <2>1, FailureKeeps
<1> QED BY <1>4, <1>5, <1>6 DEF parse_value

LEMMA CloseKeeps ==
    ASSUME ManifestInv, manifestStatus = "parsing", parsing.at \in {"entry", "separator"}, Sees("RBrace"), CloseTable
    PROVE  ManifestInv'
<1> DEFINE tok == peeked[1]
           S == ManifestStrings
           top == Last(tables)
           open == Front(tables)
           v == [shape |-> "table", strs |-> top.strs, seq |-> top.seq, flat |-> top.flat, lead |-> top.lead]
<1>1. Grammar(tokens, tables, parsing, manifest) /\ ParserFits(tables, parsing, manifest)
  BY DEF ManifestInv, Grammar
<1>2. /\ tables \in Seq(Tables) /\ tables # <<>> /\ parsing \in Parsings /\ manifest \in Manifests
      /\ parsing.name \in DirectiveNames /\ (~parsing.folded => parsing.label = <<>>)
  BY <1>1 DEF ParserFits, PlaceFits
<1>3. tok \in Tok /\ tok.t = "RBrace"
  BY PeekedIs DEF ManifestInv
<1>4. take_token /\ Deliver(v, open)
  BY DEF CloseTable
<1>5. StrsOf(tables) = StrsOf(open) \o top.strs /\ open \in Seq(Tables) /\ top \in Tables /\ Len(open) = Len(tables) - 1
  BY <1>2, StrsLast
<1> HIDE DEF top, open, tok
<1>6. top.strs \in Seq(S) /\ top.seq \in BOOLEAN /\ top.flat \in BOOLEAN /\ top.lead \in Nat /\ top.lead <= Len(top.strs)
  BY <1>5, TablesAre
<1>7. v \in ManifestValues /\ v.shape = "table" /\ v.strs = top.strs /\ v.lead = top.lead
  BY <1>6 DEF ManifestValues
<1> HIDE DEF v
<1>8. IF v.shape = "table" THEN v.lead <= Len(v.strs) ELSE Len(v.strs) = 1
  BY <1>6, <1>7
<1>9. manifestStatus' = "InvalidValue" \/ Delivered(v, open)
  BY <1>2, <1>4, <1>5, <1>7, <1>8, DeliverIs
<1>10. StrsOf(open) \in Seq(S)
  BY <1>5, StrsJoin
<1>11. ~IsTop(tokens, tok) /\ Opens(tok) = -1
  BY <1>3 DEF IsTop, Opens
<1>12. Len(open) = Len(tables) + Opens(tok)
  BY <1>2, <1>5, <1>11
<1>13. parsing.at # "name"
  OBVIOUS
<1> QED BY <1>3, <1>4, <1>5, <1>6, <1>7, <1>9, <1>10, <1>11, <1>12, <1>13, DeliveredKeeps DEF tok

LEMMA FoldKeeps == ManifestInv /\ fold_label => ManifestInv'
<1> SUFFICES ASSUME ManifestInv, fold_label PROVE ManifestInv'
  OBVIOUS
<1> DEFINE S == ManifestStrings
           E == <<>>
<1>1. parsing.at = "fold" /\ manifestStatus = "parsing"
  BY DEF fold_label
<1>2. Grammar(tokens, tables, parsing, manifest) /\ ParserFits(tables, parsing, manifest)
  BY <1>1 DEF ManifestInv, Grammar
<1>3. tables = E /\ tables \in Seq(Tables) /\ parsing \in Parsings /\ manifest \in Manifests /\ parsing.name \in DirectiveNames
  BY <1>1, <1>2 DEF ParserFits, PlaceFits
<1>4. parsing.label \in Seq(S)
  BY <1>3, ParsingsAre
<1>5. peeked' = peeked /\ tokens' = tokens /\ tables' = tables
  BY DEF fold_label
<1>6. CASE parsing' = [At("value") EXCEPT !.folded = TRUE] /\ manifest' = manifest /\ manifestStatus' = manifestStatus
  <2>1. /\ parsing' \in Parsings /\ parsing'.at = "value" /\ parsing'.name = parsing.name /\ parsing'.folded = TRUE
        /\ parsing'.label = parsing.label
    BY <1>3, <1>6 DEF At, Parsings, Places
  <2>2. ParserFits(tables', parsing', manifest')
    BY <1>3, <1>5, <1>6, <2>1 DEF ParserFits, PlaceFits
  <2>3. NamedBy(manifest', parsing') = NamedBy(manifest, parsing)
    BY <1>1, <1>6, <2>1 DEF NamedBy
  <2>4. \A x \in ListNames : Collected(manifest', parsing', tables', x) = Collected(manifest, parsing, tables, x)
    BY <1>1, <1>5, <1>6, <2>1 DEF Collected
  <2>5. Grammar(tokens', tables', parsing', manifest')
    BY <1>1, <1>2, <1>5, <2>1, <2>2, <2>3, <2>4, StillStep
  <2> QED BY <1>1, <1>5, <1>6, <2>5 DEF ManifestInv
<1>7. CASE apply_manifest([shape |-> "str", strs |-> parsing.label, seq |-> FALSE, flat |-> TRUE, lead |-> 0])
  <2> DEFINE v == [shape |-> "str", strs |-> parsing.label, seq |-> FALSE, flat |-> TRUE, lead |-> 0]
  <2>1. v \in ManifestValues /\ v.shape # "table" /\ v.strs = parsing.label
    BY <1>4 DEF ManifestValues
  <2>2. apply_manifest(v)
    BY <1>7
  <2> HIDE DEF v
  <2>3. manifestStatus' = "InvalidValue" \/ ManifestApplied(v)
    BY <1>3, <2>1, <2>2, ApplyManifestIs
  <2>4. CASE manifestStatus' = "InvalidValue"
    BY <1>5, <2>4, FailureKeeps
  <2>5. CASE ManifestApplied(v)
    <3>1. /\ manifestStatus' = manifestStatus /\ parsing' = At("name") /\ manifest' \in Manifests
          /\ manifest'.directives = Append(manifest.directives, parsing.name)
      BY <2>5 DEF ManifestApplied
    <3>2. "name" \in Places
      BY DEF Places
    <3>3. parsing' \in Parsings /\ parsing'.at = "name"
      BY <1>3, <3>1, <3>2, PlaceIs
    <3>4. ParserFits(tables', parsing', manifest')
      BY <1>3, <1>5, <3>1, <3>3 DEF ParserFits, PlaceFits
    <3>5. NamedBy(manifest', parsing') = NamedBy(manifest, parsing)
      BY <1>1, <3>1, <3>3 DEF NamedBy
    <3>6. parsing.label \o StrsOf(tables) = parsing.label
      BY <1>3, <1>4, StrsNone, JoinEmpty
    <3>7. \A x \in ListNames : Collected(manifest', parsing', tables', x) = Collected(manifest, parsing, tables, x)
      BY <1>1, <2>1, <2>5, <3>3, <3>6 DEF Collected, ManifestApplied
    <3>8. Grammar(tokens', tables', parsing', manifest')
      BY <1>1, <1>2, <1>5, <3>3, <3>4, <3>5, <3>7, StillStep
    <3> QED BY <1>1, <1>5, <3>1, <3>3, <3>8 DEF ManifestInv
  <2> QED BY <2>3, <2>4, <2>5
<1> QED BY <1>6, <1>7 DEF fold_label

(* Inside a table no token is a name outside of any. *)
LEMMA InTable ==
    ASSUME Grammar(tokens, tables, parsing, manifest), tables # <<>>, NEW tok
    PROVE  ~IsTop(tokens, tok) /\ tables \in Seq(Tables)
<1>1. tables \in Seq(Tables) /\ Depth(tokens, Len(tokens)) = Len(tables)
  BY DEF Grammar, ParserFits
<1>2. Len(tables) # 0
  BY <1>1
<1> QED BY <1>1, <1>2 DEF IsTop

LEMMA EntryKeeps == ManifestInv /\ table_entry => ManifestInv'
<1> SUFFICES ASSUME ManifestInv, table_entry PROVE ManifestInv'
  OBVIOUS
<1> DEFINE tok == peeked[1]
<1>1. parsing.at = "entry" /\ manifestStatus = "parsing"
  BY DEF table_entry
<1>2. Grammar(tokens, tables, parsing, manifest) /\ ParserFits(tables, parsing, manifest)
  BY <1>1 DEF ManifestInv, Grammar
<1>3. tables # <<>> /\ parsing \in Parsings /\ manifest \in Manifests
  BY <1>1, <1>2 DEF ParserFits, PlaceFits
<1>4. tables \in Seq(Tables) /\ ~IsTop(tokens, tok) /\ Len(tables) = Len(tables) + 0
  <2>1. tables \in Seq(Tables) /\ ~IsTop(tokens, tok)
    BY <1>2, <1>3, InTable
  <2> QED BY <2>1
<1>5. CASE /\ Sees("Comma") /\ take_token /\ tables' = tables /\ parsing' = parsing /\ manifest' = manifest
           /\ manifestStatus' = manifestStatus
  <2>1. tok \in Tok /\ tok.t = "Comma"
    BY <1>5, PeekedIs DEF ManifestInv
  <2>2. parsing' = At("entry")
    BY <1>1, <1>3, <1>5 DEF At, Parsings
  <2>3. Opens(tok) = 0
    BY <2>1 DEF Opens
  <2>4. tok = peeked[1]
    OBVIOUS
  <2> HIDE DEF tok
  <2> QED BY <1>1, <1>3, <1>4, <1>5, <2>1, <2>2, <2>3, <2>4, PlaceKeeps
<1>6. CASE Sees("RBrace") /\ CloseTable
  BY <1>1, <1>6, CloseKeeps
<1>7. CASE /\ Sees("Ident") /\ take_token /\ parsing' = At("key") /\ manifest' = manifest /\ manifestStatus' = manifestStatus
           /\ tables' = Append(Front(tables), [Last(tables) EXCEPT !.key = peeked[1].s])
  <2> DEFINE top == Last(tables)
             t == [top EXCEPT !.key = tok.s]
             tabs == Append(Front(tables), t)
  <2>1. tok \in Tok /\ tok.t = "Ident"
    BY <1>7, PeekedIs DEF ManifestInv
  <2>2. tok.s \in DirectiveNames
    BY <2>1 DEF Tok
  <2>3. tables' = tabs /\ tok = peeked[1] /\ Opens(tok) = 0
    BY <1>7, <2>1 DEF Opens
  <2> HIDE DEF tok
  <2>4. StrsOf(tables) = StrsOf(Front(tables)) \o top.strs /\ Front(tables) \in Seq(Tables) /\ top \in Tables
    BY <1>3, <1>4, StrsLast
  <2> HIDE DEF top
  <2>5. t \in Tables /\ t.strs = top.strs
    BY <2>2, <2>4 DEF Tables
  <2> HIDE DEF t
  <2>6. StrsOf(tabs) = StrsOf(tables)
    BY <2>4, <2>5, StrsAppend
  <2>7. tabs \in Seq(Tables) /\ Len(tabs) = Len(tables)
    BY <1>3, <1>4, <2>5, ReplaceLast
  <2>8. tabs # <<>>
    BY <1>3, <1>4, <2>7
  <2> HIDE DEF tabs
  <2> QED BY <1>1, <1>4, <1>7, <2>1, <2>3, <2>6, <2>7, <2>8, PlaceKeeps
<1>8. CASE parsing' = At("value") /\ UNCHANGED <<tokens, peeked, tables, manifest, manifestStatus>>
  <2>1. "value" \in Places
    BY DEF Places
  <2>2. PlaceFits(parsing', tables)
    <3>1. PlaceFits(parsing, tables)
      BY <1>2 DEF ParserFits
    <3>2. /\ parsing'.at = "value" /\ parsing'.name = parsing.name /\ parsing'.folded = parsing.folded
          /\ parsing'.label = parsing.label
      BY <1>3, <1>8, <2>1, PlaceIs
    <3> QED BY <1>1, <3>1, <3>2 DEF PlaceFits
  <2>3. /\ ParserFits(tables', parsing', manifest')
        /\ NamedBy(manifest', parsing') = NamedBy(manifest, parsing)
        /\ parsing'.at # "name" => parsing'.name = parsing.name
        /\ \A x \in ListNames : Collected(manifest', parsing', tables', x) = Collected(manifest, parsing, tables, x)
    BY <1>1, <1>2, <1>4, <1>8, <2>1, <2>2, PlaceMoves
  <2>4. Grammar(tokens', tables', parsing', manifest')
    BY <1>1, <1>2, <1>8, <2>3, StillStep
  <2> QED BY <1>1, <1>8, <2>4 DEF ManifestInv
<1> QED BY <1>5, <1>6, <1>7, <1>8 DEF table_entry

(* The "=" of a key, the "," or "}" behind an entry. *)
LEMMA KeyKeeps == ManifestInv /\ (table_key \/ table_separator) => ManifestInv'
<1> SUFFICES ASSUME ManifestInv, table_key \/ table_separator PROVE ManifestInv'
  OBVIOUS
<1> DEFINE tok == peeked[1]
<1>1. parsing.at \in {"key", "separator"} /\ manifestStatus = "parsing"
  BY DEF table_key, table_separator
<1>2. Grammar(tokens, tables, parsing, manifest) /\ ParserFits(tables, parsing, manifest)
  BY <1>1 DEF ManifestInv, Grammar
<1>3. tables # <<>>
  BY <1>1, <1>2 DEF ParserFits, PlaceFits
<1>4. tables \in Seq(Tables) /\ ~IsTop(tokens, tok) /\ Len(tables) = Len(tables) + 0
  <2>1. tables \in Seq(Tables) /\ ~IsTop(tokens, tok)
    BY <1>2, <1>3, InTable
  <2> QED BY <2>1
<1>5. ASSUME NEW a \in {"value", "entry"}, NEW kind \in {"Assign", "Comma"}, Sees(kind), take_token, parsing' = At(a),
             tables' = tables, manifest' = manifest, manifestStatus' = manifestStatus
      PROVE  ManifestInv'
  <2>1. tok \in Tok /\ tok.t \in {"Assign", "Comma"}
    BY <1>5, PeekedIs DEF ManifestInv
  <2>2. Opens(tok) = 0
    BY <2>1 DEF Opens
  <2>3. tok = peeked[1]
    OBVIOUS
  <2> HIDE DEF tok
  <2> QED BY <1>1, <1>3, <1>4, <1>5, <2>1, <2>2, <2>3, PlaceKeeps
<1>6. CASE SyntaxError
  <2>1. peeked' = peeked /\ manifestStatus' \notin {"parsing", "ok"}
    BY <1>6 DEF SyntaxError
  <2> QED BY <2>1, FailureKeeps
<1>7. CASE table_key
  BY <1>5, <1>6, <1>7 DEF table_key
<1>8. CASE table_separator
  <2>1. parsing.at = "separator"
    BY <1>8 DEF table_separator
  <2>2. Sees("RBrace") /\ CloseTable => ManifestInv'
    BY <1>1, <2>1, CloseKeeps
  <2> QED BY <1>5, <1>6, <1>8, <2>2 DEF table_separator
<1> QED BY <1>7, <1>8

LEMMA AllFilesAre ==
    ASSUME manifest \in Manifests
    PROVE  /\ IsInjective(all_files)
           /\ ToSet(all_files) = (ToSet(manifest.files) \cup ToSet(manifest.data_files)) \cup ToSet(manifest.shared)
<1> DEFINE S == ManifestStrings
           a == manifest.files
           b == manifest.data_files
           c == manifest.shared
           ab == a \o b
           abc == ab \o c
           s == abc \o c
<1>1. a \in Seq(S) /\ b \in Seq(S) /\ c \in Seq(S)
  BY ManifestsAre
<1>2. all_files = Deduplicated(s)
  BY DEF all_files
<1> HIDE DEF S, a, b, c
<1>3. ab \in Seq(S) /\ ToSet(ab) = ToSet(a) \cup ToSet(b)
  BY <1>1, JoinedIs, ToSetJoin
<1> HIDE DEF ab
<1>4. abc \in Seq(S) /\ ToSet(abc) = ToSet(ab) \cup ToSet(c)
  BY <1>1, <1>3, JoinedIs, ToSetJoin
<1> HIDE DEF abc
<1>5. s \in Seq(S) /\ ToSet(s) = ToSet(abc) \cup ToSet(c)
  BY <1>1, <1>4, JoinedIs, ToSetJoin
<1> HIDE DEF s
<1>6. IsInjective(Deduplicated(s)) /\ ToSet(Deduplicated(s)) = ToSet(s)
  BY <1>5, DeduplicatedIs
<1>7. ToSet(s) = (ToSet(a) \cup ToSet(b)) \cup ToSet(c)
  BY <1>3, <1>4, <1>5
<1> QED BY <1>2, <1>6, <1>7 DEF a, b, c

LEMMA ManifestInvImplies == ManifestInv => ManifestComplete
<1> SUFFICES ASSUME ManifestInv, manifestStatus = "ok"
             PROVE  /\ \A n \in DOMAIN tokens : Depth(tokens, n) >= 0
                    /\ Depth(tokens, Len(tokens)) = 0 /\ tables = <<>>
                    /\ manifest.directives = Words(Selected(tokens, TopNames(tokens)))
                    /\ manifest.files = Declared(tokens, "files")
                    /\ manifest.shared = Declared(tokens, "shared_scripts")
                    /\ manifest.custom = Declared(tokens, "custom")
                    /\ IsInjective(all_files)
                    /\ ToSet(all_files) = ToSet(manifest.files) \cup ToSet(manifest.data_files) \cup ToSet(manifest.shared)
  BY DEF ManifestComplete
<1>1. Grammar(tokens, tables, parsing, manifest) /\ parsing.at = "name"
  BY DEF ManifestInv
<1>2. ParserFits(tables, parsing, manifest) /\ tokens \in Seq(Tok)
  BY <1>1 DEF Grammar
<1>3. tables = <<>> /\ manifest \in Manifests
  BY <1>1, <1>2 DEF ParserFits, PlaceFits
<1>4. \A n \in DOMAIN tokens : Depth(tokens, n) >= 0
  <2>1. DOMAIN tokens = 1..Len(tokens)
    BY <1>2
  <2> QED BY <1>1, <2>1 DEF Grammar
<1>5. Depth(tokens, Len(tokens)) = 0
  <2>1. Len(<<>>) = 0
    OBVIOUS
  <2> QED BY <1>1, <1>3, <2>1 DEF Grammar
<1>6. manifest.directives = Words(Selected(tokens, TopNames(tokens)))
  BY <1>1 DEF Grammar, NamedBy
<1>7. \A x \in ListNames : Declared(tokens, x) = ListOf(manifest, x)
  BY <1>1 DEF Grammar, Collected
<1>8. /\ manifest.files = Declared(tokens, "files") /\ manifest.shared = Declared(tokens, "shared_scripts")
      /\ manifest.custom = Declared(tokens, "custom")
  BY <1>7 DEF ListNames, ListOf
<1>9. /\ IsInjective(all_files)
      /\ ToSet(all_files) = (ToSet(manifest.files) \cup ToSet(manifest.data_files)) \cup ToSet(manifest.shared)
  BY <1>3, AllFilesAre
<1> QED BY <1>3, <1>4, <1>5, <1>6, <1>8, <1>9

(* An accepted manifest loses and reorders nothing of what its tokens say. *)
LEMMA ManifestAlwaysComplete == ManifestInit /\ [][ManifestNext]_manifestVars => []ManifestComplete
<1>1. ManifestInit => ManifestInv
  BY ManifestInvInit
<1>2. ManifestInv /\ [ManifestNext]_manifestVars => ManifestInv'
  <2>1. ManifestInv /\ UNCHANGED manifestVars => ManifestInv'
    BY DEF ManifestInv, manifestVars
  <2> QED BY <2>1, LexKeeps, NameKeeps, AssignKeeps, ValueKeeps, FoldKeeps, EntryKeeps, KeyKeeps DEF ManifestNext
<1>3. ManifestInv => ManifestComplete
  BY ManifestInvImplies
<1> QED BY <1>1, <1>2, <1>3, PTL

-----------------------------------------------------------------------------
(* Each part of the configuration on its own: they share nothing.          *)
ConfigParts ==
    /\ IncludeInit /\ [][IncludeNext]_includeVars
    /\ NormInit /\ [][NormNext]_normVars
    /\ ManifestInit /\ [][ManifestNext]_manifestVars

(* Whatever the files, their includes and the depth limit, whatever lines  *)
(* server.cfg has and in which order, and whatever tokens a manifest is    *)
(* made of: IncludeResolver::resolve gives exactly the lines within the    *)
(* limit or refuses rightly, the server runs with what the last lines      *)
(* about its limit, its address and its secrets say, and an accepted       *)
(* manifest holds every directive and string in order.                     *)
THEOREM ConfigAlwaysSound == ConfigParts => []ConfigSound
<1>1. ConfigParts => []IncludesExact
  BY IncludesAlwaysExact, PTL DEF ConfigParts
<1>2. ConfigParts => []LoadedAsWritten
  BY LoadedAlwaysAsWritten, PTL DEF ConfigParts
<1>3. ConfigParts => []ManifestComplete
  BY ManifestAlwaysComplete, PTL DEF ConfigParts
<1>4. IncludesExact /\ LoadedAsWritten /\ ManifestComplete => ConfigSound
  BY DEF ConfigSound
<1> QED BY <1>1, <1>2, <1>3, <1>4, PTL

=============================================================================
