--------------------------- MODULE ServicesProofs ----------------------------
(***************************************************************************)
(* Proofs about the services of one server and of many, for any players,   *)
(* scripts, shards and sources and at any size of the tables: the          *)
(* framework's tables agree with each other; leases, connections, answers  *)
(* and restarts of the fleet stay within their bounds; and money and goods *)
(* are accounted for.                                                      *)
(***************************************************************************)
EXTENDS Framework, Fleet, Goods, Sums, FiniteSetTheorems, SequenceTheorems, TLAPS

-----------------------------------------------------------------------------
(* g is f but for its value at k. *)
At(f, g, k, v) == DOMAIN g = DOMAIN f /\ g[k] = v /\ \A x \in DOMAIN f \ {k} : g[x] = f[x]

-----------------------------------------------------------------------------
(* State bags. *)

BagShape(b) ==
    /\ DOMAIN b = {"owner", "seq", "values"}
    /\ \A k \in DOMAIN b.values : DOMAIN b.values[k] = {"data", "replicated"}

(* What a handler of every key was told about one bag. *)
Told(b, m) ==
    /\ \A k \in DOMAIN b.values :
         \/ k \in DOMAIN m /\ m[k] = b.values[k].data
         \/ k \notin DOMAIN m /\ b.values[k].data = Nil
    /\ DOMAIN m \subseteq DOMAIN b.values

BagsInv ==
    /\ DOMAIN owners = DOMAIN bags /\ DOMAIN mirror = DOMAIN bags
    /\ \A s \in DOMAIN bags : BagShape(bags[s]) /\ Told(bags[s], mirror[s]) /\ bags[s].owner = owners[s]

LEMMA BagChanged ==
    ASSUME BagsInv, NEW s \in DOMAIN bags, NEW b, NEW m, NEW o,
           BagShape(b), Told(b, m), b.owner = o,
           At(bags, bags', s, b), At(mirror, mirror', s, m), At(owners, owners', s, o)
    PROVE  BagsInv'
  BY DEF BagsInv, At

LEMMA BagsStep == BagsInv /\ [BagsNext]_bagVars => BagsInv'
<1> SUFFICES ASSUME BagsInv, [BagsNext]_bagVars PROVE BagsInv'
  OBVIOUS
<1>1. ASSUME NEW s, NEW w, create(s, w) PROVE BagsInv'
  <2> DEFINE b == [owner |-> w, seq |-> 0, values |-> <<>>]
  <2>1. s \notin DOMAIN bags
    BY <1>1 DEF create, BagsInv
  <2>2. bags' = Put(bags, s, b) /\ owners' = Put(owners, s, w) /\ mirror' = Put(mirror, s, <<>>)
    BY <1>1, <2>1 DEF create
  <2>3. BagShape(b) /\ Told(b, <<>>) /\ b.owner = w
    BY DEF BagShape, Told
  <2> HIDE DEF b
  <2> QED BY <2>1, <2>2, <2>3 DEF BagsInv, Put
<1>2. ASSUME NEW s, NEW from, NEW to, hand_over(s, from, to) PROVE BagsInv'
  <2> DEFINE b == [bags[s] EXCEPT !.owner = to]
  <2>1. s \in DOMAIN bags /\ BagShape(bags[s]) /\ Told(bags[s], mirror[s])
    BY <1>2 DEF hand_over, BagsInv
  <2>2. b.owner = to /\ b.values = bags[s].values /\ DOMAIN b = DOMAIN bags[s]
    BY <2>1 DEF BagShape
  <2>3. At(bags, bags', s, b) /\ At(mirror, mirror', s, mirror[s])
        /\ At(owners, owners', s, to)
    BY <1>2, <2>1 DEF hand_over, BagsInv, At
  <2> HIDE DEF b
  <2>4. BagShape(b) /\ Told(b, mirror[s])
    BY <2>1, <2>2 DEF BagShape, Told
  <2> QED BY <2>1, <2>2, <2>3, <2>4, BagChanged
<1>3. ASSUME NEW s, NEW key, NEW data, NEW w, set_key(s, key, data, w) PROVE BagsInv'
  <2> DEFINE r == IF key \in DOMAIN bags[s].values THEN bags[s].values[key].replicated ELSE TRUE
             v == [data |-> data, replicated |-> r]
             vs == Put(bags[s].values, key, v)
             b == [bags[s] EXCEPT !.seq = bags[s].seq + 1, !.values = vs]
             m == Put(mirror[s], key, data)
  <2>1. s \in DOMAIN bags /\ BagShape(bags[s]) /\ Told(bags[s], mirror[s]) /\ bags[s].owner = owners[s]
    BY <1>3 DEF set_key, check_write, BagsInv
  <2>2. b.owner = owners[s] /\ b.values = vs /\ DOMAIN b = DOMAIN bags[s]
    BY <2>1 DEF BagShape
  <2>3. At(bags, bags', s, b) /\ At(mirror, mirror', s, m)
        /\ At(owners, owners', s, owners[s])
    BY <1>3, <2>1 DEF set_key, BagsInv, At
  <2> HIDE DEF b
  <2>4. BagShape(b) /\ Told(b, m)
    <3>1. DOMAIN v = {"data", "replicated"} /\ v.data = data
      OBVIOUS
    <3> HIDE DEF v
    <3> QED BY <2>1, <2>2, <3>1 DEF BagShape, Told, Put
  <2> QED BY <2>1, <2>2, <2>3, <2>4, BagChanged
<1>4. ASSUME NEW s, NEW key, NEW flag, NEW w, set_replicated(s, key, flag, w) PROVE BagsInv'
  <2>1. s \in DOMAIN bags /\ BagShape(bags[s]) /\ Told(bags[s], mirror[s]) /\ bags[s].owner = owners[s]
    BY <1>4 DEF set_replicated, check_write, BagsInv
  <2>2. CASE key \in DOMAIN bags[s].values
    <3> DEFINE v == [bags[s].values[key] EXCEPT !.replicated = flag]
               b == [bags[s] EXCEPT !.values = [bags[s].values EXCEPT ![key] = v]]
    <3>1. DOMAIN v = {"data", "replicated"} /\ v.data = bags[s].values[key].data
      BY <2>1, <2>2 DEF BagShape
    <3>2. At(bags, bags', s, b) /\ At(mirror, mirror', s, mirror[s])
          /\ At(owners, owners', s, owners[s])
      BY <1>4, <2>1, <2>2 DEF set_replicated, BagsInv, At
    <3> HIDE DEF v
    <3>3. b.owner = owners[s] /\ b.values = [bags[s].values EXCEPT ![key] = v] /\ DOMAIN b = DOMAIN bags[s]
      BY <2>1 DEF BagShape
    <3> HIDE DEF b
    <3>4. BagShape(b) /\ Told(b, mirror[s])
      BY <2>1, <2>2, <3>1, <3>3 DEF BagShape, Told
    <3> QED BY <2>1, <3>2, <3>3, <3>4, BagChanged
  <2>3. CASE key \notin DOMAIN bags[s].values
    <3> DEFINE v == [data |-> Nil, replicated |-> flag]
               b == [bags[s] EXCEPT !.seq = bags[s].seq + 1, !.values = Put(bags[s].values, key, v)]
    <3>1. DOMAIN v = {"data", "replicated"} /\ v.data = Nil
      OBVIOUS
    <3>2. At(bags, bags', s, b) /\ At(mirror, mirror', s, mirror[s])
          /\ At(owners, owners', s, owners[s])
      BY <1>4, <2>1, <2>3 DEF set_replicated, BagsInv, At
    <3> HIDE DEF v
    <3>3. b.owner = owners[s] /\ b.values = Put(bags[s].values, key, v) /\ DOMAIN b = DOMAIN bags[s]
      BY <2>1 DEF BagShape
    <3> HIDE DEF b
    <3>4. BagShape(b) /\ Told(b, mirror[s])
      BY <2>1, <2>3, <3>1, <3>3 DEF BagShape, Told, Put
    <3> QED BY <2>1, <3>2, <3>3, <3>4, BagChanged
  <2> QED BY <2>2, <2>3
<1>5. ASSUME NEW s, NEW key, NEW w, delete_key(s, key, w) PROVE BagsInv'
  <2> DEFINE b == [bags[s] EXCEPT !.seq = bags[s].seq + 1, !.values = Dropped(bags[s].values, key)]
             m == Dropped(mirror[s], key)
  <2>1. s \in DOMAIN bags /\ BagShape(bags[s]) /\ Told(bags[s], mirror[s]) /\ bags[s].owner = owners[s]
    BY <1>5 DEF delete_key, check_write, BagsInv
  <2>2. b.owner = owners[s] /\ b.values = Dropped(bags[s].values, key) /\ DOMAIN b = DOMAIN bags[s]
    BY <2>1 DEF BagShape
  <2>3. At(bags, bags', s, b) /\ At(mirror, mirror', s, m)
        /\ At(owners, owners', s, owners[s])
    BY <1>5, <2>1 DEF delete_key, BagsInv, At
  <2> HIDE DEF b
  <2>4. BagShape(b) /\ Told(b, m)
    BY <2>1, <2>2 DEF BagShape, Told, Dropped
  <2> QED BY <2>1, <2>2, <2>3, <2>4, BagChanged
<1>6. CASE UNCHANGED bagVars
  BY <1>6 DEF bagVars, BagsInv
<1> QED BY <1>1, <1>2, <1>3, <1>4, <1>5, <1>6 DEF BagsNext

LEMMA BagsInvGives == BagsInv => BagsMirrored
<1> SUFFICES ASSUME BagsInv, NEW s \in DOMAIN bags, NEW kv \in snapshot_replicated(s)
             PROVE  kv[2] = Nil \/ mirror[s][kv[1]] = kv[2]
  BY DEF BagsInv, Told, BagsMirrored
<1>1. PICK k \in DOMAIN bags[s].values : kv = <<k, bags[s].values[k].data>>
  BY DEF snapshot_replicated
<1> QED BY <1>1 DEF BagsInv, Told

-----------------------------------------------------------------------------
(* Players and the names of their characters. *)

CharactersOf(p) == players[p].characters

PlayersInv ==
    /\ \A p \in DOMAIN players :
         /\ DOMAIN players[p] = {"status", "characters", "active"}
         /\ CharactersOf(p) \in Seq(Names)
         /\ \A i \in DOMAIN CharactersOf(p) :
              CharactersOf(p)[i] \in DOMAIN names /\ names[CharactersOf(p)[i]] = p
         /\ \A i, j \in DOMAIN CharactersOf(p) : CharactersOf(p)[i] = CharactersOf(p)[j] => i = j
    /\ \A n \in DOMAIN names :
         /\ names[n] \in DOMAIN players
         /\ \E i \in DOMAIN CharactersOf(names[n]) : CharactersOf(names[n])[i] = n

LEMMA PlayersStep == PlayersInv /\ [PlayersNext]_playerVars => PlayersInv'
<1> SUFFICES ASSUME PlayersInv, [PlayersNext]_playerVars PROVE PlayersInv'
  OBVIOUS
<1>1. ASSUME NEW p \in People, join_player(p) PROVE PlayersInv'
  <2> DEFINE fresh == [status |-> "Online", characters |-> <<>>, active |-> 0]
  <2>1. /\ DOMAIN fresh = {"status", "characters", "active"} /\ fresh.characters = <<>>
        /\ fresh.characters \in Seq(Names) /\ DOMAIN fresh.characters = {}
    OBVIOUS
  <2>2. p \notin DOMAIN players /\ players' = Put(players, p, fresh) /\ names' = names
    BY <1>1 DEF join_player
  <2> HIDE DEF fresh
  <2>3. /\ DOMAIN players' = DOMAIN players \cup {p} /\ players'[p] = fresh
        /\ \A q \in DOMAIN players : players'[q] = players[q]
    BY <2>2 DEF Put
  <2>4. ASSUME NEW q \in DOMAIN players'
        PROVE  /\ DOMAIN players'[q] = {"status", "characters", "active"}
               /\ players'[q].characters \in Seq(Names)
               /\ \A i \in DOMAIN players'[q].characters :
                    players'[q].characters[i] \in DOMAIN names /\ names[players'[q].characters[i]] = q
               /\ \A i, j \in DOMAIN players'[q].characters :
                    players'[q].characters[i] = players'[q].characters[j] => i = j
    <3>1. CASE q = p
      BY <2>1, <2>3, <3>1
    <3>2. CASE q # p
      BY <2>3, <3>2 DEF PlayersInv, CharactersOf
    <3> QED BY <3>1, <3>2
  <2>5. \A n \in DOMAIN names :
          /\ names[n] \in DOMAIN players'
          /\ \E i \in DOMAIN players'[names[n]].characters : players'[names[n]].characters[i] = n
    BY <2>3 DEF PlayersInv, CharactersOf
  <2> QED BY <2>2, <2>4, <2>5 DEF PlayersInv, CharactersOf
<1>2. ASSUME NEW p \in DOMAIN players, DOMAIN players' = DOMAIN players, names' = names,
             \A q \in DOMAIN players : DOMAIN players'[q] = DOMAIN players[q],
             \A q \in DOMAIN players : players'[q].characters = players[q].characters
      PROVE  PlayersInv'
  BY <1>2 DEF PlayersInv, CharactersOf
<1>3. ASSUME NEW p \in People, leave_player(p) PROVE PlayersInv'
  BY <1>2, <1>3 DEF leave_player, PlayersInv
<1>4. ASSUME NEW p \in People, NEW slot, select_character(p, slot) PROVE PlayersInv'
  BY <1>2, <1>4 DEF select_character, PlayersInv
<1>5. ASSUME NEW p \in People, NEW n \in Names, create_character(p, n) PROVE PlayersInv'
  <2> DEFINE old == CharactersOf(p)
             new == Append(old, n)
  <2>1. p \in DOMAIN players /\ n \notin DOMAIN names /\ old \in Seq(Names)
        /\ DOMAIN players[p] = {"status", "characters", "active"}
    BY <1>5 DEF create_character, NameFree, PlayersInv
  <2>2. /\ DOMAIN players' = DOMAIN players /\ players'[p].characters = new
        /\ DOMAIN players'[p] = DOMAIN players[p]
        /\ \A q \in DOMAIN players \ {p} : players'[q] = players[q]
    BY <1>5, <2>1 DEF create_character, CharactersOf
  <2>3. /\ DOMAIN names' = DOMAIN names \cup {n} /\ names'[n] = p
        /\ \A m \in DOMAIN names : names'[m] = names[m]
    BY <1>5, <2>1 DEF create_character, Put
  <2>4. /\ new \in Seq(Names) /\ DOMAIN old = 1..Len(old) /\ DOMAIN new = 1..(Len(old) + 1) /\ Len(old) \in Nat
        /\ new[Len(old) + 1] = n /\ \A i \in 1..Len(old) : new[i] = old[i]
    BY <2>1
  <2>5. \A i \in DOMAIN old : old[i] \in DOMAIN names /\ names[old[i]] = p /\ old[i] # n
    BY <2>1 DEF PlayersInv
  <2>6. \A i : i \in DOMAIN new <=> i \in DOMAIN old \/ i = Len(old) + 1
    BY <2>4
  <2> HIDE DEF new
  <2>7. /\ \A i \in DOMAIN new : new[i] \in DOMAIN names' /\ names'[new[i]] = p
        /\ \A i, j \in DOMAIN new : new[i] = new[j] => i = j
    <3>1. \A i, j \in DOMAIN old : old[i] = old[j] => i = j
      BY <2>1 DEF PlayersInv
    <3>2. new[Len(old) + 1] = n /\ \A i \in DOMAIN old : new[i] = old[i]
      BY <2>4
    <3> QED BY <2>3, <2>5, <2>6, <3>1, <3>2
  <2>8. ASSUME NEW q \in DOMAIN players
        PROVE  /\ DOMAIN players'[q] = {"status", "characters", "active"}
               /\ CharactersOf(q)' \in Seq(Names)
               /\ \A i \in DOMAIN CharactersOf(q)' :
                    CharactersOf(q)'[i] \in DOMAIN names' /\ names'[CharactersOf(q)'[i]] = q
               /\ \A i, j \in DOMAIN CharactersOf(q)' : CharactersOf(q)'[i] = CharactersOf(q)'[j] => i = j
    <3>1. CASE q = p
      BY <2>1, <2>2, <2>4, <2>7, <3>1 DEF CharactersOf
    <3>2. CASE q # p
      BY <2>2, <2>3, <3>2 DEF CharactersOf, PlayersInv
    <3> QED BY <3>1, <3>2
  <2>9. ASSUME NEW m \in DOMAIN names'
        PROVE  /\ names'[m] \in DOMAIN players'
               /\ \E i \in DOMAIN CharactersOf(names[m])' : CharactersOf(names[m])'[i] = m
    <3>1. CASE m = n
      BY <2>1, <2>2, <2>3, <2>4, <2>6, <3>1 DEF CharactersOf
    <3>2. CASE m # n
      <4>1. m \in DOMAIN names /\ names'[m] = names[m] /\ names[m] \in DOMAIN players
        BY <2>3, <3>2 DEF PlayersInv
      <4>2. PICK i \in DOMAIN CharactersOf(names[m]) : CharactersOf(names[m])[i] = m
        BY <4>1 DEF PlayersInv
      <4>3. CASE names[m] = p
        <5>1. i \in DOMAIN new /\ new[i] = m
          BY <2>4, <2>6, <4>2, <4>3
        <5> QED BY <2>2, <4>1, <4>3, <5>1 DEF CharactersOf
      <4>4. CASE names[m] # p
        BY <2>2, <4>1, <4>2, <4>4 DEF CharactersOf
      <4> QED BY <4>3, <4>4
    <3> QED BY <3>1, <3>2
  <2> QED BY <2>2, <2>8, <2>9 DEF PlayersInv, CharactersOf
<1>6. CASE UNCHANGED playerVars
  BY <1>6 DEF playerVars, PlayersInv, CharactersOf
<1> QED BY <1>1, <1>3, <1>4, <1>5, <1>6 DEF PlayersNext

LEMMA PlayersInvGives == PlayersInv => NamesUnique
  BY DEF PlayersInv, NamesUnique, CharactersOf

-----------------------------------------------------------------------------
(* Jobs. *)

OnDuty(p) == p \in DOMAIN employment /\ employment[p].duty

JobsInv ==
    /\ jobs \in Nat
    /\ \A p \in DOMAIN employment :
         DOMAIN employment[p] = {"grade", "duty"} /\ employment[p].grade \in Nat /\ employment[p].duty \in BOOLEAN
    /\ \A p : OnDuty(p) => p \in DOMAIN clocked /\ clocked[p] = employment[p].grade

LEMMA JobsStep == JobsInv /\ [JobsNext]_jobVars => JobsInv'
<1> SUFFICES ASSUME JobsInv, [JobsNext]_jobVars PROVE JobsInv'
  OBVIOUS
<1> USE DEF JobsInv, OnDuty
<1>1. ASSUME NEW grades, register_job(grades) PROVE JobsInv'
  BY <1>1, FrameworkAssumption DEF register_job
<1>2. ASSUME NEW p \in People, fire(p) PROVE JobsInv'
  BY <1>2 DEF fire, Dropped
<1>4. ASSUME NEW p \in People, NEW g \in 0..MaxGrade, employ(p, g) PROVE JobsInv'
  <2> DEFINE e == [grade |-> g, duty |-> FALSE]
  <2>1. DOMAIN e = {"grade", "duty"} /\ e.grade \in Nat /\ e.duty = FALSE
    BY FrameworkAssumption
  <2>2. employment' = Put(employment, p, e) /\ clocked' = Dropped(clocked, p)
        /\ UNCHANGED jobs
    BY <1>4 DEF employ
  <2> HIDE DEF e
  <2> QED BY <2>1, <2>2 DEF Dropped, Put
<1>5. ASSUME NEW p \in People, NEW on \in BOOLEAN, set_duty(p, on) PROVE JobsInv'
  BY <1>5 DEF set_duty, Dropped, Put
<1>6. CASE UNCHANGED jobVars
  BY <1>6 DEF jobVars
<1> QED BY <1>1, <1>2, <1>4, <1>5, <1>6 DEF JobsNext

LEMMA JobsInvGives == JobsInv => WagesEarned
<1> SUFFICES ASSUME JobsInv PROVE WagesEarned
  OBVIOUS
<1>1. ASSUME NEW p \in People, salary(p) > 0 PROVE p \in DOMAIN clocked /\ salary(p) = clocked[p] + 1
  BY <1>1 DEF JobsInv, OnDuty, salary
<1> QED BY <1>1 DEF WagesEarned

-----------------------------------------------------------------------------
(* Rights.  A role above another has each of its permissions, or the       *)
(* wildcard of its scope, or all.                                          *)

RightsInv == \A p \in DOMAIN assignments : p \in People /\ assignments[p] \in Role

LEMMA RightsStep == RightsInv /\ [RightsNext]_rightsVars => RightsInv'
<1> SUFFICES ASSUME RightsInv, [RightsNext]_rightsVars PROVE RightsInv'
  OBVIOUS
<1> USE DEF RightsInv
<1>1. ASSUME NEW p \in People, unassign(p) PROVE RightsInv'
  BY <1>1 DEF unassign, Dropped
<1>2. ASSUME NEW p \in People, NEW r \in Role, assign(p, r) PROVE RightsInv'
  BY <1>2 DEF assign, Put
<1>3. ASSUME NEW p \in People, NEW perm \in Grants, grant_direct(p, perm) PROVE RightsInv'
  BY <1>3 DEF grant_direct
<1>4. CASE UNCHANGED rightsVars
  BY <1>4 DEF rightsVars
<1> QED BY <1>1, <1>2, <1>3, <1>4 DEF RightsNext

Includes(A, g) == g \in A \/ <<g[1], "*">> \in A \/ <<"*", "*">> \in A

LEMMA AboveIncludes ==
    ASSUME NEW r \in Role, NEW low \in Above(r), NEW g \in default_permissions(low)
    PROVE  Includes(default_permissions(r), g)
<1>0. low \in Role
  BY DEF Above, Role
<1>1. CASE r = low
  BY <1>1 DEF Includes
<1>2. CASE r = "Owner"
  BY <1>2 DEF Includes, default_permissions
<1>3. CASE r = "SuperAdmin" /\ low # r
  <2>1. low \in {"Admin", "Moderator", "Developer", "Support", "ReadOnly"}
    BY <1>3 DEF Above, Role
  <2>2. g \in default_permissions("SuperAdmin") \/ g[1] = "resources" \/ g[1] = "server"
    <3>1. CASE low = "Admin"
      BY <3>1 DEF default_permissions
    <3>2. CASE low = "Moderator"
      BY <3>2 DEF default_permissions
    <3>3. CASE low = "Developer"
      BY <3>3 DEF default_permissions
    <3>4. CASE low \in {"Support", "ReadOnly"}
      BY <3>4 DEF default_permissions
    <3> QED BY <2>1, <3>1, <3>2, <3>3, <3>4
  <2>3. <<"resources", "*">> \in default_permissions("SuperAdmin") /\ <<"server", "*">> \in default_permissions("SuperAdmin")
    BY DEF default_permissions
  <2> QED BY <1>3, <2>2, <2>3 DEF Includes
<1>4. CASE r = "Admin" /\ low # r
  <2>1. low \in {"Moderator", "Developer", "Support", "ReadOnly"}
    BY <1>4 DEF Above, Role
  <2>2. g \in default_permissions("Admin")
    BY <2>1 DEF default_permissions
  <2> QED BY <1>4, <2>2 DEF Includes
<1>5. CASE r \in {"Developer", "Support"} /\ low # r
  <2>1. low = "ReadOnly"
    BY <1>5 DEF Above, Role
  <2>2. g \in default_permissions(r)
    BY <1>5, <2>1 DEF default_permissions
  <2> QED BY <2>2 DEF Includes
<1>6. CASE r \in {"Moderator", "ReadOnly"} /\ low # r
  BY <1>6 DEF Above
<1> QED BY <1>1, <1>2, <1>3, <1>4, <1>5, <1>6 DEF Role

LEMMA RightsInvGives == RightsInv => RightsOrdered
<1> SUFFICES ASSUME RightsInv PROVE RightsOrdered
  OBVIOUS
<1>1. ASSUME NEW q \in DOMAIN assignments, NEW p \in DOMAIN assignments, NEW perm, check(q, perm),
             direct[q] \subseteq direct[p], assignments[q] \in Above(assignments[p])
      PROVE  check(p, perm)
  <2> DEFINE A == default_permissions(assignments[p])
  <2>1. PICK g \in default_permissions(assignments[q]) \cup direct[q] :
               g = <<"*", "*">> \/ g = perm \/ g = <<perm[1], "*">>
    BY <1>1 DEF check
  <2>2. CASE g \in direct[q]
    BY <1>1, <2>1, <2>2 DEF check
  <2>3. CASE g \in default_permissions(assignments[q])
    <3>1. assignments[p] \in Role
      BY DEF RightsInv
    <3>2. Includes(A, g)
      BY <1>1, <2>3, <3>1, AboveIncludes
    <3>3. g \in A \/ <<g[1], "*">> \in A \/ <<"*", "*">> \in A
      BY <3>2 DEF Includes
    <3> HIDE DEF A
    <3>4. \E h \in A : h = <<"*", "*">> \/ h = perm \/ h = <<perm[1], "*">>
      <4>1. CASE g \in A
        BY <2>1, <4>1
      <4>2. CASE <<"*", "*">> \in A
        BY <4>2
      <4>3. CASE <<g[1], "*">> \in A
        <5>1. g = <<"*", "*">> => <<g[1], "*">> = <<"*", "*">>
          OBVIOUS
        <5>2. g = <<perm[1], "*">> => <<g[1], "*">> = <<perm[1], "*">>
          OBVIOUS
        <5>3. g = perm => <<g[1], "*">> = <<perm[1], "*">>
          OBVIOUS
        <5> QED BY <2>1, <4>3, <5>1, <5>2, <5>3
      <4> QED BY <3>3, <4>1, <4>2, <4>3
    <3> QED BY <3>4 DEF check, A
  <2> QED BY <2>1, <2>2, <2>3
<1>2. \A q, perm : check(q, perm) => q \in DOMAIN assignments
  BY DEF check
<1> QED BY <1>1, <1>2 DEF RightsOrdered

-----------------------------------------------------------------------------
(* The framework: bags, players, jobs and rights, each moving as it likes. *)

FrameworkSpec ==
    /\ BagsInit /\ PlayersInit /\ JobsInit /\ RightsInit
    /\ [][BagsNext]_bagVars /\ [][PlayersNext]_playerVars /\ [][JobsNext]_jobVars /\ [][RightsNext]_rightsVars

(* For any scripts, players and sequence of calls: the owners the strict   *)
(* layer records are those of the bags, handlers heard of everything but   *)
(* keys born as Nil, a character name is one character of one player, who  *)
(* is paid is on duty in that grade, and in the code's table of roles one  *)
(* that is above another is allowed no less, while who has no role is      *)
(* allowed nothing.                                                        *)
THEOREM FrameworkAlwaysSound == FrameworkSpec => []FrameworkSound
<1>1. BagsInit => BagsInv
  BY DEF BagsInit, BagsInv
<1>2. PlayersInit => PlayersInv
  BY DEF PlayersInit, PlayersInv
<1>3. JobsInit => JobsInv
  BY DEF JobsInit, JobsInv, OnDuty
<1>4. RightsInit => RightsInv
  BY DEF RightsInit, RightsInv
<1>5. BagsInv /\ PlayersInv /\ JobsInv /\ RightsInv => FrameworkSound
  BY BagsInvGives, PlayersInvGives, JobsInvGives, RightsInvGives DEF FrameworkSound
<1> QED BY <1>1, <1>2, <1>3, <1>4, <1>5, BagsStep, PlayersStep, JobsStep, RightsStep, PTL DEF FrameworkSpec

-----------------------------------------------------------------------------
(* Shards: the leases of an entity ascend in epoch, none is beyond the     *)
(* coordinator's, and the lease in force is the last given.                *)

LeaseType == [owner : ShardIds, epoch : Nat, expires : Nat]

TicketType == [from : ShardIds, to : ShardIds, entities : SUBSET Objects,
               phase : {"Initiated", "Prepared", "Committed", "Aborted"}]

ShardsTypeOK ==
    /\ \A t \in DOMAIN tickets : tickets[t] \in TicketType
    /\ current_epoch \in Nat /\ shardNow \in Nat
    /\ given \in [Objects -> Seq(LeaseType)]
    /\ DOMAIN leases \subseteq Objects

LeasesOrdered ==
    /\ \A e \in Objects : \A i \in 1..Len(given[e]) : given[e][i].epoch <= current_epoch
    /\ \A e \in Objects : \A i \in 1..(Len(given[e]) - 1) : given[e][i].epoch < given[e][i + 1].epoch
    /\ \A e \in DOMAIN leases : given[e] # <<>> /\ leases[e] = given[e][Len(given[e])]
    /\ \A e, f \in DOMAIN leases : leases[e].epoch = leases[f].epoch => leases[e].owner = leases[f].owner

ShardsInv == ShardsTypeOK /\ LeasesOrdered

LEMMA TicketMoved ==
    ASSUME ShardsTypeOK, NEW t \in DOMAIN tickets, NEW p \in {"Initiated", "Prepared", "Committed", "Aborted"},
           tickets' = [tickets EXCEPT ![t].phase = p]
    PROVE  \A x \in DOMAIN tickets' : tickets'[x] \in TicketType
<1> DEFINE r == [tickets[t] EXCEPT !.phase = p]
<1>1. r \in TicketType
  BY DEF ShardsTypeOK, TicketType
<1>2. DOMAIN tickets' = DOMAIN tickets /\ tickets'[t] = r
      /\ \A x \in DOMAIN tickets \ {t} : tickets'[x] = tickets[x]
  OBVIOUS
<1> HIDE DEF r
<1> QED BY <1>1, <1>2 DEF ShardsTypeOK

LEMMA LeasesGiven ==
    ASSUME ShardsInv, NEW es \in SUBSET Objects, NEW owner \in ShardIds, Give(es, owner),
           \A x \in DOMAIN tickets' : tickets'[x] \in TicketType
    PROVE  ShardsInv'
<1> DEFINE new == Lease(owner, Next_epoch)
<1>1. current_epoch \in Nat /\ shardNow \in Nat /\ LeaseTtl \in Nat
  BY ShardAssumption DEF ShardsInv, ShardsTypeOK
<1>2. new \in LeaseType /\ new.epoch = current_epoch + 1 /\ new.owner = owner
  BY <1>1 DEF Lease, Next_epoch, LeaseType
<1> HIDE DEF new
<1>3. /\ current_epoch' = current_epoch + 1 /\ shardNow' = shardNow
      /\ DOMAIN leases' = DOMAIN leases \cup es
      /\ \A e \in DOMAIN leases' : leases'[e] = IF e \in es THEN new ELSE leases[e]
      /\ given' = [e \in Objects |-> IF e \in es THEN Append(given[e], new) ELSE given[e]]
  BY DEF Give, Next_epoch, new
<1>4. \A e \in Objects : given[e] \in Seq(LeaseType) /\ Len(given[e]) \in Nat
      /\ \A i \in 1..Len(given[e]) : given[e][i].epoch \in Nat
  <2>1. \A e \in Objects : given[e] \in Seq(LeaseType)
    BY DEF ShardsInv, ShardsTypeOK
  <2>2. \A e \in Objects : \A i \in 1..Len(given[e]) : given[e][i] \in LeaseType
    BY <2>1
  <2>3. \A l \in LeaseType : l.epoch \in Nat
    BY DEF LeaseType
  <2> HIDE DEF LeaseType
  <2> QED BY <2>1, <2>2, <2>3
<1>5. ASSUME NEW e \in es
      PROVE  /\ given'[e] \in Seq(LeaseType) /\ Len(given'[e]) = Len(given[e]) + 1
             /\ given'[e][Len(given[e]) + 1] = new
             /\ \A i \in 1..Len(given[e]) : given'[e][i] = given[e][i]
  BY <1>2, <1>3, <1>4
<1>6. \A e \in Objects \ es : given'[e] = given[e]
  BY <1>3
<1>7. ShardsTypeOK'
  <2>1. current_epoch' \in Nat /\ shardNow' \in Nat
    BY <1>1, <1>3
  <2>2. given' \in [Objects -> Seq(LeaseType)]
    BY <1>3, <1>4, <1>5, <1>6
  <2>3. DOMAIN leases' \subseteq Objects
    BY <1>3 DEF ShardsInv, ShardsTypeOK
  <2> QED BY <2>1, <2>2, <2>3 DEF ShardsTypeOK
<1>8. \A e \in Objects : \A i \in 1..Len(given'[e]) : given'[e][i].epoch <= current_epoch'
  <2> SUFFICES ASSUME NEW e \in Objects, NEW i \in 1..Len(given'[e])
               PROVE  given'[e][i].epoch <= current_epoch + 1
    BY <1>3
  <2>1. CASE e \in es /\ i = Len(given[e]) + 1
    BY <1>1, <1>2, <1>5, <2>1
  <2>2. CASE i \in 1..Len(given[e])
    <3>1. given'[e][i] = given[e][i]
      BY <1>5, <1>6, <2>2
    <3>2. given[e][i].epoch <= current_epoch
      BY <2>2 DEF ShardsInv, LeasesOrdered
    <3> QED BY <1>1, <1>4, <2>2, <3>1, <3>2
  <2>3. i \in 1..Len(given[e]) \/ (e \in es /\ i = Len(given[e]) + 1)
    BY <1>4, <1>5, <1>6
  <2> QED BY <2>1, <2>2, <2>3
<1>9. \A e \in Objects : \A i \in 1..(Len(given'[e]) - 1) : given'[e][i].epoch < given'[e][i + 1].epoch
  <2> SUFFICES ASSUME NEW e \in Objects, NEW i \in 1..(Len(given'[e]) - 1)
               PROVE  given'[e][i].epoch < given'[e][i + 1].epoch
    OBVIOUS
  <2>1. CASE e \notin es
    BY <1>6, <2>1 DEF ShardsInv, LeasesOrdered
  <2>2. CASE e \in es
    <3>1. i \in 1..Len(given[e]) /\ i \in Nat /\ (i = Len(given[e]) \/ i \in 1..(Len(given[e]) - 1))
      BY <1>4, <1>5, <2>2
    <3>2. CASE i = Len(given[e])
      <4>1. given'[e][i] = given[e][i] /\ given'[e][i + 1] = new
        BY <1>5, <2>2, <3>1, <3>2
      <4>2. given[e][i].epoch <= current_epoch
        BY <3>1 DEF ShardsInv, LeasesOrdered
      <4> QED BY <1>1, <1>2, <1>4, <3>1, <4>1, <4>2
    <3>3. CASE i \in 1..(Len(given[e]) - 1)
      <4>1. i + 1 \in 1..Len(given[e])
        BY <1>4, <3>3
      <4>2. given'[e][i] = given[e][i] /\ given'[e][i + 1] = given[e][i + 1]
        BY <1>5, <2>2, <3>1, <4>1
      <4> QED BY <4>2, <3>3 DEF ShardsInv, LeasesOrdered
    <3> QED BY <3>1, <3>2, <3>3
  <2> QED BY <2>1, <2>2
<1>10. \A e \in DOMAIN leases' : given'[e] # <<>> /\ leases'[e] = given'[e][Len(given'[e])]
  <2> SUFFICES ASSUME NEW e \in DOMAIN leases'
               PROVE  given'[e] # <<>> /\ leases'[e] = given'[e][Len(given'[e])]
    OBVIOUS
  <2>1. CASE e \in es
    <3>1. Len(given'[e]) # 0
      BY <1>4, <1>5, <2>1
    <3>2. given'[e] # <<>>
      BY <3>1
    <3> QED BY <1>3, <1>5, <2>1, <3>2
  <2>2. CASE e \notin es
    <3>1. e \in DOMAIN leases /\ e \in Objects
      BY <1>3, <2>2 DEF ShardsInv, ShardsTypeOK
    <3> QED BY <1>3, <1>6, <2>2, <3>1 DEF ShardsInv, LeasesOrdered
  <2> QED BY <2>1, <2>2
<1>11. \A e \in DOMAIN leases : leases[e].epoch \in Nat /\ leases[e].epoch <= current_epoch
  <2> SUFFICES ASSUME NEW e \in DOMAIN leases PROVE leases[e].epoch \in Nat /\ leases[e].epoch <= current_epoch
    OBVIOUS
  <2>1. e \in Objects /\ given[e] # <<>> /\ leases[e] = given[e][Len(given[e])]
    BY DEF ShardsInv, ShardsTypeOK, LeasesOrdered
  <2>2. Len(given[e]) \in 1..Len(given[e])
    BY <1>4, <2>1
  <2> QED BY <1>4, <2>1, <2>2 DEF ShardsInv, LeasesOrdered
<1>12. \A e, f \in DOMAIN leases' : leases'[e].epoch = leases'[f].epoch => leases'[e].owner = leases'[f].owner
  <2> SUFFICES ASSUME NEW e \in DOMAIN leases', NEW f \in DOMAIN leases', leases'[e].epoch = leases'[f].epoch
               PROVE  leases'[e].owner = leases'[f].owner
    OBVIOUS
  <2>1. \A x \in DOMAIN leases' : x \notin es => x \in DOMAIN leases /\ leases'[x] = leases[x]
          /\ leases'[x].epoch # current_epoch + 1
    BY <1>1, <1>3, <1>11
  <2>2. \A x \in DOMAIN leases' : x \in es => leases'[x].epoch = current_epoch + 1 /\ leases'[x].owner = owner
    BY <1>2, <1>3
  <2>3. CASE e \in es /\ f \in es
    BY <2>2, <2>3
  <2>4. CASE e \notin es /\ f \notin es
    BY <2>1, <2>4 DEF ShardsInv, LeasesOrdered
  <2> QED BY <2>1, <2>2, <2>3, <2>4
<1> QED BY <1>7, <1>8, <1>9, <1>10, <1>12 DEF ShardsInv, LeasesOrdered

LEMMA ShardsStep == ShardsInv /\ [ShardsNext]_shardVars => ShardsInv'
<1> SUFFICES ASSUME ShardsInv, [ShardsNext]_shardVars PROVE ShardsInv'
  OBVIOUS
<1>1. ASSUME NEW t, NEW from \in ShardIds, NEW to \in ShardIds, NEW es \in SUBSET Objects,
             initiate_handoff(t, from, to, es)
      PROVE  ShardsInv'
  <2> DEFINE r == [from |-> from, to |-> to, entities |-> es, phase |-> "Initiated"]
  <2>1. r \in TicketType
    BY DEF TicketType
  <2>2. tickets' = Entered(tickets, t, r) /\ UNCHANGED <<leases, current_epoch, shardNow, given>>
    BY <1>1 DEF initiate_handoff
  <2> HIDE DEF r
  <2>3. \A x \in DOMAIN tickets' : tickets'[x] \in TicketType
    BY <2>1, <2>2 DEF Entered, ShardsInv, ShardsTypeOK
  <2> QED BY <2>2, <2>3 DEF ShardsInv, ShardsTypeOK, LeasesOrdered
<1>2. ASSUME NEW t, prepare_handoff(t) \/ abort_handoff(t) PROVE ShardsInv'
  <2>1. t \in DOMAIN tickets /\ (\E p \in {"Prepared", "Aborted"} : tickets' = [tickets EXCEPT ![t].phase = p])
        /\ UNCHANGED <<leases, current_epoch, shardNow, given>>
    BY <1>2 DEF prepare_handoff, abort_handoff
  <2>2. \A x \in DOMAIN tickets' : tickets'[x] \in TicketType
    BY <2>1, TicketMoved DEF ShardsInv
  <2> QED BY <2>1, <2>2 DEF ShardsInv, ShardsTypeOK, LeasesOrdered
<1>3. ASSUME NEW t, commit_handoff(t) PROVE ShardsInv'
  <2>1. t \in DOMAIN tickets /\ tickets' = [tickets EXCEPT ![t].phase = "Committed"]
        /\ Give(tickets[t].entities, tickets[t].to)
    BY <1>3 DEF commit_handoff
  <2>2. \A x \in DOMAIN tickets' : tickets'[x] \in TicketType
    BY <2>1, TicketMoved DEF ShardsInv
  <2>3. tickets[t].entities \in SUBSET Objects /\ tickets[t].to \in ShardIds
    BY <2>1 DEF ShardsInv, ShardsTypeOK, TicketType
  <2> QED BY <2>1, <2>2, <2>3, LeasesGiven
<1>4. ASSUME NEW e \in Objects, NEW s \in ShardIds, acquire_lease(e, s) PROVE ShardsInv'
  <2>1. Give({e}, s) /\ tickets' = tickets
    BY <1>4 DEF acquire_lease
  <2>2. \A x \in DOMAIN tickets' : tickets'[x] \in TicketType
    BY <2>1 DEF ShardsInv, ShardsTypeOK
  <2> QED BY <2>1, <2>2, LeasesGiven
<1>5. CASE reclaim_expired_leases
  <2>1. DOMAIN leases' \subseteq DOMAIN leases /\ (\A e \in DOMAIN leases' : leases'[e] = leases[e])
        /\ UNCHANGED <<tickets, current_epoch, shardNow, given>>
    BY <1>5 DEF reclaim_expired_leases
  <2>2. ShardsTypeOK'
    BY <2>1 DEF ShardsInv, ShardsTypeOK
  <2>3. \A e \in DOMAIN leases' : given[e] # <<>> /\ leases'[e] = given[e][Len(given[e])]
    BY <2>1 DEF ShardsInv, LeasesOrdered
  <2>4. \A e, f \in DOMAIN leases' : leases'[e].epoch = leases'[f].epoch => leases'[e].owner = leases'[f].owner
    BY <2>1 DEF ShardsInv, LeasesOrdered
  <2>5. LeasesOrdered'
    BY <2>1, <2>3, <2>4 DEF ShardsInv, LeasesOrdered
  <2> QED BY <2>2, <2>5 DEF ShardsInv
<1>6. CASE shard_tick
  <2>1. shardNow' \in Nat /\ UNCHANGED <<tickets, leases, current_epoch, given>>
    BY <1>6 DEF shard_tick, ShardsInv, ShardsTypeOK
  <2> QED BY <2>1 DEF ShardsInv, ShardsTypeOK, LeasesOrdered
<1>7. CASE UNCHANGED shardVars
  BY <1>7 DEF shardVars, ShardsInv, ShardsTypeOK, LeasesOrdered
<1>8. ASSUME NEW t, NEW h \in Handoffs, initiate_handoff(t, h.from, h.to, h.entities) PROVE ShardsInv'
  <2>1. h.from \in ShardIds /\ h.to \in ShardIds /\ h.entities \in SUBSET Objects
    BY ShardAssumption
  <2> QED BY <1>1, <1>8, <2>1
<1> QED BY <1>2, <1>3, <1>4, <1>5, <1>6, <1>7, <1>8 DEF ShardsNext

LEMMA ShardsInvGives == ShardsInv => LeasesFenced
<1> SUFFICES ASSUME ShardsInv PROVE LeasesFenced
  OBVIOUS
<1>1. ASSUME NEW e \in DOMAIN leases PROVE leases[e] = Last(given[e]) /\ leases[e].epoch <= current_epoch
  <2>1. e \in Objects /\ given[e] # <<>> /\ leases[e] = given[e][Len(given[e])] /\ given[e] \in Seq(LeaseType)
    BY DEF ShardsInv, ShardsTypeOK, LeasesOrdered
  <2>2. Len(given[e]) \in 1..Len(given[e])
    BY <2>1
  <2> QED BY <2>1, <2>2 DEF ShardsInv, LeasesOrdered, Last
<1> QED BY <1>1 DEF ShardsInv, LeasesOrdered, LeasesFenced

-----------------------------------------------------------------------------
(* The edge: the table counts what is open. *)

EdgeInv ==
    /\ connections \in [Sources -> Nat] /\ DOMAIN per_ip \subseteq Sources
    /\ \A s \in Sources : Count(s) = connections[s] /\ connections[s] <= per_ip_connection_limit
    /\ origin_in_use = Cardinality(Open_connections) /\ origin_in_use <= origin_connection_limit
    /\ originHealth \in [state : {"Healthy", "Degraded", "Down"}, failures : Nat]
    /\ originHealth.state = "Down" <=> originHealth.failures >= failure_threshold /\ originHealth.failures > 0

LEMMA EdgeNumbers == /\ IsFiniteSet(Sources)
                     /\ per_ip_connection_limit \in Nat /\ origin_connection_limit \in Nat /\ failure_threshold \in Nat
  BY EdgeAssumption

LEMMA OpenFinite == IsFiniteSet(Open_connections) /\ Cardinality(Open_connections) \in Nat
<1>1. IsFiniteSet(1..per_ip_connection_limit)
  BY EdgeNumbers, FS_Interval
<1>2. IsFiniteSet(Sources \X (1..per_ip_connection_limit))
  BY <1>1, EdgeNumbers, FS_Product
<1>3. Open_connections \in SUBSET (Sources \X (1..per_ip_connection_limit))
  BY DEF Open_connections
<1>4. IsFiniteSet(Open_connections)
  BY <1>2, <1>3, FS_Subset
<1> QED BY <1>4, FS_CardinalityType

(* One connection of s more is one pair more. *)
LEMMA OneMore ==
    ASSUME NEW n \in [Sources -> Nat], NEW s \in Sources, n[s] < per_ip_connection_limit
    PROVE  LET pairs(f) == {c \in Sources \X (1..per_ip_connection_limit) : c[2] <= f[c[1]]}
           IN  /\ pairs([n EXCEPT ![s] = n[s] + 1]) = pairs(n) \cup {<<s, n[s] + 1>>}
               /\ <<s, n[s] + 1>> \notin pairs(n)
<1> DEFINE L == per_ip_connection_limit
           pairs(f) == {c \in Sources \X (1..L) : c[2] <= f[c[1]]}
           m == [n EXCEPT ![s] = n[s] + 1]
<1>0. L \in Nat /\ n[s] \in Nat
  BY EdgeNumbers
<1>1. n[s] + 1 \in 1..L /\ ~ (n[s] + 1 <= n[s])
  BY <1>0
<1>2. <<s, n[s] + 1>> \notin pairs(n)
  BY <1>1
<1>3. ASSUME NEW x \in Sources, NEW i \in 1..L
      PROVE  i <= m[x] <=> i <= n[x] \/ (x = s /\ i = n[s] + 1)
  <2>1. n[x] \in Nat /\ i \in Nat
    BY <1>0
  <2>2. CASE x = s
    BY <1>0, <2>1, <2>2
  <2>3. CASE x # s
    BY <2>1, <2>3
  <2> QED BY <2>2, <2>3
<1>4. ASSUME NEW c \in Sources \X (1..L) PROVE c \in pairs(m) <=> c \in pairs(n) \cup {<<s, n[s] + 1>>}
  <2>1. c[1] \in Sources /\ c[2] \in 1..L /\ c = <<c[1], c[2]>>
    OBVIOUS
  <2>2. c = <<s, n[s] + 1>> <=> c[1] = s /\ c[2] = n[s] + 1
    BY <2>1
  <2> HIDE DEF m
  <2> QED BY <1>3, <2>1, <2>2
<1>5. <<s, n[s] + 1>> \in Sources \X (1..L)
  BY <1>1
<1>6. pairs(m) = pairs(n) \cup {<<s, n[s] + 1>>}
  BY <1>4, <1>5
<1> QED BY <1>2, <1>6

LEMMA EdgeStep == EdgeInv /\ [EdgeNext]_edgeVars => EdgeInv'
<1> SUFFICES ASSUME EdgeInv, [EdgeNext]_edgeVars PROVE EdgeInv'
  OBVIOUS
<1> DEFINE L == per_ip_connection_limit
           N == Cardinality(Open_connections)
<1>0. /\ connections \in [Sources -> Nat] /\ DOMAIN per_ip \subseteq Sources
      /\ \A s \in Sources : Count(s) = connections[s] /\ connections[s] <= L
      /\ origin_in_use = N /\ origin_in_use <= origin_connection_limit
      /\ N \in Nat /\ IsFiniteSet(Open_connections) /\ L \in Nat /\ origin_connection_limit \in Nat
  BY EdgeNumbers, OpenFinite DEF EdgeInv
<1> HIDE DEF L, N
<1>1. ASSUME NEW s \in Sources, admit_connection(s) PROVE EdgeInv'
  <2> DEFINE more == Count(s) < L /\ origin_in_use < origin_connection_limit
             k == IF more THEN Count(s) + 1 ELSE Count(s)
  <2>1. per_ip' = Entered(per_ip, s, k) /\ UNCHANGED <<denied_ips, originHealth, shielding>>
    BY <1>1 DEF admit_connection, L
  <2>2. \A x \in Sources : Count(x)' = IF x = s THEN k ELSE Count(x)
    <3> HIDE DEF k
    <3> QED BY <2>1 DEF Count, Entered
  <2>3. DOMAIN per_ip' \subseteq Sources
    BY <1>0, <2>1 DEF Entered
  <2>4. CASE more
    <3>1. origin_in_use' = origin_in_use + 1 /\ connections' = [connections EXCEPT ![s] = connections[s] + 1]
      BY <1>1, <2>4 DEF admit_connection, L
    <3>2. connections[s] \in Nat /\ connections[s] < L /\ Count(s) = connections[s]
      BY <1>0, <2>4
    <3>3. connections' \in [Sources -> Nat]
      BY <1>0, <3>1, <3>2
    <3>4. \A x \in Sources : Count(x)' = connections'[x] /\ connections'[x] <= L
      BY <1>0, <2>2, <2>4, <3>1, <3>2
    <3>5. Open_connections' = Open_connections \cup {<<s, connections[s] + 1>>}
          /\ <<s, connections[s] + 1>> \notin Open_connections
      BY <1>0, <3>1, <3>2, OneMore DEF Open_connections, L
    <3>6. Cardinality(Open_connections') = N + 1
      BY <1>0, <3>5, FS_AddElement DEF N
    <3>7. origin_in_use' <= origin_connection_limit
      BY <1>0, <2>4, <3>1
    <3> QED BY <1>0, <2>1, <2>3, <3>1, <3>3, <3>4, <3>6, <3>7 DEF EdgeInv, L
  <2>5. CASE ~more
    <3>1. UNCHANGED <<origin_in_use, connections>>
      BY <1>1, <2>5 DEF admit_connection, L
    <3>2. \A x \in Sources : Count(x)' = Count(x)
      BY <2>2, <2>5
    <3> QED BY <2>1, <2>3, <3>1, <3>2 DEF EdgeInv, Open_connections
  <2> QED BY <2>4, <2>5
<1>2. ASSUME NEW s \in Sources, release_connection(s) PROVE EdgeInv'
  <2> DEFINE fewer == connections[s] - 1
  <2>1. /\ per_ip' = IF Count(s) <= 1 THEN [t \in DOMAIN per_ip \ {s} |-> per_ip[t]] ELSE [per_ip EXCEPT ![s] = @ - 1]
        /\ origin_in_use' = Max({0, origin_in_use - 1})
        /\ connections' = [connections EXCEPT ![s] = fewer]
        /\ connections[s] > 0 /\ UNCHANGED <<denied_ips, originHealth, shielding>>
    BY <1>2 DEF release_connection
  <2>2. connections[s] \in Nat /\ fewer \in Nat /\ fewer < L /\ connections[s] = fewer + 1 /\ Count(s) = connections[s]
    BY <1>0, <2>1
  <2>3. connections' \in [Sources -> Nat]
    BY <1>0, <2>1, <2>2
  <2>4. \A x \in Sources : Count(x)' = IF x = s THEN fewer ELSE Count(x)
    <3>1. s \in DOMAIN per_ip /\ per_ip[s] = connections[s]
      <4>1. Count(s) # 0
        BY <2>1, <2>2
      <4> QED BY <2>2, <4>1 DEF Count
    <3>2. CASE Count(s) <= 1
      <4>1. per_ip' = [t \in DOMAIN per_ip \ {s} |-> per_ip[t]] /\ fewer = 0
        BY <2>1, <2>2, <3>2
      <4> HIDE DEF fewer
      <4> QED BY <4>1 DEF Count
    <3>3. CASE ~ (Count(s) <= 1)
      <4>1. per_ip' = [per_ip EXCEPT ![s] = fewer]
        BY <2>1, <3>1, <3>3
      <4>2. DOMAIN per_ip' = DOMAIN per_ip /\ per_ip'[s] = fewer
            /\ \A x \in DOMAIN per_ip \ {s} : per_ip'[x] = per_ip[x]
        BY <3>1, <4>1
      <4> HIDE DEF fewer
      <4> QED BY <3>1, <4>2 DEF Count
    <3> QED BY <3>2, <3>3
  <2>5. DOMAIN per_ip' \subseteq Sources
    BY <1>0, <2>1
  <2> HIDE DEF fewer
  <2>6. \A x \in Sources : Count(x)' = connections'[x] /\ connections'[x] <= L
    BY <1>0, <2>1, <2>2, <2>4
  <2>7. Open_connections = Open_connections' \cup {<<s, connections[s]>>} /\ <<s, connections[s]>> \notin Open_connections'
    <3>1. connections'[s] = fewer /\ connections = [connections' EXCEPT ![s] = connections'[s] + 1]
      BY <1>0, <2>1, <2>2
    <3>2. connections'[s] < per_ip_connection_limit
      BY <2>2, <3>1 DEF L
    <3>3. LET pairs(f) == {c \in Sources \X (1..per_ip_connection_limit) : c[2] <= f[c[1]]}
          IN  /\ pairs([connections' EXCEPT ![s] = connections'[s] + 1]) = pairs(connections') \cup {<<s, connections'[s] + 1>>}
              /\ <<s, connections'[s] + 1>> \notin pairs(connections')
      BY <2>3, <3>2, OneMore
    <3> QED BY <2>2, <3>1, <3>3 DEF Open_connections
  <2>8. Open_connections' = Open_connections \ {<<s, connections[s]>>} /\ <<s, connections[s]>> \in Open_connections
    BY <2>7
  <2>9. Cardinality(Open_connections') = N - 1
    BY <1>0, <2>8, FS_RemoveElement DEF N
  <2>10. N >= 1
    BY <1>0, <2>8, FS_EmptySet DEF N
  <2>11. Max({0, N - 1}) = N - 1
    <3>1. \E x \in {0, N - 1} : \A y \in {0, N - 1} : x >= y
      BY <1>0
    <3>2. Max({0, N - 1}) \in {0, N - 1} /\ \A y \in {0, N - 1} : Max({0, N - 1}) >= y
      BY <3>1 DEF Max
    <3> QED BY <1>0, <2>10, <3>2
  <2>12. origin_in_use' = N - 1 /\ origin_in_use' <= origin_connection_limit
    BY <1>0, <2>1, <2>11
  <2> QED BY <2>1, <2>3, <2>5, <2>6, <2>9, <2>12 DEF EdgeInv, L
<1>3. ASSUME NEW s, ban_ip(s) \/ unban_ip(s) \/ set_shielding(s) PROVE EdgeInv'
  BY <1>3 DEF ban_ip, unban_ip, set_shielding, EdgeInv, Count, Open_connections
<1>4. CASE edge_gc
  <2>1. per_ip' = [x \in {t \in DOMAIN per_ip : per_ip[t] > 0} |-> per_ip[x]]
        /\ UNCHANGED <<origin_in_use, denied_ips, originHealth, shielding, connections>>
    BY <1>4 DEF edge_gc
  <2>2. \A x \in Sources : Count(x)' = Count(x)
    <3> SUFFICES ASSUME NEW x \in Sources PROVE Count(x)' = Count(x)
      OBVIOUS
    <3>1. Count(x) \in Nat
      BY <1>0
    <3>2. x \in DOMAIN per_ip' <=> x \in DOMAIN per_ip /\ per_ip[x] > 0
      BY <2>1
    <3> QED BY <2>1, <3>1, <3>2 DEF Count
  <2>3. DOMAIN per_ip' \subseteq Sources
    BY <1>0, <2>1
  <2> QED BY <2>1, <2>2, <2>3 DEF EdgeInv, Open_connections
<1>5. ASSUME NEW ok \in BOOLEAN, probe_origin(ok) PROVE EdgeInv'
  <2>1. originHealth' = record_health(ok) /\ UNCHANGED <<per_ip, origin_in_use, denied_ips, connections>>
    BY <1>5 DEF probe_origin
  <2>2. originHealth.failures \in Nat /\ failure_threshold \in Nat
    BY EdgeNumbers DEF EdgeInv
  <2>3. originHealth' \in [state : {"Healthy", "Degraded", "Down"}, failures : Nat]
        /\ (originHealth'.state = "Down" <=> originHealth'.failures >= failure_threshold /\ originHealth'.failures > 0)
    <3>1. CASE ok
      <4>1. originHealth' = [state |-> "Healthy", failures |-> 0]
        BY <2>1, <3>1 DEF record_health
      <4>2. originHealth'.state = "Healthy" /\ originHealth'.failures = 0
        BY <4>1
      <4>3. originHealth' \in [state : {"Healthy", "Degraded", "Down"}, failures : Nat]
        BY <4>1
      <4>4. originHealth'.state = "Down" <=> FALSE
        BY <4>2
      <4>5. ~ (originHealth'.failures > 0)
        BY <4>2
      <4> QED BY <4>3, <4>4, <4>5, Zenon
    <3>2. CASE ~ok
      <4> DEFINE n == originHealth.failures + 1
                 st == IF n >= failure_threshold THEN "Down" ELSE "Degraded"
      <4>1. originHealth' = [state |-> st, failures |-> n]
        BY <2>1, <3>2 DEF record_health
      <4>2. n \in Nat /\ n > 0 /\ st \in {"Degraded", "Down"} /\ (st = "Down" <=> n >= failure_threshold)
        BY <2>2
      <4> HIDE DEF n, st
      <4>3. originHealth'.state = st /\ originHealth'.failures = n
        BY <4>1
      <4>4. originHealth' \in [state : {"Healthy", "Degraded", "Down"}, failures : Nat]
        BY <4>1, <4>2
      <4>5. originHealth'.state = "Down" <=> st = "Down"
        BY <4>3
      <4> QED BY <4>2, <4>3, <4>4, <4>5, Zenon
    <3> QED BY <3>1, <3>2
  <2>4. \A x \in Sources : Count(x)' = Count(x)
    BY <2>1 DEF Count
  <2> QED BY <2>1, <2>3, <2>4 DEF EdgeInv, Open_connections
<1>6. CASE UNCHANGED edgeVars
  BY <1>6 DEF edgeVars, EdgeInv, Count, Open_connections
<1> QED BY <1>1, <1>2, <1>3, <1>4, <1>5, <1>6 DEF EdgeNext

-----------------------------------------------------------------------------
(* Queries.  The last window began with answer k; it holds no more than    *)
(* its share, and of the answers before it fewer than a share are less     *)
(* than a window older.  The sweep forgets the window only when it is      *)
(* over.                                                                   *)

Share == IF max_per_window = 0 THEN 1 ELSE max_per_window

LastWindow(k) ==
    /\ k \in 1..Len(answeredAt) /\ Len(answeredAt) - k < Share
    /\ \A i \in 1..(k - 1) : answeredAt[k] - answeredAt[i] < query_window => k - i < Share
    /\ hits = <<>> => queryNow - answeredAt[k] >= query_window
    /\ hits # <<>> => hits.start = answeredAt[k] /\ hits.count = Len(answeredAt) - k + 1
                      /\ DOMAIN hits = {"start", "count"}

AnswersSpread ==
    \A i, j \in 1..Len(answeredAt) :
        i < j /\ answeredAt[j] - answeredAt[i] < query_window => j - i < 2 * max_per_window - 1

ReplyOK(r) ==
    /\ Total(r.parts, r.size) <= MAX_RESPONSE
    /\ ~r.listed => "players" \notin r.parts
    /\ "core" \in r.parts <=> r.size["core"] <= MAX_RESPONSE

AnswersInOrder ==
    /\ queryNow \in Nat /\ answeredAt \in Seq(Nat)
    /\ \A i \in 1..Len(answeredAt) : answeredAt[i] <= queryNow
    /\ \A i, j \in 1..Len(answeredAt) : i < j => answeredAt[i] <= answeredAt[j]

QueriesInv ==
    /\ AnswersInOrder /\ AnswersSpread
    /\ (Len(answeredAt) = 0 /\ hits = <<>>) \/ \E k \in Nat : LastWindow(k)
    /\ reply = <<>> \/ ReplyOK(reply)

LEMMA QueryNumbers == /\ max_per_window \in Nat /\ query_window \in Nat /\ MAX_RESPONSE \in Nat /\ PartSize \subseteq Nat
                      /\ Share \in Nat /\ Share >= 1 /\ max_per_window <= Share
                      /\ (max_per_window # 0 => Share = max_per_window) /\ (max_per_window = 0 => Share = 1)
  BY QueryAssumption DEF Share

(* The answer fits, and the core is the last to go. *)
LEMMA ReplyFits ==
    ASSUME NEW listed \in BOOLEAN, NEW size \in [Parts -> Nat], NEW view,
           view = (IF listed THEN Parts ELSE Parts \ {"players", "desc", "extra"})
    PROVE  ReplyOK([listed |-> listed, size |-> size, parts |-> to_native_json(view, size)])
<1> DEFINE fits == {i \in DOMAIN Shedding : Total(view \ Shedding[i], size) <= MAX_RESPONSE}
           parts == to_native_json(view, size)
<1>0. MAX_RESPONSE \in Nat
  BY QueryNumbers
<1>1. size["core"] \in Nat /\ size["icon"] \in Nat /\ size["players"] \in Nat /\ size["extra"] \in Nat
      /\ size["desc"] \in Nat
  BY DEF Parts
<1>2. "core" \in view /\ (~listed => "players" \notin view)
  BY DEF Parts
<1>3. DOMAIN Shedding = 1..5 /\ \A i \in 1..5 : "core" \notin Shedding[i]
  BY DEF Shedding
<1>4. view \ Shedding[5] = {"core"}
  BY DEF Shedding, Parts
<1>5. \A p : "core" \in p => size["core"] <= Total(p, size)
  BY <1>1 DEF Total
<1>6. Total({"core"}, size) = size["core"] /\ Total({}, size) = 0
  BY <1>1 DEF Total
<1>7. Total(parts, size) <= MAX_RESPONSE /\ (~listed => "players" \notin parts)
      /\ ("core" \in parts <=> size["core"] <= MAX_RESPONSE)
  <2>1. CASE fits = {}
    <3>1. parts = {}
      BY <2>1 DEF to_native_json
    <3>2. ~ (Total(view \ Shedding[5], size) <= MAX_RESPONSE)
      BY <1>3, <2>1
    <3> HIDE DEF parts
    <3> QED BY <1>0, <1>4, <1>6, <3>1, <3>2
  <2>2. CASE fits # {}
    <3>1. parts = view \ Shedding[Min(fits)]
      BY <2>2 DEF to_native_json
    <3>2. Min(fits) \in fits
      <4>1. fits \in SUBSET (1..5)
        BY <1>3
      <4> HIDE DEF fits
      <4>2. \E x \in fits : \A y \in fits : x =< y
        <5>1. CASE 1 \in fits
          BY <4>1, <5>1
        <5>2. CASE 1 \notin fits /\ 2 \in fits
          BY <4>1, <5>2
        <5>3. CASE 1 \notin fits /\ 2 \notin fits /\ 3 \in fits
          BY <4>1, <5>3
        <5>4. CASE 1 \notin fits /\ 2 \notin fits /\ 3 \notin fits /\ 4 \in fits
          BY <4>1, <5>4
        <5>5. CASE 1 \notin fits /\ 2 \notin fits /\ 3 \notin fits /\ 4 \notin fits
          <6>1. \A y \in fits : y = 5
            BY <4>1, <5>5
          <6> QED BY <2>2, <6>1
        <5> QED BY <5>1, <5>2, <5>3, <5>4, <5>5
      <4> QED BY <4>2 DEF Min
    <3>3. Total(parts, size) <= MAX_RESPONSE /\ Min(fits) \in 1..5
      BY <1>3, <3>1, <3>2
    <3>4. "core" \in parts
      BY <1>2, <1>3, <3>1, <3>3
    <3>5. size["core"] <= Total(parts, size) /\ Total(parts, size) \in Nat
      BY <1>1, <1>5, <3>4 DEF Total
    <3>6. ~listed => "players" \notin parts
      BY <1>2, <3>1
    <3> HIDE DEF parts
    <3> QED BY <1>0, <1>1, <3>3, <3>4, <3>5, <3>6
  <2> QED BY <2>1, <2>2
<1> HIDE DEF parts
<1> QED BY <1>7 DEF ReplyOK, parts

(* One more answer, now. *)
LEMMA OneMoreAnswer ==
    ASSUME AnswersInOrder, answeredAt' = Append(answeredAt, queryNow), queryNow' = queryNow
    PROVE  /\ AnswersInOrder'
           /\ Len(answeredAt) \in Nat /\ Len(answeredAt') = Len(answeredAt) + 1
           /\ answeredAt'[Len(answeredAt) + 1] = queryNow
           /\ \A i \in 1..Len(answeredAt) : answeredAt'[i] = answeredAt[i] /\ answeredAt[i] \in Nat
<1>1. answeredAt \in Seq(Nat) /\ queryNow \in Nat /\ Len(answeredAt) \in Nat
  BY DEF AnswersInOrder
<1>2. /\ answeredAt' \in Seq(Nat) /\ Len(answeredAt') = Len(answeredAt) + 1
      /\ answeredAt'[Len(answeredAt) + 1] = queryNow
      /\ \A i \in 1..Len(answeredAt) : answeredAt'[i] = answeredAt[i] /\ answeredAt[i] \in Nat
  BY <1>1
<1>3. \A i : i \in 1..Len(answeredAt') <=> i \in 1..Len(answeredAt) \/ i = Len(answeredAt) + 1
  BY <1>1, <1>2
<1>4. \A i \in 1..Len(answeredAt') : answeredAt'[i] <= queryNow'
  BY <1>1, <1>2, <1>3 DEF AnswersInOrder
<1>5. \A i, j \in 1..Len(answeredAt') : i < j => answeredAt'[i] <= answeredAt'[j]
  <2> SUFFICES ASSUME NEW i \in 1..Len(answeredAt'), NEW j \in 1..Len(answeredAt'), i < j
               PROVE  answeredAt'[i] <= answeredAt'[j]
    OBVIOUS
  <2>1. i \in 1..Len(answeredAt)
    BY <1>1, <1>2
  <2>2. CASE j = Len(answeredAt) + 1
    BY <1>2, <2>1, <2>2 DEF AnswersInOrder
  <2>3. CASE j \in 1..Len(answeredAt)
    BY <1>2, <2>1, <2>3 DEF AnswersInOrder
  <2> QED BY <1>3, <2>2, <2>3
<1> QED BY <1>1, <1>2, <1>4, <1>5 DEF AnswersInOrder

LEMMA AnswerCounted ==
    ASSUME QueriesInv, ~Limited, answeredAt' = Append(answeredAt, queryNow), queryNow' = queryNow,
           hits' = IF Within_window THEN [hits EXCEPT !.count = @ + 1] ELSE [start |-> queryNow, count |-> 1]
    PROVE  AnswersInOrder' /\ AnswersSpread' /\ \E k \in Nat : LastWindow(k)'
<1> DEFINE n == Len(answeredAt)
           a == answeredAt
           W == query_window
           M == max_per_window
<1>1. /\ AnswersInOrder' /\ n \in Nat /\ Len(answeredAt') = n + 1 /\ answeredAt'[n + 1] = queryNow
      /\ \A i \in 1..n : answeredAt'[i] = a[i] /\ a[i] \in Nat
  BY OneMoreAnswer DEF QueriesInv
<1>2. /\ queryNow \in Nat /\ W \in Nat /\ M \in Nat /\ Share \in Nat /\ Share >= 1 /\ M <= Share
      /\ (M # 0 => Share = M) /\ (M = 0 => Share = 1)
  BY QueryNumbers DEF QueriesInv, AnswersInOrder
<1>3. \A i \in 1..n : a[i] <= queryNow
  BY DEF QueriesInv, AnswersInOrder
<1>4. \A i, j \in 1..n : i < j => a[i] <= a[j]
  BY DEF QueriesInv, AnswersInOrder
(* It is enough to look at the pairs that end with the new answer. *)
<1>5. ASSUME \A i \in 1..n : queryNow - a[i] < W => n + 1 - i < 2 * M - 1 PROVE AnswersSpread'
  <2> SUFFICES ASSUME NEW i \in 1..(n + 1), NEW j \in 1..(n + 1), i < j, answeredAt'[j] - answeredAt'[i] < W
               PROVE  j - i < 2 * M - 1
    BY <1>1 DEF AnswersSpread
  <2>1. i \in 1..n
    BY <1>1
  <2>2. CASE j = n + 1
    BY <1>1, <1>5, <2>1, <2>2
  <2>3. CASE j \in 1..n
    <3>1. a[j] - a[i] < W
      BY <1>1, <2>1, <2>3
    <3> QED BY <2>1, <2>3, <3>1 DEF QueriesInv, AnswersSpread
  <2> QED BY <1>1, <2>2, <2>3
<1>6. CASE Within_window
  <2>1. hits # <<>> /\ queryNow - hits.start < W /\ hits.count < M
    <3>1. hits # <<>> /\ queryNow - hits.start < W /\ ~ (hits.count >= M)
      BY <1>6 DEF Limited, Within_window
    <3>2. PICK k \in Nat : LastWindow(k)
      BY <3>1 DEF QueriesInv
    <3>3. hits.count \in Int
      BY <1>1, <3>1, <3>2 DEF LastWindow
    <3> QED BY <1>2, <3>1, <3>3
  <2>2. PICK k \in Nat : LastWindow(k)
    BY <2>1 DEF QueriesInv
  <2>3. /\ k \in 1..n /\ hits.start = a[k] /\ hits.count = n - k + 1 /\ DOMAIN hits = {"start", "count"}
        /\ \A i \in 1..(k - 1) : a[k] - a[i] < W => k - i < Share
    BY <2>1, <2>2 DEF LastWindow
  <2>4. hits' = [hits EXCEPT !.count = @ + 1]
    BY <1>6
  <2>5. DOMAIN hits' = {"start", "count"} /\ hits'.start = a[k] /\ hits'.count = n - k + 2
    BY <1>1, <2>3, <2>4
  <2>6. n - k + 1 < M /\ M # 0 /\ Share = M /\ k \in Nat /\ 1 <= k /\ k <= n
    BY <1>1, <1>2, <2>1, <2>3
  <2>7. LastWindow(k)'
    <3>1. k \in 1..(n + 1) /\ (n + 1) - k < Share /\ n - k + 2 = (n + 1) - k + 1
      BY <1>1, <1>2, <2>6
    <3>2. \A i \in 1..(k - 1) : answeredAt'[k] - answeredAt'[i] < W => k - i < Share
      <4>1. \A i \in 1..(k - 1) : i \in 1..n
        BY <1>1, <2>6
      <4> QED BY <1>1, <2>3, <4>1
    <3>3. hits' # <<>>
      <4>1. "start" \in DOMAIN hits' /\ "start" \notin DOMAIN <<>>
        BY <2>5
      <4> QED BY <4>1
    <3>4. answeredAt'[k] = a[k]
      BY <1>1, <2>3
    <3> QED BY <1>1, <2>5, <3>1, <3>2, <3>3, <3>4 DEF LastWindow
  <2>8. ASSUME NEW i \in 1..n, queryNow - a[i] < W PROVE n + 1 - i < 2 * M - 1
    <3>1. CASE i >= k
      BY <1>1, <1>2, <2>6, <3>1
    <3>2. CASE i < k
      <4>1. i \in 1..(k - 1) /\ i \in Nat
        BY <1>1, <2>6, <3>2
      <4>2. a[k] - a[i] < W
        <5>1. a[k] \in Nat /\ a[i] \in Nat /\ a[k] <= queryNow
          BY <1>1, <1>3, <2>3
        <5> QED BY <1>2, <2>8, <5>1
      <4>3. k - i < M
        BY <2>3, <2>6, <4>1, <4>2
      <4> QED BY SMTT(60), <1>1, <1>2, <2>6, <4>1, <4>3
    <3>3. i >= k \/ i < k
      BY <1>1, <2>6
    <3> QED BY <3>1, <3>2, <3>3
  <2> QED BY <1>1, <1>5, <2>7, <2>8
<1>7. CASE ~Within_window
  <2>1. hits' = [start |-> queryNow, count |-> 1]
    BY <1>7
  <2>2. DOMAIN hits' = {"start", "count"} /\ hits'.start = queryNow /\ hits'.count = 1
    BY <2>1
  <2>3. ASSUME NEW i \in 1..n, queryNow - a[i] < W PROVE n + 1 - i < Share
    <3>1. n # 0 /\ i \in Nat
      BY <1>1
    <3>2. PICK k \in Nat : LastWindow(k)
      BY <3>1 DEF QueriesInv
    <3>3. k \in 1..n /\ n - k < Share
      BY <3>2 DEF LastWindow
    <3>4. ~ (queryNow - a[k] < W)
      <4>0. queryNow - a[k] \in Int
        BY <1>1, <1>2, <3>3
      <4>1. CASE hits = <<>>
        BY <1>2, <3>2, <4>0, <4>1 DEF LastWindow
      <4>2. CASE hits # <<>>
        BY <1>7, <3>2, <4>2 DEF LastWindow, Within_window
      <4> QED BY <4>1, <4>2
    <3>5. i > k
      <4>1. a[i] \in Nat /\ a[k] \in Nat /\ a[k] < a[i]
        BY SMTT(60), <1>1, <1>2, <2>3, <3>3, <3>4
      <4>2. i # k /\ ~ (i < k)
        BY <1>4, <3>3, <4>1
      <4> QED BY <3>1, <3>3, <4>2
    <3> QED BY <1>1, <1>2, <3>1, <3>3, <3>5
  <2>4. PICK m \in Nat : m = n + 1
    BY <1>1
  <2>5. LastWindow(m)'
    <3>1. m = n + 1 /\ n + 1 \in 1..(n + 1) /\ (n + 1) - (n + 1) < Share /\ (n + 1) - (n + 1) + 1 = 1 /\ (n + 1) - 1 = n
      BY <1>1, <1>2, <2>4
    <3>2. \A i \in 1..n : answeredAt'[n + 1] - answeredAt'[i] < W => n + 1 - i < Share
      BY <1>1, <2>3
    <3>3. hits' # <<>>
      <4>1. "start" \in DOMAIN hits' /\ "start" \notin DOMAIN <<>>
        BY <2>2
      <4> QED BY <4>1
    <3> QED BY <1>1, <2>2, <3>1, <3>2, <3>3 DEF LastWindow
  <2>6. \A i \in 1..n : queryNow - a[i] < W => n + 1 - i < 2 * M - 1
    <3> SUFFICES ASSUME NEW i \in 1..n, queryNow - a[i] < W PROVE n + 1 - i < 2 * M - 1
      OBVIOUS
    <3>1. n + 1 - i < Share /\ i \in Nat /\ n + 1 - i >= 1
      BY <1>1, <2>3
    <3> QED BY <1>1, <1>2, <3>1
  <2> QED BY <1>1, <1>5, <2>5, <2>6
<1> QED BY <1>6, <1>7

LEMMA QueriesStep == QueriesInv /\ [QueriesNext]_queryVars => QueriesInv'
<1> SUFFICES ASSUME QueriesInv, [QueriesNext]_queryVars PROVE QueriesInv'
  OBVIOUS
<1>1. ASSUME NEW listed \in BOOLEAN, NEW size \in [Parts -> PartSize], handle_query_probe(listed, size)
      PROVE  QueriesInv'
  <2> DEFINE view == IF listed THEN Parts ELSE Parts \ {"players", "desc", "extra"}
             r == [listed |-> listed, size |-> size, parts |-> to_native_json(view, size)]
  <2>1. size \in [Parts -> Nat]
    BY QueryNumbers
  <2>2. ReplyOK(r)
    BY <2>1, ReplyFits
  <2>3. reply' = r
    BY <1>1 DEF handle_query_probe
  <2> HIDE DEF r
  <2>4. ReplyOK(reply)'
    BY <2>2, <2>3 DEF ReplyOK
  <2>5. AnswersInOrder' /\ AnswersSpread' /\ \E k \in Nat : LastWindow(k)'
    BY <1>1, AnswerCounted DEF handle_query_probe
  <2> QED BY <2>4, <2>5 DEF QueriesInv
<1>2. CASE query_gc
  <2>1. hits # <<>> /\ ~Within_window /\ hits' = <<>> /\ UNCHANGED <<queryNow, answeredAt, reply>>
    BY <1>2 DEF query_gc
  <2>2. PICK k \in Nat : LastWindow(k)
    BY <2>1 DEF QueriesInv
  <2>3. queryNow \in Nat /\ answeredAt[k] \in Nat /\ query_window \in Nat
    <3>1. answeredAt \in Seq(Nat) /\ queryNow \in Nat /\ k \in 1..Len(answeredAt)
      BY <2>2 DEF QueriesInv, AnswersInOrder, LastWindow
    <3> QED BY <3>1, QueryNumbers
  <2>4. queryNow - answeredAt[k] >= query_window
    BY <2>1, <2>2, <2>3 DEF LastWindow, Within_window
  <2>5. LastWindow(k)'
    BY <2>1, <2>2, <2>4 DEF LastWindow
  <2> QED BY <2>1, <2>5 DEF QueriesInv, AnswersInOrder, AnswersSpread, ReplyOK
<1>3. CASE query_tick
  <2>1. queryNow' = queryNow + 1 /\ UNCHANGED <<hits, answeredAt, reply>> /\ queryNow \in Nat
        /\ answeredAt \in Seq(Nat)
    BY <1>3 DEF query_tick, QueriesInv, AnswersInOrder
  <2>2. AnswersInOrder'
    <3>1. \A i \in 1..Len(answeredAt) : answeredAt[i] \in Nat /\ answeredAt[i] <= queryNow
      BY <2>1 DEF QueriesInv, AnswersInOrder
    <3>2. \A i \in 1..Len(answeredAt) : answeredAt[i] <= queryNow + 1
      BY <2>1, <3>1
    <3> QED BY <2>1, <3>2 DEF QueriesInv, AnswersInOrder
  <2>3. ASSUME NEW k \in Nat, LastWindow(k) PROVE LastWindow(k)'
    <3>1. answeredAt[k] \in Nat /\ query_window \in Nat
      BY <2>1, <2>3, QueryNumbers DEF LastWindow
    <3>2. hits = <<>> => queryNow' - answeredAt[k] >= query_window
      BY <2>1, <2>3, <3>1 DEF LastWindow
    <3> QED BY <2>1, <2>3, <3>2 DEF LastWindow
  <2>4. (Len(answeredAt) = 0 /\ hits = <<>>)' \/ \E k \in Nat : LastWindow(k)'
    BY <2>1, <2>3 DEF QueriesInv
  <2>5. AnswersSpread' /\ (reply' = <<>> \/ ReplyOK(reply)')
    BY <2>1 DEF QueriesInv, AnswersSpread, ReplyOK
  <2> QED BY <2>2, <2>4, <2>5 DEF QueriesInv
<1>4. CASE UNCHANGED queryVars
  BY <1>4 DEF queryVars, QueriesInv, AnswersInOrder, AnswersSpread, LastWindow, ReplyOK
<1> QED BY <1>1, <1>2, <1>3, <1>4 DEF QueriesNext

LEMMA QueriesInvGives == QueriesInv => QueriesBounded
<1> SUFFICES ASSUME QueriesInv PROVE QueriesBounded
  OBVIOUS
<1>1. DOMAIN answeredAt = 1..Len(answeredAt)
  BY DEF QueriesInv, AnswersInOrder
<1> QED BY <1>1 DEF QueriesInv, AnswersSpread, ReplyOK, QueriesBounded

-----------------------------------------------------------------------------
(* The node agent: it restarted no more often than the instance crashed,   *)
(* and the build before is the one that was active before.                 *)

AgentInv ==
    /\ restarts \in Nat /\ crash_count \in Nat /\ restarts <= crash_count
    /\ restarts = 0 \/ restarts < max_crash_retries
    /\ process = "Crashed" => crash_count < max_crash_retries
    /\ process = "Quarantined" => crash_count >= max_crash_retries
    /\ active_build \in Nat /\ previous_build \in Nat /\ builds \in Seq(Nat) /\ Len(builds) >= 1
    /\ active_build = builds[Len(builds)]
    /\ previous_build # 0 => Len(builds) > 1 /\ previous_build = builds[Len(builds) - 1]

LEMMA AgentStep == AgentInv /\ [AgentNext]_agentVars => AgentInv'
<1> SUFFICES ASSUME AgentInv, [AgentNext]_agentVars PROVE AgentInv'
  OBVIOUS
<1>0. max_crash_retries \in Nat /\ MaxBuild \in Nat
  BY AgentAssumption
<1>1. CASE start_instance \/ poll_watchdog \/ restart_instance
  BY <1>1 DEF start_instance, poll_watchdog, restart_instance, Start_process, AgentInv
<1>2. CASE stop_instance \/ record_heartbeat \/ agent_tick
  BY <1>2 DEF stop_instance, record_heartbeat, agent_tick, AgentInv
<1>3. ASSUME NEW auto \in BOOLEAN, handle_crash(auto) PROVE AgentInv'
  <2>1. crash_count' = crash_count + 1 /\ UNCHANGED <<active_build, previous_build, agentNow, builds>>
        /\ restarts \in Nat /\ crash_count \in Nat /\ restarts <= crash_count
        /\ (restarts = 0 \/ restarts < max_crash_retries)
    BY <1>3 DEF handle_crash, AgentInv
  <2>2. CASE crash_count' >= max_crash_retries
    BY <1>3, <2>1, <2>2 DEF handle_crash, AgentInv
  <2>3. CASE ~ (crash_count' >= max_crash_retries)
    <3>1. crash_count' < max_crash_retries
      BY <1>0, <2>1, <2>3
    <3>2. CASE auto
      <4>1. process' = "Running" /\ restarts' = restarts + 1
        BY <1>3, <2>3, <3>2 DEF handle_crash, Start_process
      <4>2. restarts' \in Nat /\ crash_count' \in Nat /\ restarts' <= crash_count' /\ restarts' < max_crash_retries
        BY <1>0, <2>1, <3>1, <4>1
      <4> QED BY <2>1, <4>1, <4>2 DEF AgentInv
    <3>3. CASE ~auto
      <4>1. process' = "Crashed" /\ restarts' = restarts
        BY <1>3, <2>3, <3>3 DEF handle_crash
      <4>2. crash_count' \in Nat /\ restarts' <= crash_count'
        BY <2>1, <4>1
      <4> QED BY <2>1, <3>1, <4>1, <4>2 DEF AgentInv
    <3> QED BY <3>2, <3>3
  <2> QED BY <2>2, <2>3
<1>4. ASSUME NEW b \in 1..MaxBuild, update_build(b) PROVE AgentInv'
  <2>1. previous_build' = active_build /\ active_build' = b /\ builds' = Append(builds, b)
        /\ UNCHANGED <<process, crash_count, restarts>>
    BY <1>4 DEF update_build
  <2>2. builds \in Seq(Nat) /\ Len(builds) \in Nat /\ Len(builds) >= 1 /\ b \in Nat /\ active_build \in Nat
        /\ active_build = builds[Len(builds)]
    BY <1>0 DEF AgentInv
  <2>3. /\ builds' \in Seq(Nat) /\ Len(builds') = Len(builds) + 1 /\ builds'[Len(builds) + 1] = b
        /\ builds'[Len(builds)] = builds[Len(builds)]
    BY <2>1, <2>2
  <2>4. Len(builds') >= 1 /\ Len(builds') > 1 /\ Len(builds') - 1 = Len(builds)
    BY <2>2, <2>3
  <2> QED BY <2>1, <2>2, <2>3, <2>4 DEF AgentInv
<1>5. CASE rollback_build
  <2>1. previous_build # 0 /\ active_build' = previous_build /\ previous_build' = 0 /\ crash_count' = 0
        /\ restarts' = 0 /\ builds' = Front(builds) /\ process' = "Running"
    BY <1>5 DEF rollback_build, Start_process
  <2>2. builds \in Seq(Nat) /\ Len(builds) \in Nat /\ Len(builds) > 1 /\ previous_build = builds[Len(builds) - 1]
        /\ previous_build \in Nat
    BY <2>1 DEF AgentInv
  <2>3. builds' \in Seq(Nat) /\ Len(builds') = Len(builds) - 1 /\ builds'[Len(builds) - 1] = builds[Len(builds) - 1]
    BY <2>1, <2>2 DEF Front
  <2>4. Len(builds') >= 1
    BY <2>2, <2>3
  <2> QED BY <1>0, <2>1, <2>2, <2>3, <2>4 DEF AgentInv
<1>6. CASE UNCHANGED agentVars
  BY <1>6 DEF agentVars, AgentInv
<1> QED BY <1>1, <1>2, <1>3, <1>4, <1>5, <1>6 DEF AgentNext

LEMMA AgentInvGives == AgentInv => AgentSound
<1> SUFFICES ASSUME AgentInv PROVE AgentSound
  OBVIOUS
<1>1. max_crash_retries \in Nat
  BY AgentAssumption
<1>2. restarts < Max({1, max_crash_retries})
  <2>1. \E x \in {1, max_crash_retries} : \A y \in {1, max_crash_retries} : x >= y
    BY <1>1
  <2>2. Max({1, max_crash_retries}) \in {1, max_crash_retries}
        /\ \A y \in {1, max_crash_retries} : Max({1, max_crash_retries}) >= y
    BY <2>1 DEF Max
  <2> QED BY <1>1, <2>2 DEF AgentInv
<1> QED BY <1>2 DEF AgentInv, AgentSound, Last

-----------------------------------------------------------------------------
(* The machines of the fleet, each moving as it likes. *)

FleetSpec ==
    /\ ShardsInit /\ EdgeInit /\ QueriesInit /\ AgentInit
    /\ [][ShardsNext]_shardVars /\ [][EdgeNext]_edgeVars
    /\ [][QueriesNext]_queryVars /\ [][AgentNext]_agentVars

(* For any shards, entities, sources, limits and sizes: one epoch never    *)
(* has two owners and the lease in force is the last given; the edge's     *)
(* counters are its open connections and keep the limits; a source gets    *)
(* fewer than twice its share of answers in any window and an answer fits; *)
(* and the agent's automatic restarts stay below the limit.                *)
THEOREM FleetAlwaysSound == FleetSpec => []FleetSound
<1>1. ShardsInit => ShardsInv
  BY DEF ShardsInit, ShardsInv, ShardsTypeOK, LeasesOrdered
<1>2. EdgeInit => EdgeInv
  <2> SUFFICES ASSUME EdgeInit PROVE EdgeInv
    OBVIOUS
  <2>1. connections = [s \in Sources |-> 0] /\ per_ip = <<>> /\ DOMAIN per_ip = {} /\ origin_in_use = 0
        /\ ~shielding /\ originHealth = [state |-> "Healthy", failures |-> 0]
    BY DEF EdgeInit
  <2>2. Open_connections = {}
    BY <2>1, EdgeNumbers DEF Open_connections
  <2>3. \A s \in Sources : Count(s) = 0
    BY <2>1 DEF Count
  <2> QED BY <2>1, <2>2, <2>3, EdgeNumbers, FS_EmptySet DEF EdgeInv
<1>3. QueriesInit => QueriesInv
  BY DEF QueriesInit, QueriesInv, AnswersInOrder, AnswersSpread
<1>4. AgentInit => AgentInv
  BY AgentAssumption DEF AgentInit, AgentInv
<1>5. ShardsInv /\ EdgeInv /\ QueriesInv /\ AgentInv => FleetSound
  BY ShardsInvGives, QueriesInvGives, AgentInvGives DEF EdgeInv, EdgeCounts, FleetSound
<1> QED BY <1>1, <1>2, <1>3, <1>4, <1>5, ShardsStep, EdgeStep, QueriesStep, AgentStep, PTL DEF FleetSpec

-----------------------------------------------------------------------------
(* Money: every balance is what is due to it but for whole words, and for  *)
(* none as long as what was minted fits into one.                          *)

Received(a) == [k \in 1..Len(ledger) |-> IF ledger[k].to = a THEN ledger[k].amount ELSE 0]
Sent(a) == [k \in 1..Len(ledger) |-> IF ledger[k].from = a THEN ledger[k].amount ELSE 0]

Due(a) == (minted[a] - burned[a]) + (Inflow(a) - Outflow(a))

EconomyInv ==
    /\ balances \in [Accounts -> Word] /\ ledger \in Seq(Transaction)
    /\ minted \in [Accounts -> Nat] /\ burned \in [Accounts -> Nat]
    /\ \A a \in Accounts : \E k \in Int : Due(a) = k * MoneySpace + balances[a]
    /\ SumOver(Accounts, minted) \in Word =>
         /\ \A a \in Accounts : Due(a) = balances[a]
         /\ SumOver(Accounts, balances) <= SumOver(Accounts, minted)

LEMMA WrapSmall ==
    ASSUME NEW S \in Nat \ {0}, NEW x \in Nat, x < S + S
    PROVE  x % S = IF x < S THEN x ELSE x - S
<1>1. CASE x < S
  BY <1>1
<1>2. CASE ~(x < S)
  <2>1. x - S >= 0 /\ x - S < S /\ x = 1 * S + (x - S)
    BY <1>2
  <2>2. \A r \in Int : r >= 0 /\ r < S => (1 * S + r) % S = r
    OBVIOUS
  <2> QED BY <1>2, <2>1, <2>2
<1> QED BY <1>1, <1>2

LEMMA WholeWords ==
    ASSUME NEW S \in Nat \ {0}, NEW k \in Int, NEW r \in 0..(S - 1)
    PROVE  (k * S + r) % S = r
  OBVIOUS

LEMMA AmountType == ASSUME NEW t \in Transaction PROVE t.from \in Accounts /\ t.to \in Accounts /\ t.amount \in Nat /\ t.amount < MoneySpace
<1>1. t.from \in Accounts /\ t.to \in Accounts /\ t.amount \in Amounts
  BY DEF Transaction
<1>2. \A x \in Amounts : x \in Nat /\ x < MoneySpace
  BY EconomyAssumption
<1> QED BY <1>1, <1>2

LEMMA FlowTypes ==
    ASSUME ledger \in Seq(Transaction), NEW a \in Accounts
    PROVE  /\ Len(ledger) \in Nat
           /\ Received(a) \in [1..Len(ledger) -> Int] /\ Sent(a) \in [1..Len(ledger) -> Int]
           /\ Inflow(a) \in Int /\ Outflow(a) \in Int
           /\ Inflow(a) = SumTo(Len(ledger), Received(a)) /\ Outflow(a) = SumTo(Len(ledger), Sent(a))
<1>1. Len(ledger) \in Nat /\ \A k \in 1..Len(ledger) : ledger[k] \in Transaction
  OBVIOUS
<1>2. \A t \in Transaction : t.amount \in Int
  BY AmountType
<1>3. Received(a) \in [1..Len(ledger) -> Int] /\ Sent(a) \in [1..Len(ledger) -> Int]
  BY <1>1, <1>2 DEF Received, Sent
<1>4. Inflow(a) = SumTo(Len(ledger), Received(a)) /\ Outflow(a) = SumTo(Len(ledger), Sent(a))
  BY DEF Inflow, Outflow, Received, Sent
<1> QED BY <1>1, <1>3, <1>4, SumToType

(* What a committed transfer adds to the flows of an account. *)
LEMMA FlowSteps ==
    ASSUME ledger \in Seq(Transaction), NEW t \in Transaction, ledger' = Append(ledger, t), NEW a \in Accounts
    PROVE  /\ Inflow(a)' = Inflow(a) + (IF t.to = a THEN t.amount ELSE 0)
           /\ Outflow(a)' = Outflow(a) + (IF t.from = a THEN t.amount ELSE 0)
<1> DEFINE m == Len(ledger)
           into == IF t.to = a THEN t.amount ELSE 0
           out == IF t.from = a THEN t.amount ELSE 0
<1>1. m \in Nat /\ ledger' \in Seq(Transaction) /\ Len(ledger') = m + 1 /\ ledger'[m + 1] = t /\ \A k \in 1..m : ledger'[k] = ledger[k]
  OBVIOUS
<1>2. t.amount \in Int
  BY AmountType
<1>3. Received(a) \in [1..m -> Int] /\ Sent(a) \in [1..m -> Int]
  BY FlowTypes
<1> HIDE DEF m
<1>4. \A k \in 1..m : k \in 1..(m + 1)
  BY <1>1
<1>5. m + 1 \in 1..(m + 1) /\ \A k \in 1..(m + 1) : k \in 1..m \/ k = m + 1
  BY <1>1
<1>6. Received(a)' = [k \in 1..(m + 1) |-> IF ledger'[k].to = a THEN ledger'[k].amount ELSE 0]
      /\ Sent(a)' = [k \in 1..(m + 1) |-> IF ledger'[k].from = a THEN ledger'[k].amount ELSE 0]
  BY <1>1 DEF Received, Sent
<1>7. Received(a)'[m + 1] = into /\ Sent(a)'[m + 1] = out /\ into \in Int /\ out \in Int
  BY <1>1, <1>2, <1>5, <1>6
<1>8. \A k \in 1..m : Received(a)'[k] = Received(a)[k] /\ Sent(a)'[k] = Sent(a)[k]
  BY <1>1, <1>4, <1>6 DEF Received, Sent, m
<1> HIDE DEF into, out
<1>9. Received(a)' \in [1..(m + 1) -> Int] /\ Sent(a)' \in [1..(m + 1) -> Int]
  BY <1>3, <1>5, <1>6, <1>7, <1>8
<1>10. SumTo(m + 1, Received(a)') = SumTo(m, Received(a)) + into
  BY <1>1, <1>3, <1>7, <1>8, <1>9, SumToAppend
<1>11. SumTo(m + 1, Sent(a)') = SumTo(m, Sent(a)) + out
  BY <1>1, <1>3, <1>7, <1>8, <1>9, SumToAppend
<1>12. Inflow(a) = SumTo(m, Received(a)) /\ Outflow(a) = SumTo(m, Sent(a))
  BY DEF Inflow, Outflow, Received, Sent, m
<1>13. Inflow(a)' = SumTo(m + 1, Received(a)') /\ Outflow(a)' = SumTo(m + 1, Sent(a)')
  BY <1>1 DEF Inflow, Outflow, Received, Sent
<1> QED BY <1>10, <1>11, <1>12, <1>13 DEF into, out

LEMMA DueType ==
    ASSUME EconomyInv, NEW a \in Accounts
    PROVE  /\ Due(a) \in Int /\ Inflow(a) \in Int /\ Outflow(a) \in Int
           /\ balances[a] \in Word /\ balances[a] \in Nat /\ minted[a] \in Nat /\ burned[a] \in Nat
<1>1. balances[a] \in Word /\ minted[a] \in Nat /\ burned[a] \in Nat /\ Inflow(a) \in Int /\ Outflow(a) \in Int
  BY FlowTypes DEF EconomyInv
<1> QED BY <1>1, EconomyAssumption DEF Due, Word

LEMMA SumsOfTables ==
    ASSUME EconomyInv
    PROVE  SumOver(Accounts, minted) \in Nat /\ SumOver(Accounts, balances) \in Nat
<1>1. IsFiniteSet(Accounts) /\ \A a \in Accounts : minted[a] \in Nat /\ balances[a] \in Nat
  BY DueType, EconomyAssumption
<1> QED BY <1>1, SumOverNat

LEMMA CreditStep == ASSUME EconomyInv, NEW a \in Accounts, NEW n \in Amounts, credit(a, n) PROVE EconomyInv'
<1>0. n \in Nat /\ n < MoneySpace /\ MoneySpace \in Nat \ {0} /\ IsFiniteSet(Accounts)
  BY EconomyAssumption
<1>1. /\ balances' = Credited(balances, a, n) /\ minted' = [minted EXCEPT ![a] = @ + n] /\ UNCHANGED <<ledger, burned>>
  BY DEF credit
<1>2. balances \in [Accounts -> Word] /\ minted \in [Accounts -> Nat] /\ burned \in [Accounts -> Nat] /\ ledger \in Seq(Transaction)
  BY DEF EconomyInv
<1> DEFINE v == (balances[a] + n) % MoneySpace
<1>3. balances[a] \in Nat /\ balances[a] < MoneySpace
  BY <1>0, <1>2 DEF Word
<1>4. v = (IF balances[a] + n < MoneySpace THEN balances[a] + n ELSE (balances[a] + n) - MoneySpace) /\ v \in Word
  <2>1. balances[a] + n \in Nat /\ balances[a] + n < MoneySpace + MoneySpace
    BY <1>0, <1>3
  <2>2. v = IF balances[a] + n < MoneySpace THEN balances[a] + n ELSE (balances[a] + n) - MoneySpace
    BY <1>0, <2>1, WrapSmall
  <2> HIDE DEF v
  <2> QED BY <1>0, <1>3, <2>1, <2>2 DEF Word
<1>5. balances' = [balances EXCEPT ![a] = v]
  BY <1>1, <1>2 DEF Credited
<1> HIDE DEF v
<1>6. balances' \in [Accounts -> Word] /\ balances'[a] = v /\ \A b \in Accounts : b # a => balances'[b] = balances[b]
  BY <1>2, <1>4, <1>5
<1>7. minted' \in [Accounts -> Nat] /\ minted'[a] = minted[a] + n /\ \A b \in Accounts : b # a => minted'[b] = minted[b]
  BY <1>0, <1>1, <1>2
<1>8. \A b \in Accounts : Inflow(b)' = Inflow(b) /\ Outflow(b)' = Outflow(b)
  BY <1>1 DEF Inflow, Outflow
<1>9. Due(a)' = Due(a) + n /\ \A b \in Accounts : b # a => Due(b)' = Due(b)
  <2>1. (minted[a] - burned[a]) \in Int /\ Inflow(a) - Outflow(a) \in Int /\ minted[a] \in Int /\ burned[a] \in Int
    BY <1>2, DueType
  <2>2. burned' = burned
    BY <1>1
  <2>3. Due(a)' = ((minted[a] + n) - burned[a]) + (Inflow(a) - Outflow(a))
    BY <1>7, <1>8, <2>2 DEF Due
  <2>4. \A b \in Accounts : b # a => Due(b)' = Due(b)
    BY <1>7, <1>8, <2>2 DEF Due
  <2> QED BY <1>0, <2>1, <2>3, <2>4 DEF Due
<1>10. ASSUME NEW b \in Accounts PROVE \E k \in Int : Due(b)' = k * MoneySpace + balances'[b]
  <2>1. PICK k \in Int : Due(b) = k * MoneySpace + balances[b]
    BY DEF EconomyInv
  <2>2. CASE b # a
    BY <1>6, <1>9, <2>1, <2>2
  <2>3. CASE b = a /\ balances[a] + n < MoneySpace
    <3>1. k * MoneySpace \in Int
      BY <1>0
    <3>2. Due(a)' = k * MoneySpace + balances'[a]
      BY <1>0, <1>3, <1>4, <1>6, <1>9, <2>1, <2>3, <3>1
    <3> QED BY <2>3, <3>2
  <2>4. CASE b = a /\ ~(balances[a] + n < MoneySpace)
    <3>1. (k + 1) * MoneySpace = k * MoneySpace + MoneySpace /\ k * MoneySpace \in Int /\ k + 1 \in Int
      BY <1>0
    <3>2. Due(a)' = (k + 1) * MoneySpace + balances'[a]
      BY <1>0, <1>3, <1>4, <1>6, <1>9, <2>1, <2>4, <3>1
    <3> QED BY <2>4, <3>1, <3>2
  <2> QED BY <2>2, <2>3, <2>4
<1>11. SumOver(Accounts, minted') = SumOver(Accounts, minted) + n
  <2>1. \A x \in Accounts : minted[x] \in Int /\ minted'[x] \in Int
    BY <1>2, <1>7
  <2>2. SumOver(Accounts, minted') = (SumOver(Accounts, minted) - minted[a]) + minted'[a]
    BY <1>0, <1>7, <2>1, SumOverReplace
  <2> QED BY <1>0, <1>2, <1>7, <2>2, SumsOfTables
<1>12. ASSUME SumOver(Accounts, minted') \in Word
       PROVE  /\ \A b \in Accounts : Due(b)' = balances'[b]
              /\ SumOver(Accounts, balances') <= SumOver(Accounts, minted')
  <2>1. SumOver(Accounts, minted) \in Word /\ SumOver(Accounts, minted) \in Nat /\ SumOver(Accounts, balances) \in Nat
    BY <1>0, <1>11, <1>12, SumsOfTables DEF Word
  <2>2. (\A b \in Accounts : Due(b) = balances[b]) /\ SumOver(Accounts, balances) <= SumOver(Accounts, minted)
    BY <2>1 DEF EconomyInv
  <2>3. balances[a] <= SumOver(Accounts, balances)
    <3>1. \A x \in Accounts : balances[x] \in Nat
      BY <1>0, <1>2 DEF Word
    <3> QED BY <1>0, <3>1, SumOverAbove
  <2>4. balances[a] + n < MoneySpace
    BY <1>0, <1>3, <1>11, <1>12, <2>1, <2>2, <2>3 DEF Word
  <2>5. balances'[a] = balances[a] + n
    BY <1>4, <1>6, <2>4
  <2>6. SumOver(Accounts, balances') = (SumOver(Accounts, balances) - balances[a]) + balances'[a]
    <3>1. \A x \in Accounts : balances[x] \in Int /\ balances'[x] \in Int
      BY <1>0, <1>2, <1>6 DEF Word
    <3> QED BY <1>0, <1>6, <3>1, SumOverReplace
  <2>7. SumOver(Accounts, balances') <= SumOver(Accounts, minted')
    BY <1>0, <1>3, <1>11, <2>1, <2>2, <2>5, <2>6
  <2>8. \A b \in Accounts : Due(b)' = balances'[b]
    BY <1>6, <1>9, <2>2, <2>5
  <2> QED BY <2>7, <2>8
<1> QED BY <1>1, <1>2, <1>6, <1>7, <1>10, <1>12 DEF EconomyInv

LEMMA DebitStep == ASSUME EconomyInv, NEW a \in Accounts, NEW n \in Amounts, debit(a, n) PROVE EconomyInv'
<1>0. n \in Nat /\ n < MoneySpace /\ MoneySpace \in Nat \ {0} /\ IsFiniteSet(Accounts)
  BY EconomyAssumption
<1>1. /\ balances[a] >= n /\ balances' = [balances EXCEPT ![a] = @ - n]
      /\ burned' = [burned EXCEPT ![a] = @ + n] /\ UNCHANGED <<ledger, minted>>
  BY DEF debit, Debited, Covers
<1>2. balances \in [Accounts -> Word] /\ minted \in [Accounts -> Nat] /\ burned \in [Accounts -> Nat] /\ ledger \in Seq(Transaction)
  BY DEF EconomyInv
<1>3. balances[a] \in Nat /\ balances[a] < MoneySpace /\ balances[a] - n \in Word
  BY <1>0, <1>1, <1>2 DEF Word
<1>4. balances' \in [Accounts -> Word] /\ balances'[a] = balances[a] - n /\ \A b \in Accounts : b # a => balances'[b] = balances[b]
  BY <1>1, <1>2, <1>3
<1>5. burned' \in [Accounts -> Nat] /\ burned'[a] = burned[a] + n /\ \A b \in Accounts : b # a => burned'[b] = burned[b]
  BY <1>0, <1>1, <1>2
<1>6. \A b \in Accounts : Inflow(b)' = Inflow(b) /\ Outflow(b)' = Outflow(b)
  BY <1>1 DEF Inflow, Outflow
<1>7. Due(a)' = Due(a) - n /\ \A b \in Accounts : b # a => Due(b)' = Due(b)
  <2>1. (minted[a] - burned[a]) \in Int /\ Inflow(a) - Outflow(a) \in Int /\ minted[a] \in Int /\ burned[a] \in Int
    BY <1>2, DueType
  <2>2. minted' = minted
    BY <1>1
  <2>3. Due(a)' = (minted[a] - (burned[a] + n)) + (Inflow(a) - Outflow(a))
    BY <1>5, <1>6, <2>2 DEF Due
  <2>4. \A b \in Accounts : b # a => Due(b)' = Due(b)
    BY <1>5, <1>6, <2>2 DEF Due
  <2> QED BY <1>0, <2>1, <2>3, <2>4 DEF Due
<1>8. ASSUME NEW b \in Accounts PROVE \E k \in Int : Due(b)' = k * MoneySpace + balances'[b]
  <2>1. PICK k \in Int : Due(b) = k * MoneySpace + balances[b]
    BY DEF EconomyInv
  <2>2. k * MoneySpace \in Int
    BY <1>0
  <2>3. Due(b)' = k * MoneySpace + balances'[b]
    BY <1>0, <1>3, <1>4, <1>7, <2>1, <2>2
  <2> QED BY <2>3
<1>9. ASSUME SumOver(Accounts, minted') \in Word
       PROVE  /\ \A b \in Accounts : Due(b)' = balances'[b]
              /\ SumOver(Accounts, balances') <= SumOver(Accounts, minted')
  <2>1. SumOver(Accounts, minted') = SumOver(Accounts, minted)
    BY <1>1
  <2>2. (\A b \in Accounts : Due(b) = balances[b]) /\ SumOver(Accounts, balances) <= SumOver(Accounts, minted)
    BY <1>9, <2>1 DEF EconomyInv
  <2>3. SumOver(Accounts, balances') = (SumOver(Accounts, balances) - balances[a]) + balances'[a]
    <3>1. \A x \in Accounts : balances[x] \in Int /\ balances'[x] \in Int
      BY <1>0, <1>2, <1>4 DEF Word
    <3> QED BY <1>0, <1>4, <3>1, SumOverReplace
  <2>4. SumOver(Accounts, balances') <= SumOver(Accounts, minted')
    BY <1>0, <1>3, <1>4, <2>1, <2>2, <2>3, SumsOfTables
  <2>5. \A b \in Accounts : Due(b)' = balances'[b]
    BY <1>4, <1>7, <2>2
  <2> QED BY <2>4, <2>5
<1> QED BY <1>1, <1>2, <1>4, <1>5, <1>8, <1>9 DEF EconomyInv

LEMMA TransferStep == ASSUME EconomyInv, NEW t \in Transaction, transfer(t) PROVE EconomyInv'
<1> DEFINE n == t.amount
           half == [balances EXCEPT ![t.from] = @ - n]
           v == (half[t.to] + n) % MoneySpace
<1>0. n \in Nat /\ n < MoneySpace /\ MoneySpace \in Nat \ {0} /\ IsFiniteSet(Accounts) /\ t.from \in Accounts /\ t.to \in Accounts
  BY AmountType, EconomyAssumption
<1>1. /\ t.from # t.to /\ balances[t.from] >= n /\ balances' = Credited(Debited(balances, t.from, n), t.to, n)
      /\ ledger' = Append(ledger, t) /\ UNCHANGED <<minted, burned>>
  BY DEF transfer, Covers
<1>2. balances \in [Accounts -> Word] /\ minted \in [Accounts -> Nat] /\ burned \in [Accounts -> Nat] /\ ledger \in Seq(Transaction)
  BY DEF EconomyInv
<1>3. \A b \in Accounts : balances[b] \in Nat /\ balances[b] < MoneySpace
  BY <1>0, <1>2 DEF Word
<1>4. balances[t.from] - n \in Word
  BY <1>0, <1>1, <1>3 DEF Word
<1>5. /\ half \in [Accounts -> Word] /\ half[t.from] = balances[t.from] - n
      /\ \A b \in Accounts : b # t.from => half[b] = balances[b]
  BY <1>0, <1>2, <1>4
<1>6. balances' = [half EXCEPT ![t.to] = v]
  BY <1>0, <1>1, <1>5 DEF Credited, Debited
<1> HIDE DEF half
<1>7. half[t.to] = balances[t.to] /\ balances[t.to] \in Nat /\ balances[t.to] < MoneySpace
  BY <1>0, <1>1, <1>3, <1>5
<1>8. v = (IF balances[t.to] + n < MoneySpace THEN balances[t.to] + n ELSE (balances[t.to] + n) - MoneySpace) /\ v \in Word
  <2>1. balances[t.to] + n \in Nat /\ balances[t.to] + n < MoneySpace + MoneySpace
    BY <1>0, <1>7
  <2>2. v = IF balances[t.to] + n < MoneySpace THEN balances[t.to] + n ELSE (balances[t.to] + n) - MoneySpace
    BY <1>0, <1>7, <2>1, WrapSmall
  <2> HIDE DEF v
  <2> QED BY <1>0, <1>7, <2>1, <2>2 DEF Word
<1> HIDE DEF v
<1>9. /\ balances' \in [Accounts -> Word] /\ balances'[t.to] = v
      /\ \A b \in Accounts : b # t.to => balances'[b] = half[b]
  BY <1>0, <1>5, <1>6, <1>8
<1>10. balances'[t.from] = balances[t.from] - n /\ \A b \in Accounts : b # t.to /\ b # t.from => balances'[b] = balances[b]
  BY <1>0, <1>1, <1>5, <1>9
<1>11. ledger' \in Seq(Transaction)
  BY <1>1, <1>2
<1>12. ASSUME NEW a \in Accounts
       PROVE  Due(a)' = Due(a) + ((IF t.to = a THEN n ELSE 0) - (IF t.from = a THEN n ELSE 0))
  <2>1. Inflow(a)' = Inflow(a) + (IF t.to = a THEN n ELSE 0) /\ Outflow(a)' = Outflow(a) + (IF t.from = a THEN n ELSE 0)
    BY <1>1, <1>2, FlowSteps
  <2>2. minted' = minted /\ burned' = burned
    BY <1>1
  <2>3. Inflow(a) \in Int /\ Outflow(a) \in Int /\ minted[a] \in Nat /\ burned[a] \in Nat
    BY DueType
  <2>4. Due(a)' = (minted[a] - burned[a]) + (Inflow(a)' - Outflow(a)')
    BY <2>2 DEF Due
  <2> QED BY <1>0, <2>1, <2>3, <2>4 DEF Due
<1>13. /\ Due(t.to)' = Due(t.to) + n /\ Due(t.from)' = Due(t.from) - n
       /\ \A b \in Accounts : b # t.to /\ b # t.from => Due(b)' = Due(b)
  <2>1. \A b \in Accounts : Due(b) \in Int
    BY DueType
  <2> QED BY <1>0, <1>1, <1>12, <2>1
<1>14. ASSUME NEW b \in Accounts PROVE \E k \in Int : Due(b)' = k * MoneySpace + balances'[b]
  <2>1. PICK k \in Int : Due(b) = k * MoneySpace + balances[b]
    BY DEF EconomyInv
  <2>2. k * MoneySpace \in Int /\ (k + 1) * MoneySpace = k * MoneySpace + MoneySpace /\ k + 1 \in Int
    BY <1>0
  <2>3. CASE b # t.to /\ b # t.from
    BY <1>10, <1>13, <2>1, <2>3
  <2>4. CASE b = t.from
    <3>1. Due(b)' = k * MoneySpace + balances'[b]
      BY <1>0, <1>3, <1>10, <1>13, <2>1, <2>2, <2>4
    <3> QED BY <3>1
  <2>5. CASE b = t.to /\ balances[t.to] + n < MoneySpace
    <3>1. Due(b)' = k * MoneySpace + balances'[b]
      BY <1>0, <1>7, <1>8, <1>9, <1>13, <2>1, <2>2, <2>5
    <3> QED BY <3>1
  <2>6. CASE b = t.to /\ ~(balances[t.to] + n < MoneySpace)
    <3>1. Due(b)' = (k + 1) * MoneySpace + balances'[b]
      BY <1>0, <1>7, <1>8, <1>9, <1>13, <2>1, <2>2, <2>6
    <3> QED BY <2>2, <3>1
  <2> QED BY <2>3, <2>4, <2>5, <2>6
<1>15. ASSUME SumOver(Accounts, minted') \in Word
       PROVE  /\ \A b \in Accounts : Due(b)' = balances'[b]
              /\ SumOver(Accounts, balances') <= SumOver(Accounts, minted')
  <2>1. SumOver(Accounts, minted') = SumOver(Accounts, minted)
    BY <1>1
  <2>2. (\A b \in Accounts : Due(b) = balances[b]) /\ SumOver(Accounts, balances) <= SumOver(Accounts, minted)
    BY <1>15, <2>1 DEF EconomyInv
  <2>3. \A x \in Accounts : balances[x] \in Int /\ half[x] \in Int /\ balances'[x] \in Int /\ half[x] \in Nat
    BY <1>0, <1>2, <1>5, <1>9 DEF Word
  <2>4. SumOver(Accounts, half) = (SumOver(Accounts, balances) - balances[t.from]) + half[t.from]
    BY <1>0, <1>5, <2>3, SumOverReplace
  <2>5. SumOver(Accounts, half) = SumOver(Accounts, balances) - n
    BY <1>0, <1>3, <1>5, <2>4, SumsOfTables
  <2>6. half[t.to] <= SumOver(Accounts, half)
    BY <1>0, <2>3, SumOverAbove
  <2>7. balances[t.to] + n <= SumOver(Accounts, balances)
    BY <1>0, <1>7, <2>5, <2>6, SumsOfTables
  <2>8. balances[t.to] + n < MoneySpace
    <3>1. SumOver(Accounts, minted) < MoneySpace
      BY <1>0, <1>15, <2>1 DEF Word
    <3> QED BY <1>0, <1>7, <2>2, <2>7, <3>1, SumsOfTables
  <2>9. balances'[t.to] = balances[t.to] + n
    BY <1>8, <1>9, <2>8
  <2>10. SumOver(Accounts, balances') = (SumOver(Accounts, half) - half[t.to]) + balances'[t.to]
    BY <1>0, <1>9, <2>3, SumOverReplace
  <2>11. SumOver(Accounts, balances') = SumOver(Accounts, balances)
    BY <1>0, <1>7, <2>5, <2>9, <2>10, SumsOfTables
  <2>12. \A b \in Accounts : Due(b)' = balances'[b]
    BY <1>10, <1>13, <2>2, <2>9
  <2> QED BY <2>1, <2>2, <2>11, <2>12
<1> QED BY <1>1, <1>2, <1>9, <1>11, <1>14, <1>15 DEF EconomyInv

LEMMA EconomyStep == EconomyInv /\ [EconomyNext]_economyVars => EconomyInv'
<1> SUFFICES ASSUME EconomyInv, [EconomyNext]_economyVars PROVE EconomyInv'
  OBVIOUS
<1>1. CASE UNCHANGED economyVars
  <2>1. balances' = balances /\ ledger' = ledger /\ minted' = minted /\ burned' = burned
    BY <1>1 DEF economyVars
  <2>2. \A a \in Accounts : Inflow(a)' = Inflow(a) /\ Outflow(a)' = Outflow(a)
    BY <2>1 DEF Inflow, Outflow
  <2>3. \A a \in Accounts : Due(a)' = Due(a)
    BY <2>1, <2>2 DEF Due
  <2> QED BY <2>1, <2>3 DEF EconomyInv
<1> QED BY <1>1, CreditStep, DebitStep, TransferStep DEF EconomyNext

LEMMA EconomyInvGives == EconomyInv => LedgerExplains
<1> SUFFICES ASSUME EconomyInv, NEW a \in Accounts
             PROVE  balances[a] = Due(a) % MoneySpace /\ (SumOver(Accounts, minted) \in Word => balances[a] = Due(a))
  BY DEF LedgerExplains, Due
<1>1. PICK k \in Int : Due(a) = k * MoneySpace + balances[a]
  BY DEF EconomyInv
<1>2. MoneySpace \in Nat \ {0} /\ balances[a] \in 0..(MoneySpace - 1)
  BY DueType, EconomyAssumption DEF Word
<1>3. (k * MoneySpace + balances[a]) % MoneySpace = balances[a]
  BY <1>2, WholeWords
<1> QED BY <1>1, <1>3 DEF EconomyInv

LEMMA EconomyStart == EconomyInit => EconomyInv
<1> SUFFICES ASSUME EconomyInit PROVE EconomyInv
  OBVIOUS
<1>1. /\ balances = [a \in Accounts |-> 0] /\ ledger = <<>> /\ minted = [a \in Accounts |-> 0] /\ burned = [a \in Accounts |-> 0]
  BY DEF EconomyInit
<1>2. 0 \in Word /\ MoneySpace \in Nat \ {0} /\ IsFiniteSet(Accounts)
  BY EconomyAssumption DEF Word
<1>3. ledger \in Seq(Transaction) /\ Len(ledger) = 0
  BY <1>1
<1>4. ASSUME NEW a \in Accounts PROVE Due(a) = 0 /\ balances[a] = 0
  <2>1. Inflow(a) = SumTo(Len(ledger), Received(a)) /\ Outflow(a) = SumTo(Len(ledger), Sent(a))
        /\ Received(a) \in [1..Len(ledger) -> Int] /\ Sent(a) \in [1..Len(ledger) -> Int] /\ Len(ledger) \in Nat
    BY <1>3, FlowTypes
  <2>2. Inflow(a) = 0 /\ Outflow(a) = 0
    BY <1>3, <2>1, SumToNone
  <2> QED BY <1>1, <2>2 DEF Due
<1>5. 0 = 0 * MoneySpace + 0
  BY <1>2
<1>6. \A a \in Accounts : \E k \in Int : Due(a) = k * MoneySpace + balances[a]
  BY <1>4, <1>5
<1>7. SumOver(Accounts, balances) = SumOver(Accounts, minted) /\ SumOver(Accounts, minted) \in Nat
  <2>1. \A a \in Accounts : balances[a] = minted[a] /\ minted[a] \in Nat
    BY <1>1
  <2> QED BY <1>2, <2>1, SumOverSame, SumOverNat
<1> QED BY <1>1, <1>2, <1>3, <1>4, <1>6, <1>7 DEF EconomyInv

-----------------------------------------------------------------------------
(* Items: what the stacks of a storage come to under a measure h, which is *)
(* the units of an item or the weight. *)

Measure(slots, h) == SumTo(Len(slots), [k \in 1..Len(slots) |-> h[slots[k]]])

UnitsOf(i) == [k \in ItemStack |-> IF k.item = i THEN k.count ELSE 0]

WeightOf == [k \in ItemStack |-> k.weight_per_unit * k.count]

(* Empty stacks measure nothing. *)
Measures == {h \in [ItemStack -> Nat] : \A k \in ItemStack : k.count = 0 => h[k] = 0}

LEMMA WordTypes ==
    /\ WeightSpace \in Nat \ {0} /\ IsFiniteSet(Storages)
    /\ \A w \in Weights : w \in Nat /\ w < WeightSpace
    /\ \A l \in Limits : l \in Nat /\ l < WeightSpace
    /\ \A n \in Counts : n \in Nat /\ n < WeightSpace
    /\ \A m \in Stacks : m \in Nat /\ m < WeightSpace
    /\ MaxGranted \in Nat
  BY InventoryAssumption

LEMMA StackType ==
    ASSUME NEW k \in ItemStack
    PROVE  k.item \in Items /\ k.count \in Nat /\ k.weight_per_unit \in Weights /\ k.weight_per_unit \in Nat
<1>1. k.item \in Items /\ k.count \in Nat /\ k.weight_per_unit \in Weights
  BY DEF ItemStack
<1> QED BY <1>1, WordTypes

LEMMA BothMeasures == WeightOf \in Measures /\ \A i \in Items : UnitsOf(i) \in Measures
<1>1. \A k \in ItemStack : k.weight_per_unit * k.count \in Nat /\ (k.count = 0 => k.weight_per_unit * k.count = 0)
  <2> SUFFICES ASSUME NEW k \in ItemStack
               PROVE  k.weight_per_unit * k.count \in Nat /\ (k.count = 0 => k.weight_per_unit * k.count = 0)
    OBVIOUS
  <2>1. \A w, c \in Nat : w * c \in Nat /\ w * 0 = 0
    OBVIOUS
  <2> QED BY <2>1, StackType
<1>2. WeightOf \in Measures
  BY <1>1 DEF WeightOf, Measures
<1>3. ASSUME NEW i \in Items PROVE UnitsOf(i) \in Measures
  BY StackType DEF UnitsOf, Measures
<1> QED BY <1>2, <1>3

LEMMA AsMeasures ==
    ASSUME NEW slots \in Seq(ItemStack)
    PROVE  Weight(slots) = Measure(slots, WeightOf) /\ \A i \in Items : Units(slots, i) = Measure(slots, UnitsOf(i))
<1>1. \A k \in 1..Len(slots) : slots[k] \in ItemStack
  OBVIOUS
<1>2. [k \in 1..Len(slots) |-> slots[k].weight_per_unit * slots[k].count] = [k \in 1..Len(slots) |-> WeightOf[slots[k]]]
  BY <1>1 DEF WeightOf
<1>3. ASSUME NEW i \in Items
      PROVE  [k \in 1..Len(slots) |-> IF slots[k].item = i THEN slots[k].count ELSE 0] = [k \in 1..Len(slots) |-> UnitsOf(i)[slots[k]]]
  BY <1>1 DEF UnitsOf
<1> QED BY <1>2, <1>3 DEF Measure, Weight, Units

LEMMA MeasureType ==
    ASSUME NEW slots \in Seq(ItemStack), NEW h \in Measures
    PROVE  /\ Len(slots) \in Nat /\ [k \in 1..Len(slots) |-> h[slots[k]]] \in [1..Len(slots) -> Nat]
           /\ Measure(slots, h) \in Nat
<1>1. Len(slots) \in Nat /\ \A k \in 1..Len(slots) : slots[k] \in ItemStack
  OBVIOUS
<1>2. [k \in 1..Len(slots) |-> h[slots[k]]] \in [1..Len(slots) -> Nat]
  BY <1>1 DEF Measures
<1> QED BY <1>1, <1>2, SumToNat DEF Measure

LEMMA MeasureNone == ASSUME NEW h \in Measures PROVE Measure(<<>>, h) = 0
<1>1. <<>> \in Seq(ItemStack) /\ Len(<<>>) = 0
  OBVIOUS
<1>2. Len(<<>>) \in Nat /\ [k \in 1..Len(<<>>) |-> h[<<>>[k]]] \in [1..Len(<<>>) -> Int]
  BY <1>1
<1> QED BY <1>1, <1>2, SumToNone DEF Measure

LEMMA MeasureAppend ==
    ASSUME NEW slots \in Seq(ItemStack), NEW h \in Measures, NEW x \in ItemStack
    PROVE  Append(slots, x) \in Seq(ItemStack) /\ Measure(Append(slots, x), h) = Measure(slots, h) + h[x]
<1> DEFINE m == Len(slots)
           q == Append(slots, x)
           f == [k \in 1..m |-> h[slots[k]]]
           g == [k \in 1..(m + 1) |-> h[q[k]]]
<1>1. m \in Nat /\ q \in Seq(ItemStack) /\ Len(q) = m + 1 /\ q[m + 1] = x /\ \A k \in 1..m : q[k] = slots[k]
  OBVIOUS
<1>2. \A k \in 1..(m + 1) : q[k] \in ItemStack
  BY <1>1
<1>3. \A k \in ItemStack : h[k] \in Int
  BY DEF Measures
<1>4. Measure(q, h) = SumTo(m + 1, g) /\ Measure(slots, h) = SumTo(m, f)
  BY <1>1 DEF Measure
<1>5. f \in [1..m -> Int]
  BY <1>1, <1>3
<1> HIDE DEF q, m
<1>6. g \in [1..(m + 1) -> Int]
  BY <1>2, <1>3
<1>7. m + 1 \in 1..(m + 1) /\ \A k \in 1..m : k \in 1..(m + 1)
  BY <1>1
<1>8. g[m + 1] = h[x] /\ \A k \in 1..m : g[k] = f[k]
  BY <1>1, <1>7
<1> HIDE DEF f, g
<1>9. SumTo(m + 1, g) = SumTo(m, f) + g[m + 1]
  BY <1>1, <1>5, <1>6, <1>8, SumToAppend
<1> QED BY <1>1, <1>4, <1>8, <1>9 DEF q

LEMMA MeasureReplace ==
    ASSUME NEW slots \in Seq(ItemStack), NEW h \in Measures, NEW x \in ItemStack, NEW at \in 1..Len(slots)
    PROVE  LET r == [slots EXCEPT ![at] = x] IN
           /\ r \in Seq(ItemStack) /\ Len(r) = Len(slots) /\ r[at] = x
           /\ \A k \in 1..Len(slots) : k # at => r[k] = slots[k]
           /\ Measure(r, h) = (Measure(slots, h) - h[slots[at]]) + h[x]
<1> DEFINE m == Len(slots)
           r == [slots EXCEPT ![at] = x]
           f == [k \in 1..m |-> h[slots[k]]]
           g == [k \in 1..m |-> h[r[k]]]
<1>1. m \in Nat /\ r \in Seq(ItemStack) /\ Len(r) = m /\ r[at] = x /\ \A k \in 1..m : k # at => r[k] = slots[k]
  OBVIOUS
<1>2. \A k \in 1..m : r[k] \in ItemStack /\ slots[k] \in ItemStack
  BY <1>1
<1>3. \A k \in ItemStack : h[k] \in Int
  BY DEF Measures
<1>4. Measure(r, h) = SumTo(m, g) /\ Measure(slots, h) = SumTo(m, f)
  BY <1>1 DEF Measure
<1> HIDE DEF r, m
<1>5. at \in 1..m
  BY DEF m
<1>6. f \in [1..m -> Int] /\ g \in [1..m -> Int]
  BY <1>2, <1>3
<1>7. g[at] = h[x] /\ f[at] = h[slots[at]] /\ \A k \in 1..m : k # at => g[k] = f[k]
  BY <1>1, <1>5
<1> HIDE DEF f, g
<1>8. SumTo(m, g) = (SumTo(m, f) - f[at]) + g[at]
  BY <1>1, <1>5, <1>6, <1>7, SumToReplace
<1> QED BY <1>1, <1>4, <1>7, <1>8 DEF r, m

LEMMA MeasureAbove ==
    ASSUME NEW slots \in Seq(ItemStack), NEW h \in Measures, NEW at \in 1..Len(slots)
    PROVE  h[slots[at]] <= Measure(slots, h)
<1> DEFINE f == [k \in 1..Len(slots) |-> h[slots[k]]]
<1>1. Len(slots) \in Nat /\ f \in [1..Len(slots) -> Nat] /\ f[at] = h[slots[at]]
  BY MeasureType
<1> HIDE DEF f
<1>2. f[at] <= SumTo(Len(slots), f)
  BY <1>1, SumToAbove
<1> QED BY <1>1, <1>2 DEF Measure, f

(* The loop of retain. *)
Retained(f, slots) ==
    \A k \in 0..Len(slots) :
        f[k] = IF k = 0 THEN <<>>
               ELSE IF slots[k].count > 0 THEN Append(f[k - 1], slots[k]) ELSE f[k - 1]

LEMMA RetainLoop ==
    ASSUME NEW slots \in Seq(ItemStack)
    PROVE  \E f \in [0..Len(slots) -> Seq(ItemStack)] : Retained(f, slots) /\ NotEmpty(slots) = f[Len(slots)]
<1> DEFINE N == Len(slots)
           SS == Seq(ItemStack)
           g == [x \in (1..N) \X SS |-> IF slots[x[1]].count > 0 THEN Append(x[2], slots[x[1]]) ELSE x[2]]
           Loop(f) == f = [k \in 0..N |-> IF k = 0 THEN <<>>
                              ELSE IF slots[k].count > 0 THEN Append(f[k - 1], slots[k]) ELSE f[k - 1]]
           kept == CHOOSE f : Loop(f)
<1>0. N \in Nat /\ <<>> \in SS /\ \A k \in 1..N : slots[k] \in ItemStack
  OBVIOUS
<1>1. \A s \in SS, k \in ItemStack : Append(s, k) \in SS
  OBVIOUS
<1>2. NotEmpty(slots) = kept[N]
  BY DEF NotEmpty
<1> HIDE DEF SS, N, Loop, kept
<1>3. g \in [(1..N) \X SS -> SS]
  BY <1>0, <1>1
<1>4. \A k \in 1..N, s \in SS : g[<<k, s>>] = IF slots[k].count > 0 THEN Append(s, slots[k]) ELSE s
  OBVIOUS
<1> HIDE DEF g
<1>5. PICK f \in [0..N -> SS] : Iterated(f, N, <<>>, g)
  BY <1>0, <1>3, Iterates
<1>6. \A k \in 0..N : k # 0 => k \in 1..N /\ k - 1 \in 0..N
  BY <1>0
<1>7. ASSUME NEW k \in 0..N
      PROVE  f[k] = IF k = 0 THEN <<>> ELSE IF slots[k].count > 0 THEN Append(f[k - 1], slots[k]) ELSE f[k - 1]
  <2>1. f[k] = IF k = 0 THEN <<>> ELSE g[<<k, f[k - 1]>>]
    BY <1>5 DEF Iterated
  <2>2. CASE k = 0
    BY <2>1, <2>2
  <2>3. CASE k # 0
    <3>1. k \in 1..N /\ f[k - 1] \in SS
      BY <1>6, <2>3
    <3>2. g[<<k, f[k - 1]>>] = IF slots[k].count > 0 THEN Append(f[k - 1], slots[k]) ELSE f[k - 1]
      BY <1>4, <3>1
    <3> QED BY <2>1, <2>3, <3>2
  <2> QED BY <2>2, <2>3
<1>8. Loop(f)
  BY <1>7 DEF Loop
<1>9. Loop(kept)
  BY <1>8 DEF kept
<1>10. kept = [k \in 0..N |-> kept[k]]
  BY <1>9 DEF Loop
<1>11. \A k \in 0..N : kept[k] = IF k = 0 THEN <<>> ELSE IF slots[k].count > 0 THEN Append(kept[k - 1], slots[k]) ELSE kept[k - 1]
  BY <1>9 DEF Loop
<1>12. 0..N \subseteq {k \in 0..N : kept[k] \in SS}
  <2> DEFINE T == {k \in 0..N : kept[k] \in SS}
  <2>1. 0 \in T
    BY <1>0, <1>11
  <2>2. ASSUME NEW k \in 1..N, k - 1 \in T PROVE k \in T
    BY <1>0, <1>1, <1>11, <2>2
  <2> HIDE DEF T
  <2>3. 0..N \subseteq T
    BY <1>0, <2>1, <2>2, UpTo
  <2> QED BY <2>3 DEF T
<1>13. kept \in [0..N -> SS]
  BY <1>10, <1>12
<1> QED BY <1>2, <1>11, <1>13 DEF Retained, N, SS

(* The stacks left are stacks of before, in their order, and not empty. *)
Thinned(r, slots, n) ==
    /\ \A p \in 1..Len(r) : r[p].count > 0 /\ \E j \in 1..n : r[p] = slots[j]
    /\ \A p, q \in 1..Len(r) : p < q => \E j, k \in 1..n : j < k /\ r[p] = slots[j] /\ r[q] = slots[k]

LEMMA NotEmptyThins ==
    ASSUME NEW slots \in Seq(ItemStack)
    PROVE  NotEmpty(slots) \in Seq(ItemStack) /\ Thinned(NotEmpty(slots), slots, Len(slots))
<1> DEFINE N == Len(slots)
<1>0. N \in Nat /\ \A k \in 1..N : slots[k] \in ItemStack
  OBVIOUS
<1>1. PICK f \in [0..N -> Seq(ItemStack)] : Retained(f, slots) /\ NotEmpty(slots) = f[N]
  BY RetainLoop
<1>2. \A k \in 0..N : f[k] = IF k = 0 THEN <<>> ELSE IF slots[k].count > 0 THEN Append(f[k - 1], slots[k]) ELSE f[k - 1]
  BY <1>1 DEF Retained
<1> HIDE DEF N
<1> DEFINE T == {k \in 0..N : Thinned(f[k], slots, k)}
<1>3. 0 \in T
  <2>1. 0 \in 0..N
    BY <1>0
  <2>2. f[0] = <<>>
    BY <1>2, <2>1
  <2>3. Len(f[0]) = 0
    BY <2>2
  <2>4. Thinned(f[0], slots, 0)
    BY <2>3 DEF Thinned
  <2> QED BY <2>1, <2>4
<1>4. ASSUME NEW k \in 1..N, k - 1 \in T PROVE k \in T
  <2>0. k \in 0..N /\ k # 0 /\ k - 1 \in 0..N /\ \A j \in 1..(k - 1) : j \in 1..k /\ j < k
    BY <1>0
  <2>1. Thinned(f[k - 1], slots, k - 1)
    BY <1>4
  <2>2. CASE ~(slots[k].count > 0)
    <3>1. f[k] = f[k - 1]
      BY <1>2, <2>0, <2>2
    <3>2. Thinned(f[k], slots, k)
      BY <2>0, <2>1, <3>1 DEF Thinned
    <3> QED BY <2>0, <3>2
  <2>3. CASE slots[k].count > 0
    <3> DEFINE s == f[k - 1]
               m == Len(s)
    <3>0. f[k] = Append(s, slots[k]) /\ s \in Seq(ItemStack) /\ slots[k] \in ItemStack
      <4>1. f[k - 1] \in Seq(ItemStack)
        BY <1>1, <2>0
      <4>2. f[k] = Append(f[k - 1], slots[k])
        BY <1>2, <2>0, <2>3
      <4> QED BY <1>0, <4>1, <4>2
    <3>1. f[k] = Append(s, slots[k]) /\ s \in Seq(ItemStack) /\ m \in Nat /\ slots[k] \in ItemStack
      BY <3>0
    <3>2. Len(f[k]) = m + 1 /\ f[k][m + 1] = slots[k] /\ \A p \in 1..m : f[k][p] = s[p]
      BY <3>1
    <3>3. /\ \A p \in 1..m : s[p].count > 0 /\ \E j \in 1..(k - 1) : s[p] = slots[j]
          /\ \A p, q \in 1..m : p < q => \E i, j \in 1..(k - 1) : i < j /\ s[p] = slots[i] /\ s[q] = slots[j]
      BY <2>1 DEF Thinned
    <3> HIDE DEF s, m
    <3>4. \A p \in 1..(m + 1) : p \in 1..m \/ p = m + 1
      BY <3>1
    <3>5. ASSUME NEW p \in 1..(m + 1) PROVE f[k][p].count > 0 /\ \E j \in 1..k : f[k][p] = slots[j]
      <4>1. CASE p \in 1..m
        <5>1. PICK j \in 1..(k - 1) : s[p] = slots[j]
          BY <3>3, <4>1
        <5>2. j \in 1..k /\ f[k][p] = s[p] /\ s[p].count > 0
          BY <2>0, <3>2, <3>3, <4>1
        <5> QED BY <5>1, <5>2
      <4>2. CASE p = m + 1
        <5>1. k \in 1..k
          BY <2>0
        <5> QED BY <2>3, <3>2, <4>2, <5>1
      <4> QED BY <3>4, <4>1, <4>2
    <3>6. ASSUME NEW p \in 1..(m + 1), NEW q \in 1..(m + 1), p < q
          PROVE  \E i, j \in 1..k : i < j /\ f[k][p] = slots[i] /\ f[k][q] = slots[j]
      <4>1. p \in 1..m
        BY <3>1, <3>6
      <4>2. CASE q \in 1..m
        <5>1. PICK i \in 1..(k - 1), j \in 1..(k - 1) : i < j /\ s[p] = slots[i] /\ s[q] = slots[j]
          BY <3>3, <3>6, <4>1, <4>2
        <5>2. i \in 1..k /\ j \in 1..k /\ f[k][p] = s[p] /\ f[k][q] = s[q]
          BY <2>0, <3>2, <4>1, <4>2
        <5> QED BY <5>1, <5>2
      <4>3. CASE q = m + 1
        <5>1. PICK i \in 1..(k - 1) : s[p] = slots[i]
          BY <3>3, <4>1
        <5>2. i \in 1..k /\ k \in 1..k /\ i < k /\ f[k][p] = slots[i] /\ f[k][q] = slots[k]
          BY <2>0, <3>2, <4>1, <4>3, <5>1
        <5> QED BY <5>2
      <4> QED BY <3>4, <4>2, <4>3
    <3>7. Thinned(f[k], slots, k)
      BY <3>2, <3>5, <3>6 DEF Thinned
    <3> QED BY <2>0, <3>7
  <2> QED BY <2>2, <2>3
<1> HIDE DEF T
<1>5. 0..N \subseteq T
  BY <1>0, <1>3, <1>4, UpTo
<1>6. N \in T
  BY <1>0, <1>5
<1>7. N \in 0..N
  BY <1>0
<1> QED BY <1>1, <1>6, <1>7 DEF T, N

LEMMA NotEmptyMeasures ==
    ASSUME NEW slots \in Seq(ItemStack), NEW h \in Measures
    PROVE  Measure(NotEmpty(slots), h) = Measure(slots, h)
<1> DEFINE N == Len(slots)
           t == [k \in 1..N |-> h[slots[k]]]
<1>0. N \in Nat /\ (\A k \in 1..N : slots[k] \in ItemStack) /\ t \in [1..N -> Int]
  BY MeasureType
<1>1. PICK f \in [0..N -> Seq(ItemStack)] : Retained(f, slots) /\ NotEmpty(slots) = f[N]
  BY RetainLoop
<1>2. \A k \in 0..N : f[k] = IF k = 0 THEN <<>> ELSE IF slots[k].count > 0 THEN Append(f[k - 1], slots[k]) ELSE f[k - 1]
  BY <1>1 DEF Retained
<1>3. PICK s \in [0..N -> Int] : PartialSums(s, N, t) /\ SumTo(N, t) = s[N]
  BY <1>0, SumToPartial
<1>4. Measure(slots, h) = s[N]
  BY <1>3 DEF Measure
<1>5. s[0] = 0 /\ \A k \in 1..N : s[k] = s[k - 1] + h[slots[k]]
  BY <1>3 DEF PartialSums
<1> HIDE DEF N, t
<1> DEFINE T == {k \in 0..N : Measure(f[k], h) = s[k]}
<1>6. 0 \in T
  BY <1>0, <1>2, <1>5, MeasureNone
<1>7. ASSUME NEW k \in 1..N, k - 1 \in T PROVE k \in T
  <2>0. k \in 0..N /\ k # 0 /\ k - 1 \in 0..N /\ slots[k] \in ItemStack /\ f[k - 1] \in Seq(ItemStack) /\ s[k - 1] \in Int
    BY <1>0
  <2>1. Measure(f[k - 1], h) = s[k - 1] /\ s[k] = s[k - 1] + h[slots[k]]
    BY <1>5, <1>7
  <2>2. CASE ~(slots[k].count > 0)
    <3>1. slots[k].count = 0
      BY <2>0, <2>2, StackType
    <3>2. h[slots[k]] = 0 /\ f[k] = f[k - 1]
      BY <1>2, <2>0, <2>2, <3>1 DEF Measures
    <3> QED BY <2>0, <2>1, <3>2
  <2>3. CASE slots[k].count > 0
    <3>1. f[k] = Append(f[k - 1], slots[k])
      BY <1>2, <2>0, <2>3
    <3>2. Measure(Append(f[k - 1], slots[k]), h) = Measure(f[k - 1], h) + h[slots[k]]
      BY <2>0, MeasureAppend
    <3>3. Measure(f[k], h) = s[k]
      BY <2>1, <3>1, <3>2
    <3> QED BY <2>0, <3>3
  <2> QED BY <2>2, <2>3
<1> HIDE DEF T
<1>8. 0..N \subseteq T
  BY <1>0, <1>6, <1>7, UpTo
<1>9. N \in T
  BY <1>0, <1>8
<1> QED BY <1>1, <1>4, <1>9 DEF T, N

-----------------------------------------------------------------------------
(* give and take on the stacks of one storage. *)

LEMMA FirstIs ==
    ASSUME NEW slots \in Seq(ItemStack), NEW i
    PROVE  /\ First(slots, i) \in 0..Len(slots)
           /\ First(slots, i) # 0 => First(slots, i) \in 1..Len(slots) /\ slots[First(slots, i)].item = i
           /\ First(slots, i) = 0 => \A k \in 1..Len(slots) : slots[k].item # i
<1> DEFINE P == {k \in 1..Len(slots) : slots[k].item = i}
<1>1. Len(slots) \in Nat /\ P \subseteq Nat
  OBVIOUS
<1>2. CASE P = {}
  <2>1. First(slots, i) = 0
    BY <1>2 DEF First
  <2> QED BY <1>1, <1>2, <2>1
<1>3. CASE P # {}
  <2>1. First(slots, i) = Min(P)
    BY <1>3 DEF First
  <2>2. \E n \in P : \A m \in P : n <= m
    <3> HIDE DEF P
    <3> QED BY <1>1, <1>3, SmallestOf
  <2>3. Min(P) \in P
    <3> HIDE DEF P
    <3> QED BY <2>2 DEF Min
  <2>4. First(slots, i) \in P
    BY <2>1, <2>3
  <2>5. First(slots, i) \in 1..Len(slots) /\ slots[First(slots, i)].item = i
    BY <2>4
  <2> HIDE DEF P
  <2> QED BY <1>1, <2>5
<1> QED BY <1>2, <1>3

Registry(reg) == DOMAIN reg \subseteq Items /\ \A i \in DOMAIN reg : reg[i] \in Item

LEMMA RegistryType ==
    ASSUME NEW reg, Registry(reg), NEW i \in DOMAIN reg
    PROVE  /\ i \in Items /\ reg[i].weight \in Weights /\ reg[i].weight \in Nat
           /\ reg[i].stackable \in BOOLEAN /\ reg[i].max_stack \in Nat /\ reg[i].max_stack < WeightSpace
<1>1. i \in Items /\ reg[i].weight \in Weights /\ reg[i].stackable \in BOOLEAN /\ reg[i].max_stack \in Stacks
  BY DEF Registry, Item
<1> QED BY <1>1, WordTypes

(* What give leaves in the slots, and what take leaves. *)
GivenSlots(slots, i, n) ==
    IF Merges(slots, i)
    THEN [slots EXCEPT ![First(slots, i)].count = NewCount(slots, i, n)]
    ELSE Append(slots, [item |-> i, count |-> n, weight_per_unit |-> item_registry[i].weight])

TakenStack(slots, i, n) == [slots EXCEPT ![First(slots, i)].count = @ - n]

TakenSlots(slots, i, n) ==
    LET rest == TakenStack(slots, i, n)
    IN  IF rest[First(slots, i)].count = 0 THEN NotEmpty(rest) ELSE rest

LEMMA WrapIs == \A n \in Nat : Wrap(n) \in Nat /\ Wrap(n) <= n /\ (n < WeightSpace => Wrap(n) = n)
<1>1. WeightSpace \in Nat \ {0}
  BY WordTypes
<1>2. \A m \in Nat \ {0}, n \in Nat : (n % m) \in Nat /\ (n % m) <= n /\ (n < m => (n % m) = n)
  OBVIOUS
<1> QED BY <1>1, <1>2 DEF Wrap

LEMMA Recount ==
    ASSUME NEW slots \in Seq(ItemStack), NEW at \in 1..Len(slots), NEW c \in Nat
    PROVE  LET x == [slots[at] EXCEPT !.count = c] IN
           /\ [slots EXCEPT ![at].count = c] = [slots EXCEPT ![at] = x]
           /\ x \in ItemStack /\ x.item = slots[at].item /\ x.count = c /\ x.weight_per_unit = slots[at].weight_per_unit
<1>1. slots[at] \in ItemStack
  OBVIOUS
<1> QED BY <1>1 DEF ItemStack

(* A merge. *)
LEMMA GivenMerged ==
    ASSUME NEW slots \in Seq(ItemStack), NEW i \in Items, NEW n \in Nat, Merges(slots, i)
    PROVE  LET at == First(slots, i)
               after == GivenSlots(slots, i, n)
               x == [slots[at] EXCEPT !.count = Wrap(slots[at].count + n)]
           IN  /\ at \in 1..Len(slots) /\ slots[at] \in ItemStack /\ slots[at].item = i /\ x \in ItemStack
               /\ x.item = i /\ x.count = Wrap(slots[at].count + n) /\ x.weight_per_unit = slots[at].weight_per_unit
               /\ after = [slots EXCEPT ![at] = x]
               /\ NewCount(slots, i, n) = x.count
<1> DEFINE at == First(slots, i)
           c == Wrap(slots[at].count + n)
<1>1. at \in 1..Len(slots) /\ slots[at].item = i
  BY FirstIs DEF Merges
<1>2. slots[at] \in ItemStack
  BY <1>1
<1>3. slots[at].count + n \in Nat
  BY <1>2, StackType
<1>4. c \in Nat
  BY <1>3, WrapIs
<1>5. NewCount(slots, i, n) = c
  BY DEF NewCount
<1>6. GivenSlots(slots, i, n) = [slots EXCEPT ![at].count = c]
  BY <1>5 DEF GivenSlots
<1> HIDE DEF c, at
<1>7. LET x == [slots[at] EXCEPT !.count = c] IN
           /\ [slots EXCEPT ![at].count = c] = [slots EXCEPT ![at] = x]
           /\ x \in ItemStack /\ x.item = slots[at].item /\ x.count = c /\ x.weight_per_unit = slots[at].weight_per_unit
  BY <1>1, <1>4, Recount
<1> QED BY <1>1, <1>2, <1>5, <1>6, <1>7 DEF at, c

(* A new stack. *)
LEMMA GivenNew ==
    ASSUME NEW slots \in Seq(ItemStack), NEW i \in DOMAIN item_registry, Registry(item_registry), NEW n \in Nat, ~Merges(slots, i)
    PROVE  LET x == [item |-> i, count |-> n, weight_per_unit |-> item_registry[i].weight]
           IN  x \in ItemStack /\ GivenSlots(slots, i, n) = Append(slots, x) /\ NewCount(slots, i, n) = n
<1>1. i \in Items /\ item_registry[i].weight \in Weights
  BY RegistryType
<1> QED BY <1>1 DEF ItemStack, GivenSlots, NewCount

LEMMA GivenUnits ==
    ASSUME NEW slots \in Seq(ItemStack), NEW i \in DOMAIN item_registry, Registry(item_registry), NEW n \in Nat
    PROVE  LET after == GivenSlots(slots, i, n) IN
           /\ after \in Seq(ItemStack)
           /\ \A k \in 1..Len(after) : after[k].item = i \/ \E j \in 1..Len(slots) : after[k].item = slots[j].item
           /\ \A j \in Items : j # i => Units(after, j) = Units(slots, j)
           /\ Units(after, i) <= Units(slots, i) + n
           /\ Units(slots, i) + n < WeightSpace =>
                /\ Units(after, i) = Units(slots, i) + n
                /\ (\A k \in 1..Len(slots) : slots[k].item = i => slots[k].weight_per_unit = item_registry[i].weight)
                        => Weight(after) = Weight(slots) + item_registry[i].weight * n
<1> DEFINE after == GivenSlots(slots, i, n)
           w == item_registry[i].weight
<1>0. i \in Items /\ w \in Nat
  BY RegistryType
<1>1. \A j \in Items : UnitsOf(j) \in Measures /\ Units(slots, j) = Measure(slots, UnitsOf(j)) /\ Units(slots, j) \in Nat
  BY BothMeasures, AsMeasures, MeasureType
<1>2. WeightOf \in Measures /\ Weight(slots) = Measure(slots, WeightOf) /\ Weight(slots) \in Nat
  BY BothMeasures, AsMeasures, MeasureType
<1>3. CASE ~Merges(slots, i)
  <2> DEFINE x == [item |-> i, count |-> n, weight_per_unit |-> w]
  <2>1. x \in ItemStack /\ after = Append(slots, x)
    BY <1>3, GivenNew
  <2>2. x.item = i /\ x.count = n /\ x.weight_per_unit = w
    OBVIOUS
  <2> HIDE DEF x, after
  <2>3. after \in Seq(ItemStack) /\ \A h \in Measures : Measure(after, h) = Measure(slots, h) + h[x]
    BY <2>1, MeasureAppend
  <2>4. \A j \in Items : Units(after, j) = Measure(after, UnitsOf(j))
    BY <2>3, AsMeasures
  <2>5. Weight(after) = Measure(after, WeightOf)
    BY <2>3, AsMeasures
  <2>6. UnitsOf(i)[x] = n /\ (\A j \in Items : j # i => UnitsOf(j)[x] = 0) /\ WeightOf[x] = w * n
    BY <2>1, <2>2 DEF UnitsOf, WeightOf
  <2>7. \A j \in Items : Units(after, j) = Units(slots, j) + UnitsOf(j)[x]
    BY <1>1, <2>3, <2>4
  <2>8. Units(after, i) = Units(slots, i) + n /\ \A j \in Items : j # i => Units(after, j) = Units(slots, j)
    BY <1>0, <1>1, <2>6, <2>7
  <2>9. Weight(after) = Weight(slots) + w * n
    BY <1>2, <2>3, <2>5, <2>6
  <2>10. \A k \in 1..Len(after) : after[k].item = i \/ \E j \in 1..Len(slots) : after[k].item = slots[j].item
    <3>1. Len(after) = Len(slots) + 1 /\ after[Len(slots) + 1] = x /\ \A k \in 1..Len(slots) : after[k] = slots[k]
      BY <2>1
    <3>2. \A k \in 1..Len(after) : k \in 1..Len(slots) \/ k = Len(slots) + 1
      BY <3>1
    <3> QED BY <2>2, <3>1, <3>2
  <2>11. Units(after, i) <= Units(slots, i) + n
    BY <1>0, <1>1, <2>8
  <2> QED BY <2>3, <2>8, <2>9, <2>10, <2>11 DEF after
<1>4. CASE Merges(slots, i)
  <2> DEFINE at == First(slots, i)
             c == slots[at].count
             x == [slots[at] EXCEPT !.count = Wrap(c + n)]
  <2>1. /\ at \in 1..Len(slots) /\ slots[at] \in ItemStack /\ slots[at].item = i /\ x \in ItemStack
        /\ x.item = i /\ x.count = Wrap(c + n) /\ x.weight_per_unit = slots[at].weight_per_unit
        /\ after = [slots EXCEPT ![at] = x]
    BY <1>0, <1>4, GivenMerged
  <2> HIDE DEF x, at, after
  <2>2. c \in Nat /\ slots[at].weight_per_unit \in Nat
    BY <2>1, StackType
  <2> HIDE DEF c
  <2>3. Wrap(c + n) \in Nat /\ Wrap(c + n) <= c + n /\ (c + n < WeightSpace => Wrap(c + n) = c + n)
    <3>1. c + n \in Nat
      BY <2>2
    <3> QED BY <3>1, WrapIs
  <2>4. /\ after \in Seq(ItemStack) /\ Len(after) = Len(slots) /\ after[at] = x
        /\ \A k \in 1..Len(slots) : k # at => after[k] = slots[k]
    BY <1>2, <2>1, MeasureReplace
  <2>5. \A h \in Measures : Measure(after, h) = (Measure(slots, h) - h[slots[at]]) + h[x]
    <3> SUFFICES ASSUME NEW h \in Measures PROVE Measure(after, h) = (Measure(slots, h) - h[slots[at]]) + h[x]
      OBVIOUS
    <3>0. x \in ItemStack /\ at \in 1..Len(slots)
      BY <2>1
    <3>1. Measure([slots EXCEPT ![at] = x], h) = (Measure(slots, h) - h[slots[at]]) + h[x]
      BY <3>0, MeasureReplace
    <3> QED BY <2>1, <3>1
  <2>6. \A j \in Items : Units(after, j) = Measure(after, UnitsOf(j))
    BY <2>4, AsMeasures
  <2>7. Weight(after) = Measure(after, WeightOf)
    BY <2>4, AsMeasures
  <2>8. UnitsOf(i)[slots[at]] = c /\ UnitsOf(i)[x] = Wrap(c + n)
    BY <2>1 DEF UnitsOf, c
  <2>9. \A j \in Items : j # i => UnitsOf(j)[slots[at]] = 0 /\ UnitsOf(j)[x] = 0
    BY <2>1 DEF UnitsOf
  <2>10. \A j \in Items : Units(after, j) = (Units(slots, j) - UnitsOf(j)[slots[at]]) + UnitsOf(j)[x]
    BY <1>1, <2>5, <2>6
  <2>11. \A j \in Items : j # i => Units(after, j) = Units(slots, j)
    BY <1>1, <2>9, <2>10
  <2>12. Units(after, i) = (Units(slots, i) - c) + Wrap(c + n)
    BY <1>0, <2>8, <2>10
  <2>13. c <= Units(slots, i) /\ Units(slots, i) \in Nat
    <3>1. UnitsOf(i)[slots[at]] <= Measure(slots, UnitsOf(i))
      BY <1>0, <1>1, <2>1, MeasureAbove
    <3> QED BY <1>0, <1>1, <2>8, <3>1
  <2>14. Units(after, i) <= Units(slots, i) + n
    BY <2>2, <2>3, <2>12, <2>13
  <2>15. ASSUME Units(slots, i) + n < WeightSpace
         PROVE  /\ Units(after, i) = Units(slots, i) + n
                /\ (\A k \in 1..Len(slots) : slots[k].item = i => slots[k].weight_per_unit = w) => Weight(after) = Weight(slots) + w * n
    <3>0. WeightSpace \in Nat
      BY WordTypes
    <3>1. Wrap(c + n) = c + n
      BY <2>2, <2>3, <2>13, <2>15, <3>0
    <3>2. Units(after, i) = Units(slots, i) + n
      BY <2>2, <2>12, <2>13, <3>1
    <3>3. ASSUME \A k \in 1..Len(slots) : slots[k].item = i => slots[k].weight_per_unit = w
          PROVE  Weight(after) = Weight(slots) + w * n
      <4>1. slots[at].weight_per_unit = w
        BY <2>1, <3>3
      <4>2. WeightOf[slots[at]] = w * c /\ WeightOf[x] = w * (c + n)
        BY <2>1, <3>1, <4>1 DEF WeightOf, c
      <4>3. Weight(after) = (Weight(slots) - w * c) + w * (c + n)
        BY <1>2, <2>5, <2>7, <4>2
      <4>4. \A ww, a, b \in Nat : ww * (a + b) = ww * a + ww * b /\ ww * a \in Nat /\ ww * b \in Nat
        OBVIOUS
      <4>5. w * (c + n) = w * c + w * n /\ w * c \in Nat /\ w * n \in Nat
        BY <1>0, <2>2, <4>4
      <4> QED BY <1>2, <4>3, <4>5
    <3> QED BY <3>2, <3>3
  <2>16. \A k \in 1..Len(after) : after[k].item = i \/ \E j \in 1..Len(slots) : after[k].item = slots[j].item
    BY <2>1, <2>4
  <2> QED BY <2>4, <2>11, <2>14, <2>15, <2>16 DEF after
<1> QED BY <1>3, <1>4

LEMMA TakenIs ==
    ASSUME NEW slots \in Seq(ItemStack), NEW i \in Items, NEW n \in Nat, ~Insufficient(slots, i, n)
    PROVE  LET at == First(slots, i)
               rest == TakenStack(slots, i, n)
           IN  /\ at \in 1..Len(slots) /\ slots[at] \in ItemStack /\ slots[at].item = i /\ n <= slots[at].count
               /\ rest \in Seq(ItemStack) /\ Len(rest) = Len(slots)
               /\ rest[at].item = i /\ rest[at].count = slots[at].count - n
               /\ rest[at].weight_per_unit = slots[at].weight_per_unit
               /\ \A k \in 1..Len(slots) : k # at => rest[k] = slots[k]
               /\ \A j \in Items : j # i => Units(rest, j) = Units(slots, j)
               /\ Units(rest, i) = Units(slots, i) - n /\ n <= Units(slots, i)
               /\ Weight(rest) = Weight(slots) - slots[at].weight_per_unit * n
<1> DEFINE at == First(slots, i)
           c == slots[at].count
           w == slots[at].weight_per_unit
           x == [slots[at] EXCEPT !.count = c - n]
           rest == TakenStack(slots, i, n)
<1>1. at \in 1..Len(slots) /\ slots[at].item = i
  BY FirstIs DEF Insufficient
<1>2. slots[at] \in ItemStack
  BY <1>1
<1>3. c \in Nat /\ w \in Nat
  BY <1>2, StackType
<1>4. n <= c /\ c - n \in Nat
  BY <1>3 DEF Insufficient
<1>5. rest = [slots EXCEPT ![at].count = c - n]
  BY <1>1 DEF TakenStack
<1>6. /\ [slots EXCEPT ![at].count = c - n] = [slots EXCEPT ![at] = x]
      /\ x \in ItemStack /\ x.item = slots[at].item /\ x.count = c - n /\ x.weight_per_unit = w
  BY <1>1, <1>4, Recount
<1>7. rest = [slots EXCEPT ![at] = x]
  BY <1>5, <1>6
<1> HIDE DEF at, x, rest
<1>8. \A j \in Items : UnitsOf(j) \in Measures /\ Units(slots, j) = Measure(slots, UnitsOf(j)) /\ Units(slots, j) \in Nat
  BY BothMeasures, AsMeasures, MeasureType
<1>9. WeightOf \in Measures /\ Weight(slots) = Measure(slots, WeightOf) /\ Weight(slots) \in Nat
  BY BothMeasures, AsMeasures, MeasureType
<1>10. /\ rest \in Seq(ItemStack) /\ Len(rest) = Len(slots) /\ rest[at] = x
       /\ \A k \in 1..Len(slots) : k # at => rest[k] = slots[k]
  BY <1>1, <1>6, <1>7, <1>9, MeasureReplace
<1>11. \A h \in Measures : Measure(rest, h) = (Measure(slots, h) - h[slots[at]]) + h[x]
  <2> SUFFICES ASSUME NEW h \in Measures PROVE Measure(rest, h) = (Measure(slots, h) - h[slots[at]]) + h[x]
    OBVIOUS
  <2>1. Measure([slots EXCEPT ![at] = x], h) = (Measure(slots, h) - h[slots[at]]) + h[x]
    BY <1>1, <1>6, MeasureReplace
  <2> QED BY <1>7, <2>1
<1>12. (\A j \in Items : Units(rest, j) = Measure(rest, UnitsOf(j))) /\ Weight(rest) = Measure(rest, WeightOf)
  BY <1>10, AsMeasures
<1> HIDE DEF c, w
<1>13. UnitsOf(i)[slots[at]] = c /\ UnitsOf(i)[x] = c - n
  BY <1>1, <1>2, <1>6 DEF UnitsOf, c
<1>14. \A j \in Items : j # i => UnitsOf(j)[slots[at]] = 0 /\ UnitsOf(j)[x] = 0
  BY <1>1, <1>2, <1>6 DEF UnitsOf
<1>15. \A j \in Items : j # i => Units(rest, j) = Units(slots, j)
  BY <1>8, <1>11, <1>12, <1>14
<1>16. Units(rest, i) = (Units(slots, i) - c) + (c - n)
  BY <1>8, <1>11, <1>12, <1>13
<1>17. c <= Units(slots, i) /\ Units(slots, i) \in Nat
  <2>1. UnitsOf(i)[slots[at]] <= Measure(slots, UnitsOf(i))
    BY <1>1, <1>8, MeasureAbove
  <2> QED BY <1>8, <1>13, <2>1
<1>18. Units(rest, i) = Units(slots, i) - n /\ n <= Units(slots, i)
  BY <1>3, <1>4, <1>16, <1>17
<1>19. WeightOf[slots[at]] = w * c /\ WeightOf[x] = w * (c - n)
  BY <1>2, <1>6 DEF WeightOf, c, w
<1>20. Weight(rest) = (Weight(slots) - w * c) + w * (c - n)
  BY <1>9, <1>11, <1>12, <1>19
<1>21. \A ww, a \in Nat, b \in Int : ww * (a - b) = ww * a - ww * b /\ ww * a \in Int /\ ww * b \in Int
  OBVIOUS
<1>22. w * (c - n) = w * c - w * n /\ w * c \in Int /\ w * n \in Int
  BY <1>3, <1>21
<1>23. Weight(rest) = Weight(slots) - w * n
  BY <1>9, <1>20, <1>22
<1> QED BY <1>1, <1>2, <1>4, <1>6, <1>10, <1>15, <1>18, <1>23 DEF at, c, w, rest

(* What take leaves are stacks of the storage, one of them smaller. *)
LEMMA TakenUnits ==
    ASSUME NEW slots \in Seq(ItemStack), NEW i \in Items, NEW n \in Nat, ~Insufficient(slots, i, n)
    PROVE  LET after == TakenSlots(slots, i, n)
               rest == TakenStack(slots, i, n)
           IN  /\ after \in Seq(ItemStack)
               /\ after = rest \/ Thinned(after, rest, Len(rest))
               /\ \A j \in Items : j # i => Units(after, j) = Units(slots, j)
               /\ Units(after, i) = Units(slots, i) - n /\ n <= Units(slots, i)
               /\ Weight(after) = Weight(slots) - slots[First(slots, i)].weight_per_unit * n
<1> DEFINE rest == TakenStack(slots, i, n)
           after == TakenSlots(slots, i, n)
<1>1. rest \in Seq(ItemStack)
  BY TakenIs
<1>2. /\ \A j \in Items : j # i => Units(rest, j) = Units(slots, j)
      /\ Units(rest, i) = Units(slots, i) - n /\ n <= Units(slots, i)
      /\ Weight(rest) = Weight(slots) - slots[First(slots, i)].weight_per_unit * n
  BY TakenIs
<1>3. after = rest \/ after = NotEmpty(rest)
  BY DEF TakenSlots
<1> HIDE DEF rest, after
<1>4. CASE after = rest
  BY <1>1, <1>2, <1>4 DEF after, rest
<1>5. CASE after = NotEmpty(rest)
  <2>1. after \in Seq(ItemStack) /\ Thinned(after, rest, Len(rest))
    BY <1>1, <1>5, NotEmptyThins
  <2>2. \A h \in Measures : Measure(after, h) = Measure(rest, h)
    BY <1>1, <1>5, NotEmptyMeasures
  <2>3. (\A j \in Items : Units(after, j) = Units(rest, j)) /\ Weight(after) = Weight(rest)
    BY <1>1, <2>1, <2>2, AsMeasures, BothMeasures
  <2> QED BY <1>2, <2>1, <2>3 DEF after, rest
<1> QED BY <1>3, <1>4, <1>5

-----------------------------------------------------------------------------
(* Stacks as they are while no definition has been edited: of their item's *)
(* weight, within its stack limit, and one for an item that stacks.        *)
FairSlots(reg, slots) ==
    /\ \A k \in 1..Len(slots) :
        /\ slots[k].item \in DOMAIN reg
        /\ slots[k].weight_per_unit = reg[slots[k].item].weight
        /\ slots[k].count <= reg[slots[k].item].max_stack
    /\ \A j, k \in 1..Len(slots) : j < k /\ slots[j].item = slots[k].item => ~reg[slots[j].item].stackable

LEMMA GivenFair ==
    ASSUME NEW slots \in Seq(ItemStack), NEW i \in DOMAIN item_registry, Registry(item_registry), NEW n \in Nat,
           FairSlots(item_registry, slots), ~OverStack(slots, i, n)
    PROVE  FairSlots(item_registry, GivenSlots(slots, i, n))
<1> DEFINE after == GivenSlots(slots, i, n)
           m == item_registry[i].max_stack
<1>0. i \in Items /\ m \in Nat
  BY RegistryType
<1>1. CASE ~Merges(slots, i)
  <2> DEFINE x == [item |-> i, count |-> n, weight_per_unit |-> item_registry[i].weight]
  <2>1. x \in ItemStack /\ after = Append(slots, x) /\ NewCount(slots, i, n) = n
    BY <1>1, GivenNew
  <2>2. x.item = i /\ x.count = n /\ x.weight_per_unit = item_registry[i].weight
    OBVIOUS
  <2>3. n <= m
    BY <1>0, <2>1 DEF OverStack
  <2> HIDE DEF x, after, m
  <2>4. Len(after) = Len(slots) + 1 /\ after[Len(slots) + 1] = x /\ Len(slots) \in Nat /\ \A k \in 1..Len(slots) : after[k] = slots[k]
    BY <2>1
  <2>5. \A k \in 1..Len(after) : k \in 1..Len(slots) \/ k = Len(slots) + 1
    BY <2>4
  <2>6. ASSUME NEW k \in 1..Len(after)
        PROVE  /\ after[k].item \in DOMAIN item_registry
               /\ after[k].weight_per_unit = item_registry[after[k].item].weight
               /\ after[k].count <= item_registry[after[k].item].max_stack
    <3>1. CASE k \in 1..Len(slots)
      BY <2>4, <3>1 DEF FairSlots
    <3>2. CASE k = Len(slots) + 1
      BY <2>2, <2>3, <2>4, <3>2 DEF m
    <3> QED BY <2>5, <3>1, <3>2
  <2>7. ASSUME NEW j \in 1..Len(after), NEW k \in 1..Len(after), j < k, after[j].item = after[k].item
        PROVE  ~item_registry[after[j].item].stackable
    <3>1. j \in 1..Len(slots)
      BY <2>4, <2>7
    <3>2. CASE k \in 1..Len(slots)
      BY <2>4, <2>7, <3>1, <3>2 DEF FairSlots
    <3>3. CASE k = Len(slots) + 1
      <4>1. slots[j].item = i /\ after[j].item = i
        BY <2>2, <2>4, <2>7, <3>1, <3>3
      <4>2. First(slots, i) # 0
        BY <3>1, <4>1, FirstIs
      <4> QED BY <1>1, <4>1, <4>2 DEF Merges
    <3> QED BY <2>5, <3>2, <3>3
  <2> QED BY <2>6, <2>7 DEF FairSlots, after
<1>2. CASE Merges(slots, i)
  <2> DEFINE at == First(slots, i)
             x == [slots[at] EXCEPT !.count = Wrap(slots[at].count + n)]
  <2>1. /\ at \in 1..Len(slots) /\ slots[at] \in ItemStack /\ slots[at].item = i /\ x \in ItemStack
        /\ x.item = i /\ x.weight_per_unit = slots[at].weight_per_unit
        /\ after = [slots EXCEPT ![at] = x] /\ NewCount(slots, i, n) = x.count
    BY <1>0, <1>2, GivenMerged
  <2>2. x.count \in Nat
    BY <2>1, StackType
  <2> HIDE DEF x, at, after
  <2>3. x.count <= m
    BY <1>0, <2>1, <2>2 DEF OverStack
  <2>4. WeightOf \in Measures
    BY BothMeasures
  <2>5. Len(after) = Len(slots) /\ after[at] = x /\ \A k \in 1..Len(slots) : k # at => after[k] = slots[k]
    BY <2>1, <2>4, MeasureReplace
  <2>6. \A k \in 1..Len(after) : after[k].item = slots[k].item /\ after[k].weight_per_unit = slots[k].weight_per_unit
    BY <2>1, <2>5
  <2>7. ASSUME NEW k \in 1..Len(after)
        PROVE  /\ after[k].item \in DOMAIN item_registry
               /\ after[k].weight_per_unit = item_registry[after[k].item].weight
               /\ after[k].count <= item_registry[after[k].item].max_stack
    <3>1. after[k].item = slots[k].item /\ after[k].weight_per_unit = slots[k].weight_per_unit /\ k \in 1..Len(slots)
      BY <2>5, <2>6
    <3>2. CASE k = at
      BY <2>1, <2>3, <2>5, <3>1, <3>2 DEF FairSlots, m
    <3>3. CASE k # at
      BY <2>5, <3>1, <3>3 DEF FairSlots
    <3> QED BY <3>2, <3>3
  <2>8. \A j, k \in 1..Len(after) : j < k /\ after[j].item = after[k].item => ~item_registry[after[j].item].stackable
    BY <2>5, <2>6 DEF FairSlots
  <2> QED BY <2>7, <2>8 DEF FairSlots, after
<1> QED BY <1>1, <1>2

(* The stacks left behind by take, as stacks of the storage: in order, and *)
(* none that the take has emptied. *)
LEMMA TakenFrom ==
    ASSUME NEW slots \in Seq(ItemStack), NEW i \in Items, NEW n \in Nat, ~Insufficient(slots, i, n)
    PROVE  LET after == TakenSlots(slots, i, n)
               rest == TakenStack(slots, i, n)
               at == First(slots, i)
           IN  /\ \A p \in 1..Len(after) : \E j \in 1..Len(slots) : after[p] = rest[j]
               /\ \A p, q \in 1..Len(after) : p < q => \E j, k \in 1..Len(slots) : j < k /\ after[p] = rest[j] /\ after[q] = rest[k]
               /\ rest[at].count = 0 => \A p \in 1..Len(after) : after[p].count > 0
<1> DEFINE rest == TakenStack(slots, i, n)
           after == TakenSlots(slots, i, n)
           at == First(slots, i)
<1>1. rest \in Seq(ItemStack) /\ Len(rest) = Len(slots)
  BY TakenIs
<1>2. after = IF rest[at].count = 0 THEN NotEmpty(rest) ELSE rest
  BY DEF TakenSlots
<1> HIDE DEF rest, after, at
<1>3. CASE rest[at].count # 0
  BY <1>1, <1>2, <1>3 DEF after, rest, at
<1>4. CASE rest[at].count = 0
  <2>1. after = NotEmpty(rest)
    BY <1>2, <1>4
  <2>2. Thinned(after, rest, Len(slots))
    BY <1>1, <2>1, NotEmptyThins
  <2> QED BY <2>2 DEF Thinned, after, rest, at
<1> QED BY <1>3, <1>4

LEMMA TakenFair ==
    ASSUME NEW slots \in Seq(ItemStack), NEW i \in Items, NEW n \in Nat, ~Insufficient(slots, i, n),
           Registry(item_registry), FairSlots(item_registry, slots)
    PROVE  FairSlots(item_registry, TakenSlots(slots, i, n))
<1> DEFINE rest == TakenStack(slots, i, n)
           after == TakenSlots(slots, i, n)
           at == First(slots, i)
<1>1. /\ at \in 1..Len(slots) /\ slots[at] \in ItemStack /\ slots[at].item = i
      /\ rest[at].item = i /\ rest[at].count = slots[at].count - n
      /\ rest[at].weight_per_unit = slots[at].weight_per_unit
      /\ \A k \in 1..Len(slots) : k # at => rest[k] = slots[k]
  BY TakenIs
<1>2. /\ \A p \in 1..Len(after) : \E j \in 1..Len(slots) : after[p] = rest[j]
      /\ \A p, q \in 1..Len(after) : p < q => \E j, k \in 1..Len(slots) : j < k /\ after[p] = rest[j] /\ after[q] = rest[k]
  BY TakenFrom
<1> HIDE DEF rest, after, at
<1>3. \A k \in 1..Len(slots) : rest[k].item = slots[k].item /\ rest[k].weight_per_unit = slots[k].weight_per_unit
  BY <1>1
<1>4. ASSUME NEW k \in 1..Len(slots)
      PROVE  /\ rest[k].item \in DOMAIN item_registry
             /\ rest[k].weight_per_unit = item_registry[rest[k].item].weight
             /\ rest[k].count <= item_registry[rest[k].item].max_stack
  <2>1. CASE k # at
    BY <1>1, <2>1 DEF FairSlots
  <2>2. CASE k = at
    <3>1. slots[at].count \in Nat
      BY <1>1, StackType
    <3>2. i \in DOMAIN item_registry /\ slots[at].count <= item_registry[i].max_stack
      BY <1>1 DEF FairSlots
    <3>3. item_registry[i].max_stack \in Nat
      BY <3>2, RegistryType
    <3>4. rest[at].count <= item_registry[i].max_stack
      BY <1>1, <3>1, <3>2, <3>3
    <3> QED BY <1>1, <1>3, <2>2, <3>2, <3>4 DEF FairSlots
  <2> QED BY <2>1, <2>2
<1>5. \A j, k \in 1..Len(slots) : j < k /\ rest[j].item = rest[k].item => ~item_registry[rest[j].item].stackable
  BY <1>3 DEF FairSlots
<1>6. \A p \in 1..Len(after) :
        /\ after[p].item \in DOMAIN item_registry
        /\ after[p].weight_per_unit = item_registry[after[p].item].weight
        /\ after[p].count <= item_registry[after[p].item].max_stack
  BY <1>2, <1>4
<1>7. ASSUME NEW p \in 1..Len(after), NEW q \in 1..Len(after), p < q, after[p].item = after[q].item
      PROVE  ~item_registry[after[p].item].stackable
  <2>1. PICK j \in 1..Len(slots), k \in 1..Len(slots) : j < k /\ after[p] = rest[j] /\ after[q] = rest[k]
    BY <1>2, <1>7
  <2>2. rest[j].item = rest[k].item
    BY <1>7, <2>1
  <2> QED BY <1>5, <2>1, <2>2
<1> QED BY <1>6, <1>7 DEF FairSlots, after

(* A storage has room for what has just been taken from it: there was a    *)
(* stack of it, and if it stacks that was the only one.                    *)
LEMMA RoomToGiveBack ==
    ASSUME NEW slots \in Seq(ItemStack), NEW i \in Items, NEW n \in Nat, ~Insufficient(slots, i, n),
           Registry(item_registry), FairSlots(item_registry, slots)
    PROVE  ~OverStack(TakenSlots(slots, i, n), i, n)
<1> DEFINE rest == TakenStack(slots, i, n)
           after == TakenSlots(slots, i, n)
           at == First(slots, i)
           m == item_registry[i].max_stack
<1>1. /\ at \in 1..Len(slots) /\ slots[at] \in ItemStack /\ slots[at].item = i /\ n <= slots[at].count
      /\ rest[at].item = i /\ rest[at].count = slots[at].count - n
      /\ \A k \in 1..Len(slots) : k # at => rest[k] = slots[k]
  BY TakenIs
<1>2. /\ \A p \in 1..Len(after) : \E j \in 1..Len(slots) : after[p] = rest[j]
      /\ rest[at].count = 0 => \A p \in 1..Len(after) : after[p].count > 0
  BY TakenFrom
<1>3. after \in Seq(ItemStack)
  BY TakenUnits
<1>4. slots[at].count \in Nat
  BY <1>1, StackType
<1>5. i \in DOMAIN item_registry /\ slots[at].count <= m
  BY <1>1 DEF FairSlots
<1>6. m \in Nat /\ m < WeightSpace /\ WeightSpace \in Nat
  BY <1>5, RegistryType, WordTypes
<1> HIDE DEF rest, after, at, m
<1>7. CASE ~Merges(after, i)
  <2>1. NewCount(after, i, n) = n
    BY <1>7 DEF NewCount
  <2> QED BY <1>1, <1>4, <1>5, <1>6, <2>1 DEF OverStack, after, m
<1>8. CASE Merges(after, i)
  <2> DEFINE p == First(after, i)
  <2>1. p \in 1..Len(after) /\ after[p].item = i
    BY <1>3, <1>8, FirstIs DEF Merges
  <2>2. PICK j \in 1..Len(slots) : after[p] = rest[j]
    BY <1>2, <2>1
  <2>3. slots[j].item = i
    BY <1>1, <2>1, <2>2
  <2>4. item_registry[i].stackable
    BY <1>8 DEF Merges
  <2>5. j = at
    <3>1. ~(j < at) /\ ~(at < j)
      BY <1>1, <2>3, <2>4 DEF FairSlots
    <3>2. j \in Nat /\ at \in Nat
      BY <1>1
    <3> QED BY <3>1, <3>2
  <2>6. after[p].count = slots[at].count - n
    BY <1>1, <2>2, <2>5
  <2>7. NewCount(after, i, n) = Wrap(after[p].count + n)
    BY <1>8 DEF NewCount
  <2>8. after[p].count + n = slots[at].count
    BY <1>4, <2>6
  <2>9. Wrap(slots[at].count) = slots[at].count
    <3>1. slots[at].count < WeightSpace
      BY <1>4, <1>5, <1>6
    <3> QED BY <1>4, <3>1, WrapIs
  <2>10. NewCount(after, i, n) <= m
    BY <1>5, <2>7, <2>8, <2>9
  <2>11. NewCount(after, i, n) \in Nat
    BY <1>4, <2>7, <2>8, <2>9
  <2> QED BY <1>6, <2>10, <2>11 DEF OverStack, after, m
<1> QED BY <1>7, <1>8

-----------------------------------------------------------------------------
(* give and take on a table of storages. *)

Table == [Storages -> [limit : Limits \cup {NoLimit}, slots : Seq(ItemStack)]]

KnownSlots(reg, slots) == \A k \in 1..Len(slots) : slots[k].item \in DOMAIN reg

Known(reg, st) == \A s \in Storages : KnownSlots(reg, st[s].slots)

FairStore(reg, store) ==
    /\ FairSlots(reg, store.slots)
    /\ IF store.limit = NoLimit THEN store.slots = <<>> ELSE Weight(store.slots) <= store.limit

Fair(reg, st) == \A s \in Storages : FairStore(reg, st[s])

LEMMA StoreType ==
    ASSUME NEW st \in Table, NEW s \in Storages
    PROVE  st[s].slots \in Seq(ItemStack) /\ st[s].limit \in Limits \cup {NoLimit} /\ st[s] = [limit |-> st[s].limit, slots |-> st[s].slots]
  BY DEF Table

LEMMA HeldType ==
    ASSUME NEW st \in Table, NEW i \in Items
    PROVE  /\ (\A s \in Storages : Units(st[s].slots, i) \in Nat) /\ Held(st, i) \in Nat
           /\ \A s \in Storages : Units(st[s].slots, i) <= Held(st, i)
<1> DEFINE f == [s \in Storages |-> Units(st[s].slots, i)]
<1>1. \A s \in Storages : Units(st[s].slots, i) \in Nat
  <2> SUFFICES ASSUME NEW s \in Storages PROVE Units(st[s].slots, i) \in Nat
    OBVIOUS
  <2>1. st[s].slots \in Seq(ItemStack)
    BY StoreType
  <2> QED BY <2>1, AsMeasures, BothMeasures, MeasureType
<1>2. IsFiniteSet(Storages) /\ (\A s \in Storages : f[s] \in Nat) /\ Held(st, i) = SumOver(Storages, f)
  BY <1>1, WordTypes DEF Held
<1>3. \A s \in Storages : f[s] = Units(st[s].slots, i)
  OBVIOUS
<1> HIDE DEF f
<1>4. Held(st, i) \in Nat
  BY <1>2, SumOverNat
<1>5. \A s \in Storages : f[s] <= SumOver(Storages, f)
  BY <1>2, SumOverAbove
<1> QED BY <1>1, <1>2, <1>3, <1>4, <1>5

(* One storage of a table has other slots. *)
LEMMA Reslotted ==
    ASSUME NEW st \in Table, NEW s \in Storages, NEW slots \in Seq(ItemStack)
    PROVE  LET new == [st EXCEPT ![s].slots = slots] IN
           /\ new \in Table /\ new[s].slots = slots /\ new[s].limit = st[s].limit
           /\ \A x \in Storages : x # s => new[x] = st[x]
           /\ \A i \in Items : Held(new, i) = (Held(st, i) - Units(st[s].slots, i)) + Units(slots, i)
<1> DEFINE new == [st EXCEPT ![s].slots = slots]
<1>1. new[s].slots = slots /\ new[s].limit = st[s].limit /\ \A x \in Storages : x # s => new[x] = st[x]
  BY DEF Table
<1>2. new \in Table
  BY DEF Table
<1> HIDE DEF new
<1>3. ASSUME NEW i \in Items PROVE Held(new, i) = (Held(st, i) - Units(st[s].slots, i)) + Units(slots, i)
  <2> DEFINE f == [x \in Storages |-> Units(st[x].slots, i)]
             g == [x \in Storages |-> Units(new[x].slots, i)]
  <2>1. \A x \in Storages : Units(st[x].slots, i) \in Nat /\ Units(new[x].slots, i) \in Nat
    BY <1>2, HeldType
  <2>2. IsFiniteSet(Storages) /\ Held(st, i) = SumOver(Storages, f) /\ Held(new, i) = SumOver(Storages, g)
    BY WordTypes DEF Held
  <2>3. (\A x \in Storages : f[x] \in Int /\ g[x] \in Int) /\ \A x \in Storages : x # s => g[x] = f[x]
    BY <1>1, <2>1
  <2>4. f[s] = Units(st[s].slots, i) /\ g[s] = Units(slots, i)
    BY <1>1
  <2> HIDE DEF f, g
  <2>5. SumOver(Storages, g) = (SumOver(Storages, f) - f[s]) + g[s]
    BY <2>2, <2>3, SumOverReplace
  <2> QED BY <2>2, <2>4, <2>5
<1> QED BY <1>1, <1>2, <1>3 DEF new

(* The first access fixes the limit and changes nothing else. *)
LEMMA OpenedIs ==
    ASSUME NEW st \in Table, NEW s \in Storages, NEW limit \in Limits
    PROVE  LET new == Opened(st, s, limit) IN
           /\ new \in Table /\ new[s].limit \in Limits
           /\ \A x \in Storages : new[x].slots = st[x].slots
           /\ \A x \in Storages : x # s \/ st[s].limit # NoLimit => new[x] = st[x]
           /\ \A i \in Items : Held(new, i) = Held(st, i)
           /\ Known(item_registry, st) => Known(item_registry, new)
           /\ Fair(item_registry, st) => Fair(item_registry, new)
           /\ \A x \in Storages, l \in Limits : x = s => Opened(new, x, l) = new
<1> DEFINE new == Opened(st, s, limit)
<1>0. limit \in Nat /\ NoLimit \notin Limits
  BY WordTypes DEF NoLimit
<1>1. new \in Table /\ new[s].limit \in Limits /\ \A x \in Storages : new[x].slots = st[x].slots
  BY <1>0 DEF Opened, Table
<1>2. \A x \in Storages : x # s \/ st[s].limit # NoLimit => new[x] = st[x]
  BY DEF Opened, Table
<1>3. \A x \in Storages, l \in Limits : x = s => Opened(new, x, l) = new
  <2> HIDE DEF new
  <2> QED BY <1>0, <1>1 DEF Opened
<1>4. st[s].limit = NoLimit => new[s].limit = limit
  BY DEF Opened, Table
<1> HIDE DEF new
<1>5. ASSUME NEW i \in Items PROVE Held(new, i) = Held(st, i)
  <2>1. [x \in Storages |-> Units(new[x].slots, i)] = [x \in Storages |-> Units(st[x].slots, i)]
    BY <1>1
  <2> QED BY <2>1 DEF Held
<1>6. Known(item_registry, st) => Known(item_registry, new)
  BY <1>1 DEF Known
<1>7. ASSUME Fair(item_registry, st), NEW x \in Storages PROVE FairStore(item_registry, new[x])
  <2>1. FairStore(item_registry, st[x])
    BY <1>7 DEF Fair
  <2>2. CASE x # s \/ st[s].limit # NoLimit
    BY <1>2, <2>1, <2>2
  <2>3. CASE x = s /\ st[s].limit = NoLimit
    <3>1. new[x].limit = limit /\ limit # NoLimit /\ new[x].slots = <<>> /\ FairSlots(item_registry, new[x].slots)
      BY <1>0, <1>1, <1>4, <2>1, <2>3 DEF FairStore
    <3>2. <<>> \in Seq(ItemStack)
      OBVIOUS
    <3>3. Weight(<<>>) = 0
      BY <3>2, AsMeasures, BothMeasures, MeasureNone
    <3>4. Weight(new[x].slots) <= new[x].limit
      BY <1>0, <3>1, <3>3
    <3> QED BY <3>1, <3>4 DEF FairStore
  <2> QED BY <2>2, <2>3
<1> QED BY <1>1, <1>2, <1>3, <1>5, <1>6, <1>7 DEF Fair, new

(* A storage that is not given to is refused for its weight or its stack. *)
Refused(store, i, n) == OverWeight(store, i, n) \/ OverStack(store.slots, i, n)

LEMMA GiveIs ==
    ASSUME NEW st, NEW s, NEW limit, NEW i, NEW n
    PROVE  LET opened == Opened(st, s, limit)
               out == GiveTo(st, s, limit, i, n)
           IN  /\ out.ok = ~Refused(opened[s], i, n)
               /\ out.storages = IF out.ok THEN [opened EXCEPT ![s].slots = GivenSlots(opened[s].slots, i, n)] ELSE opened
  BY DEF GiveTo, Refused, GivenSlots

LEMMA TakeIs ==
    ASSUME NEW st, NEW s, NEW limit, NEW i, NEW n
    PROVE  LET opened == Opened(st, s, limit)
               out == TakeFrom(st, s, limit, i, n)
           IN  /\ out.ok = ~Insufficient(opened[s].slots, i, n)
               /\ out.storages = IF out.ok THEN [opened EXCEPT ![s].slots = TakenSlots(opened[s].slots, i, n)] ELSE opened
  BY DEF TakeFrom, TakenSlots, TakenStack

(* The weight check of a storage that is within its limit does not wrap. *)
LEMMA WeightCheck ==
    ASSUME Registry(item_registry), NEW i \in DOMAIN item_registry, NEW n \in Nat, n <= MaxGranted, FitsWords,
           NEW store, store.slots \in Seq(ItemStack), store.limit \in Limits,
           Weight(store.slots) <= store.limit
    PROVE  OverWeight(store, i, n) <=> Weight(store.slots) + item_registry[i].weight * n > store.limit
<1> DEFINE w == item_registry[i].weight
           W == Weight(store.slots)
           l == store.limit
<1>1. w \in Nat /\ w \in Weights /\ MaxGranted \in Nat /\ WeightSpace \in Nat /\ l \in Nat /\ l \in Limits /\ W <= l
  BY RegistryType, WordTypes
<1>2. W \in Nat
  BY AsMeasures, BothMeasures, MeasureType
<1>3. l + w * MaxGranted < WeightSpace
  BY <1>1 DEF FitsWords
<1>4. OverWeight(store, i, n) <=> Wrap(Wrap(W) + Wrap(w * n)) > l
  BY DEF OverWeight, total_weight
<1> HIDE DEF w, W, l
<1>5. \A a, b, c \in Nat : b <= c => a * b <= a * c /\ a * b \in Nat /\ a * c \in Nat
  OBVIOUS
<1>6. w * n <= w * MaxGranted /\ w * n \in Nat /\ w * MaxGranted \in Nat
  BY <1>1, <1>5
<1>7. W + w * n < WeightSpace /\ W < WeightSpace /\ w * n < WeightSpace /\ W + w * n \in Nat
  BY <1>1, <1>2, <1>3, <1>6
<1>8. Wrap(W) = W /\ Wrap(w * n) = w * n /\ Wrap(W + w * n) = W + w * n
  BY <1>2, <1>6, <1>7, WrapIs
<1>9. OverWeight(store, i, n) <=> W + w * n > l
  BY <1>4, <1>8
<1> QED BY <1>9 DEF w, W, l

(* give on a table: never more units than asked for, and exactly those     *)
(* when no word wraps. *)
LEMMA GiveTable ==
    ASSUME Registry(item_registry), NEW st \in Table, Known(item_registry, st),
           NEW s \in Storages, NEW limit \in Limits, NEW i \in DOMAIN item_registry, NEW n \in Nat
    PROVE  LET out == GiveTo(st, s, limit, i, n) IN
           /\ out.ok \in BOOLEAN /\ out.storages \in Table /\ Known(item_registry, out.storages)
           /\ \A j \in Items : j # i \/ ~out.ok => Held(out.storages, j) = Held(st, j)
           /\ Held(out.storages, i) <= Held(st, i) + n
           /\ FitsWords /\ Fair(item_registry, st) /\ Held(st, i) + n <= MaxGranted =>
                /\ Fair(item_registry, out.storages)
                /\ out.ok => Held(out.storages, i) = Held(st, i) + n
<1> DEFINE opened == Opened(st, s, limit)
           slots == opened[s].slots
           after == GivenSlots(slots, i, n)
           new == [opened EXCEPT ![s].slots = after]
           out == GiveTo(st, s, limit, i, n)
<1>0. i \in Items
  BY RegistryType
<1>1. /\ opened \in Table /\ opened[s].limit \in Limits /\ Known(item_registry, opened)
      /\ \A j \in Items : Held(opened, j) = Held(st, j)
      /\ Fair(item_registry, st) => Fair(item_registry, opened)
  BY OpenedIs
<1>2. out.ok = ~Refused(opened[s], i, n) /\ out.storages = IF out.ok THEN new ELSE opened
  BY GiveIs
<1> HIDE DEF opened, out
<1>3. slots \in Seq(ItemStack)
  BY <1>1, StoreType
<1>4. Held(st, i) \in Nat /\ Held(st, i) <= Held(st, i) + n
  BY <1>0, HeldType
<1>5. CASE ~out.ok
  <2>1. out.storages = opened
    BY <1>2, <1>5
  <2> QED BY <1>0, <1>1, <1>2, <1>4, <1>5, <2>1 DEF out, Refused
<1>6. CASE out.ok
  <2>1. out.storages = new /\ ~Refused(opened[s], i, n)
    BY <1>2, <1>6
  <2>2. /\ after \in Seq(ItemStack)
        /\ \A k \in 1..Len(after) : after[k].item = i \/ \E j \in 1..Len(slots) : after[k].item = slots[j].item
        /\ \A j \in Items : j # i => Units(after, j) = Units(slots, j)
        /\ Units(after, i) <= Units(slots, i) + n
    BY <1>3, GivenUnits
  <2>3. Units(slots, i) + n < WeightSpace =>
            /\ Units(after, i) = Units(slots, i) + n
            /\ (\A k \in 1..Len(slots) : slots[k].item = i => slots[k].weight_per_unit = item_registry[i].weight)
                        => Weight(after) = Weight(slots) + item_registry[i].weight * n
    BY <1>3, GivenUnits
  <2> HIDE DEF after
  <2>4. /\ new \in Table /\ new[s].slots = after /\ new[s].limit = opened[s].limit
        /\ \A x \in Storages : x # s => new[x] = opened[x]
        /\ \A j \in Items : Held(new, j) = (Held(opened, j) - Units(slots, j)) + Units(after, j)
    <3>1. opened \in Table /\ after \in Seq(ItemStack)
      BY <1>1, <2>2
    <3> DEFINE q == [opened EXCEPT ![s].slots = after]
    <3>2. q \in Table /\ q[s].slots = after /\ q[s].limit = opened[s].limit /\ \A x \in Storages : x # s => q[x] = opened[x]
      BY SMTT(60), <3>1, Reslotted
    <3>3. ASSUME NEW j \in Items PROVE Held(q, j) = (Held(opened, j) - Units(opened[s].slots, j)) + Units(after, j)
      BY <3>1, Reslotted
    <3> QED BY <3>2, <3>3
  <2> HIDE DEF new
  <2>5. \A j \in Items : Units(slots, j) \in Nat /\ Held(opened, j) \in Nat /\ Units(slots, j) <= Held(opened, j)
    BY <1>1, HeldType
  <2>6. \A j \in Items : j # i => Held(new, j) = Held(st, j)
    BY <1>1, <2>2, <2>4, <2>5
  <2>7. Units(after, i) \in Nat
    BY <1>0, <2>2, AsMeasures, BothMeasures, MeasureType
  <2>8. Held(new, i) <= Held(st, i) + n
    BY <1>0, <1>1, <2>2, <2>4, <2>5, <2>7
  <2>9. Known(item_registry, new)
    <3>1. KnownSlots(item_registry, slots)
      BY <1>1 DEF Known
    <3>2. KnownSlots(item_registry, after)
      BY <2>2, <3>1 DEF KnownSlots
    <3> QED BY <1>1, <2>4, <3>2 DEF Known
  <2>10. ASSUME FitsWords, Fair(item_registry, st), Held(st, i) + n <= MaxGranted
         PROVE  Fair(item_registry, new) /\ Held(new, i) = Held(st, i) + n
    <3>0. MaxGranted \in Nat /\ WeightSpace \in Nat /\ MaxGranted < WeightSpace
      BY <2>10, WordTypes DEF FitsWords
    <3>1. Held(opened, i) = Held(st, i) /\ Units(slots, i) \in Nat /\ Units(slots, i) <= Held(opened, i)
      BY <1>0, <1>1, <2>5
    <3>2. Units(slots, i) + n < WeightSpace /\ n <= MaxGranted
      BY <1>4, <2>10, <3>0, <3>1
    <3>3. Units(after, i) = Units(slots, i) + n
      BY <2>3, <3>2
    <3>4. Held(new, i) = (Held(st, i) - Units(slots, i)) + Units(after, i)
      BY <1>0, <2>4, <3>1
    <3>5. Held(new, i) = Held(st, i) + n
      BY <1>4, <3>1, <3>3, <3>4
    <3>6. Fair(item_registry, opened)
      BY <1>1, <2>10
    <3>7. FairStore(item_registry, opened[s]) /\ opened[s].limit # NoLimit
      BY <1>1, <3>6, WordTypes DEF Fair, NoLimit
    <3>8. FairSlots(item_registry, slots) /\ Weight(slots) <= opened[s].limit
      BY <3>7 DEF FairStore
    <3>9. Weight(after) = Weight(slots) + item_registry[i].weight * n
      <4>1. \A k \in 1..Len(slots) : slots[k].item = i => slots[k].weight_per_unit = item_registry[i].weight
        BY <3>8 DEF FairSlots
      <4> QED BY <2>3, <3>2, <4>1
    <3>10. ~(Weight(slots) + item_registry[i].weight * n > opened[s].limit)
      BY <1>1, <1>3, <2>1, <2>10, <3>2, <3>8, WeightCheck DEF Refused
    <3>11. Weight(slots) \in Nat /\ item_registry[i].weight \in Nat /\ opened[s].limit \in Nat
      BY <1>1, <1>3, RegistryType, WordTypes, AsMeasures, BothMeasures, MeasureType
    <3>12. item_registry[i].weight * n \in Nat
      BY <3>11
    <3>13. Weight(after) <= opened[s].limit
      BY <3>9, <3>10, <3>11, <3>12
    <3>14. FairSlots(item_registry, after)
      BY <1>3, <2>1, <3>8, GivenFair DEF Refused, after
    <3>15. FairStore(item_registry, new[s])
      BY <2>4, <3>7, <3>13, <3>14 DEF FairStore
    <3>16. Fair(item_registry, new)
      BY <2>4, <3>6, <3>15 DEF Fair
    <3> QED BY <3>5, <3>16
  <2> QED BY <1>6, <2>1, <2>4, <2>6, <2>8, <2>9, <2>10 DEF out
<1> QED BY <1>5, <1>6, <1>2

LEMMA TakeTable ==
    ASSUME Registry(item_registry), NEW st \in Table, Known(item_registry, st),
           NEW s \in Storages, NEW limit \in Limits, NEW i \in Items, NEW n \in Nat
    PROVE  LET out == TakeFrom(st, s, limit, i, n) IN
           /\ out.ok \in BOOLEAN /\ out.storages \in Table /\ Known(item_registry, out.storages)
           /\ \A j \in Items : j # i \/ ~out.ok => Held(out.storages, j) = Held(st, j)
           /\ out.ok => i \in DOMAIN item_registry /\ Held(out.storages, i) = Held(st, i) - n /\ n <= Held(st, i)
           /\ Fair(item_registry, st) => Fair(item_registry, out.storages)
<1> DEFINE opened == Opened(st, s, limit)
           slots == opened[s].slots
           after == TakenSlots(slots, i, n)
           new == [opened EXCEPT ![s].slots = after]
           out == TakeFrom(st, s, limit, i, n)
<1>1. /\ opened \in Table /\ opened[s].limit \in Limits /\ Known(item_registry, opened)
      /\ \A j \in Items : Held(opened, j) = Held(st, j)
      /\ Fair(item_registry, st) => Fair(item_registry, opened)
  BY OpenedIs
<1>2. out.ok = ~Insufficient(slots, i, n) /\ out.storages = IF out.ok THEN new ELSE opened
  BY TakeIs
<1> HIDE DEF opened, out
<1>3. slots \in Seq(ItemStack)
  BY <1>1, StoreType
<1>4. CASE ~out.ok
  <2>1. out.storages = opened
    BY <1>2, <1>4
  <2> QED BY <1>1, <1>2, <1>4, <2>1 DEF out, Insufficient
<1>5. CASE out.ok
  <2>1. out.storages = new /\ ~Insufficient(slots, i, n)
    BY <1>2, <1>5
  <2>2. /\ after \in Seq(ItemStack)
        /\ \A j \in Items : j # i => Units(after, j) = Units(slots, j)
        /\ Units(after, i) = Units(slots, i) - n /\ n <= Units(slots, i)
        /\ Weight(after) = Weight(slots) - slots[First(slots, i)].weight_per_unit * n
    BY <1>3, <2>1, TakenUnits
  <2>3. \A p \in 1..Len(after) : \E j \in 1..Len(slots) : after[p].item = slots[j].item
    <3>1. \A p \in 1..Len(after) : \E j \in 1..Len(slots) : after[p] = TakenStack(slots, i, n)[j]
      BY <1>3, <2>1, TakenFrom
    <3>2. \A k \in 1..Len(slots) : TakenStack(slots, i, n)[k].item = slots[k].item
      <4> DEFINE rest == TakenStack(slots, i, n)
                 at == First(slots, i)
      <4>1. slots[at].item = i /\ rest[at].item = i /\ \A k \in 1..Len(slots) : k # at => rest[k] = slots[k]
        BY <1>3, <2>1, TakenIs
      <4> HIDE DEF rest, at
      <4>2. \A k \in 1..Len(slots) : rest[k].item = slots[k].item
        BY <4>1
      <4> QED BY <4>2 DEF rest
    <3> HIDE DEF after
    <3> QED BY <3>1, <3>2
  <2>4. FairSlots(item_registry, slots) => FairSlots(item_registry, after)
    BY <1>3, <2>1, TakenFair
  <2> HIDE DEF after
  <2>5. /\ new \in Table /\ new[s].slots = after /\ new[s].limit = opened[s].limit
        /\ \A x \in Storages : x # s => new[x] = opened[x]
        /\ \A j \in Items : Held(new, j) = (Held(opened, j) - Units(slots, j)) + Units(after, j)
    BY <1>1, <2>2, Reslotted
  <2> HIDE DEF new
  <2>6. \A j \in Items : Units(slots, j) \in Nat /\ Held(opened, j) \in Nat /\ Units(slots, j) <= Held(opened, j)
    BY <1>1, HeldType
  <2>7. \A j \in Items : j # i => Held(new, j) = Held(st, j)
    BY <1>1, <2>2, <2>5, <2>6
  <2>8. Held(new, i) = Held(st, i) - n /\ n <= Held(st, i)
    BY <1>1, <2>2, <2>5, <2>6
  <2>9. KnownSlots(item_registry, slots)
    BY <1>1 DEF Known
  <2>10. KnownSlots(item_registry, after)
    BY <2>3, <2>9 DEF KnownSlots
  <2>11. Known(item_registry, new)
    BY <1>1, <2>5, <2>10 DEF Known
  <2>12. First(slots, i) \in 1..Len(slots) /\ slots[First(slots, i)].item = i /\ slots[First(slots, i)] \in ItemStack
    BY <1>3, <2>1, TakenIs
  <2>13. i \in DOMAIN item_registry
    BY <2>9, <2>12 DEF KnownSlots
  <2>14. ASSUME Fair(item_registry, st) PROVE Fair(item_registry, new)
    <3>1. Fair(item_registry, opened)
      BY <1>1, <2>14
    <3>2. FairStore(item_registry, opened[s]) /\ opened[s].limit # NoLimit
      BY <1>1, <3>1, WordTypes DEF Fair, NoLimit
    <3>3. FairSlots(item_registry, slots) /\ Weight(slots) <= opened[s].limit
      BY <3>2 DEF FairStore
    <3>4. Weight(slots) \in Nat /\ opened[s].limit \in Nat
      BY <1>1, <1>3, WordTypes, AsMeasures, BothMeasures, MeasureType
    <3>5. slots[First(slots, i)].weight_per_unit \in Nat
      BY <2>12, StackType
    <3>6. slots[First(slots, i)].weight_per_unit * n \in Nat
      BY <3>5
    <3>7. Weight(after) <= opened[s].limit
      BY <2>2, <3>3, <3>4, <3>6
    <3>8. FairStore(item_registry, new[s])
      BY <2>4, <2>5, <3>2, <3>3, <3>7 DEF FairStore
    <3> QED BY <2>5, <3>1, <3>8 DEF Fair
  <2> QED BY <1>5, <2>1, <2>5, <2>7, <2>8, <2>11, <2>13, <2>14 DEF out
<1> QED BY <1>2, <1>4, <1>5

(* What was taken from a storage can be given back to it. *)
LEMMA GiveBack ==
    ASSUME Registry(item_registry), NEW st \in Table, Known(item_registry, st), Fair(item_registry, st), FitsWords,
           NEW s \in Storages, NEW limit \in Limits, NEW i \in Items, NEW n \in Nat, Held(st, i) <= MaxGranted,
           TakeFrom(st, s, limit, i, n).ok
    PROVE  GiveTo(TakeFrom(st, s, limit, i, n).storages, s, limit, i, n).ok
<1> DEFINE opened == Opened(st, s, limit)
           slots == opened[s].slots
           after == TakenSlots(slots, i, n)
           new == [opened EXCEPT ![s].slots = after]
<1>1. /\ opened \in Table /\ opened[s].limit \in Limits /\ Known(item_registry, opened) /\ Fair(item_registry, opened)
      /\ \A j \in Items : Held(opened, j) = Held(st, j)
  BY OpenedIs
<1>2. ~Insufficient(slots, i, n) /\ TakeFrom(st, s, limit, i, n).storages = new
  BY TakeIs
<1> HIDE DEF opened
<1>3. slots \in Seq(ItemStack)
  BY <1>1, StoreType
<1>4. after \in Seq(ItemStack) /\ Weight(after) = Weight(slots) - slots[First(slots, i)].weight_per_unit * n /\ n <= Units(slots, i)
  BY <1>2, <1>3, TakenUnits
<1>5. FairStore(item_registry, opened[s]) /\ opened[s].limit # NoLimit
  BY <1>1, WordTypes DEF Fair, NoLimit
<1>6. FairSlots(item_registry, slots) /\ Weight(slots) <= opened[s].limit
  BY <1>5 DEF FairStore
<1>7. ~OverStack(after, i, n)
  BY <1>2, <1>3, <1>6, RoomToGiveBack
<1>8. First(slots, i) \in 1..Len(slots) /\ slots[First(slots, i)].item = i
  BY <1>2, <1>3, TakenIs
<1>9. i \in DOMAIN item_registry /\ slots[First(slots, i)].weight_per_unit = item_registry[i].weight
  BY <1>6, <1>8 DEF FairSlots
<1> HIDE DEF after
<1>10. new \in Table /\ new[s].slots = after /\ new[s].limit = opened[s].limit
  BY <1>1, <1>4, Reslotted
<1> HIDE DEF new
<1>11. Opened(new, s, limit) = new
  BY <1>5, <1>10 DEF Opened
<1>12. n <= MaxGranted
  <2>1. Units(slots, i) \in Nat /\ Units(slots, i) <= Held(opened, i) /\ Held(opened, i) = Held(st, i) /\ Held(opened, i) \in Nat
    BY <1>1, HeldType
  <2>2. MaxGranted \in Nat
    BY WordTypes
  <2> QED BY <1>4, <2>1, <2>2
<1>13. Weight(slots) \in Nat /\ opened[s].limit \in Nat /\ item_registry[i].weight \in Nat
  BY <1>1, <1>3, <1>9, RegistryType, WordTypes, AsMeasures, BothMeasures, MeasureType
<1>14. item_registry[i].weight * n \in Nat
  BY <1>13
<1>15. Weight(new[s].slots) + item_registry[i].weight * n = Weight(slots) /\ Weight(new[s].slots) <= opened[s].limit
  <2>1. Weight(new[s].slots) = Weight(slots) - item_registry[i].weight * n
    BY <1>4, <1>9, <1>10
  <2> QED BY <1>6, <1>13, <1>14, <2>1
<1>16. ~(Weight(new[s].slots) + item_registry[i].weight * n > new[s].limit)
  BY <1>6, <1>10, <1>13, <1>15
<1>17. new[s].slots \in Seq(ItemStack) /\ new[s].limit \in Limits /\ Weight(new[s].slots) <= new[s].limit
  BY <1>1, <1>4, <1>10, <1>15
<1>18. ~OverWeight(new[s], i, n)
  BY <1>9, <1>12, <1>16, <1>17, WeightCheck
<1>19. ~Refused(new[s], i, n)
  BY <1>7, <1>10, <1>18 DEF Refused
<1>20. GiveTo(new, s, limit, i, n).ok = ~Refused(Opened(new, s, limit)[s], i, n)
  BY GiveIs
<1> QED BY <1>2, <1>11, <1>19, <1>20

-----------------------------------------------------------------------------
(* The inventory service. *)

(* Held never exceeds what is granted; and while no definition has been    *)
(* edited, storages are fair, so that a rollback never fails, and nothing  *)
(* is lost.                                                                *)
InventoryInv ==
    /\ Registry(item_registry) /\ storages \in Table /\ edits \in Nat /\ granted \in [Items -> Nat]
    /\ Known(item_registry, storages)
    /\ \A i \in Items : granted[i] <= MaxGranted /\ Held(storages, i) <= granted[i]
    /\ Unedited => Fair(item_registry, storages) /\ \A i \in Items : Held(storages, i) = granted[i]

LEMMA RegisterStep == ASSUME InventoryInv, NEW i \in Items, NEW def \in Item, register(i, def) PROVE InventoryInv'
<1>1. item_registry' = [x \in DOMAIN item_registry \cup {i} |-> IF x = i THEN def ELSE item_registry[x]]
      /\ storages' = storages /\ granted' = granted
  BY DEF register
<1>2. Registry(item_registry')
  BY <1>1 DEF InventoryInv, Registry
<1>3. Known(item_registry', storages)
  BY <1>1 DEF InventoryInv, Known, KnownSlots
<1>4. CASE i \in DOMAIN item_registry
  <2>1. edits' = edits + 1
    BY <1>4 DEF register
  <2>2. edits' \in Nat /\ edits' # 0
    BY <2>1 DEF InventoryInv
  <2> QED BY <1>1, <1>2, <1>3, <2>2 DEF InventoryInv, Unedited
<1>5. CASE i \notin DOMAIN item_registry
  <2>1. edits' = edits
    BY <1>5 DEF register
  <2>2. \A x \in DOMAIN item_registry : x \in DOMAIN item_registry' /\ item_registry'[x] = item_registry[x]
    BY <1>1, <1>5
  <2>3. ASSUME NEW q, FairSlots(item_registry, q) PROVE FairSlots(item_registry', q)
    <3>1. \A k \in 1..Len(q) : q[k].item \in DOMAIN item_registry /\ item_registry'[q[k].item] = item_registry[q[k].item]
      BY <2>2, <2>3 DEF FairSlots
    <3> QED BY <2>2, <2>3, <3>1 DEF FairSlots
  <2>4. Fair(item_registry, storages) => Fair(item_registry', storages)
    BY <2>3 DEF Fair, FairStore
  <2> QED BY <1>1, <1>2, <1>3, <2>1, <2>4 DEF InventoryInv, Unedited, FitsWords
<1> QED BY <1>4, <1>5

(* A step that leaves the definitions alone, from what it does to the      *)
(* table. *)
LEMMA TableStep ==
    ASSUME InventoryInv, item_registry' = item_registry, edits' = edits,
           storages' \in Table, Known(item_registry, storages'), granted' \in [Items -> Nat],
           \A i \in Items : granted'[i] <= MaxGranted /\ Held(storages', i) <= granted'[i],
           Unedited => Fair(item_registry, storages') /\ \A i \in Items : Held(storages', i) = granted'[i]
    PROVE  InventoryInv'
<1>1. Registry(item_registry') /\ edits' \in Nat
  BY DEF InventoryInv
<1>2. Unedited' => Unedited
  BY DEF Unedited, FitsWords
<1> QED BY <1>1, <1>2 DEF InventoryInv

LEMMA GiveStep ==
    ASSUME InventoryInv, NEW s \in Storages, NEW limit \in Limits, NEW i \in Items, NEW n \in Counts, give(s, limit, i, n)
    PROVE  InventoryInv'
<1> DEFINE out == GiveTo(storages, s, limit, i, n)
<1>0. n \in Nat /\ MaxGranted \in Nat
  BY WordTypes
<1>1. /\ i \in DOMAIN item_registry /\ granted[i] + n <= MaxGranted
      /\ storages' = out.storages /\ granted' = (IF out.ok THEN [granted EXCEPT ![i] = @ + n] ELSE granted)
      /\ item_registry' = item_registry /\ edits' = edits
  BY DEF give
<1>2. /\ Registry(item_registry) /\ storages \in Table /\ granted \in [Items -> Nat] /\ Known(item_registry, storages)
      /\ \A j \in Items : granted[j] <= MaxGranted /\ Held(storages, j) <= granted[j]
      /\ Unedited => FitsWords /\ Fair(item_registry, storages) /\ \A j \in Items : Held(storages, j) = granted[j]
  BY DEF InventoryInv, Unedited
<1>3. /\ out.ok \in BOOLEAN /\ out.storages \in Table /\ Known(item_registry, out.storages)
      /\ \A j \in Items : j # i \/ ~out.ok => Held(out.storages, j) = Held(storages, j)
      /\ Held(out.storages, i) <= Held(storages, i) + n
  BY <1>0, <1>1, <1>2, GiveTable
<1>4. FitsWords /\ Fair(item_registry, storages) /\ Held(storages, i) + n <= MaxGranted =>
                /\ Fair(item_registry, out.storages)
                /\ out.ok => Held(out.storages, i) = Held(storages, i) + n
  BY <1>0, <1>1, <1>2, GiveTable
<1>5. \A j \in Items : Held(storages, j) \in Nat /\ Held(out.storages, j) \in Nat
  BY <1>2, <1>3, HeldType
<1> HIDE DEF out
<1>6. /\ granted' \in [Items -> Nat]
      /\ \A j \in Items : granted'[j] = IF out.ok /\ j = i THEN granted[j] + n ELSE granted[j]
  BY <1>0, <1>1, <1>2
<1>7. \A j \in Items : granted'[j] <= MaxGranted
  BY <1>1, <1>2, <1>6
<1>8. ASSUME NEW j \in Items PROVE Held(out.storages, j) <= granted'[j]
  <2>1. CASE out.ok /\ j = i
    <3>1. granted'[i] = granted[i] + n /\ Held(storages, i) <= granted[i] /\ granted[i] \in Nat
      BY <1>2, <1>6, <2>1
    <3> QED BY <1>0, <1>3, <1>5, <2>1, <3>1
  <2>2. CASE ~(out.ok /\ j = i)
    BY <1>2, <1>3, <1>6, <2>2
  <2> QED BY <2>1, <2>2
<1>9. ASSUME Unedited PROVE Fair(item_registry, out.storages) /\ \A j \in Items : Held(out.storages, j) = granted'[j]
  <2>1. FitsWords /\ Fair(item_registry, storages) /\ (\A j \in Items : Held(storages, j) = granted[j])
        /\ Held(storages, i) + n <= MaxGranted
    BY <1>1, <1>2, <1>9
  <2>2. Fair(item_registry, out.storages) /\ (out.ok => Held(out.storages, i) = Held(storages, i) + n)
    BY <1>4, <2>1
  <2> QED BY <1>3, <1>6, <2>1, <2>2
<1> QED BY <1>1, <1>3, <1>6, <1>7, <1>8, <1>9, TableStep

LEMMA TakeStep ==
    ASSUME InventoryInv, NEW s \in Storages, NEW limit \in Limits, NEW i \in Items, NEW n \in Counts, take(s, limit, i, n)
    PROVE  InventoryInv'
<1> DEFINE out == TakeFrom(storages, s, limit, i, n)
<1>0. n \in Nat /\ MaxGranted \in Nat
  BY WordTypes
<1>1. /\ storages' = out.storages /\ granted' = (IF out.ok THEN [granted EXCEPT ![i] = @ - n] ELSE granted)
      /\ item_registry' = item_registry /\ edits' = edits
  BY DEF take
<1>2. /\ Registry(item_registry) /\ storages \in Table /\ granted \in [Items -> Nat] /\ Known(item_registry, storages)
      /\ \A j \in Items : granted[j] <= MaxGranted /\ Held(storages, j) <= granted[j]
      /\ Unedited => Fair(item_registry, storages) /\ \A j \in Items : Held(storages, j) = granted[j]
  BY DEF InventoryInv
<1>3. /\ out.ok \in BOOLEAN /\ out.storages \in Table /\ Known(item_registry, out.storages)
      /\ \A j \in Items : j # i \/ ~out.ok => Held(out.storages, j) = Held(storages, j)
      /\ out.ok => Held(out.storages, i) = Held(storages, i) - n /\ n <= Held(storages, i)
      /\ Fair(item_registry, storages) => Fair(item_registry, out.storages)
  BY <1>0, <1>2, TakeTable
<1>4. \A j \in Items : Held(storages, j) \in Nat /\ Held(out.storages, j) \in Nat /\ granted[j] \in Nat
  BY <1>2, <1>3, HeldType
<1> HIDE DEF out
<1>5. \A j \in Items : granted'[j] = IF out.ok /\ j = i THEN granted[j] - n ELSE granted[j]
  BY <1>1, <1>2
<1>6. out.ok => granted[i] - n \in Nat /\ granted[i] - n <= granted[i]
  BY <1>0, <1>2, <1>3, <1>4
<1>7. granted' \in [Items -> Nat]
  <2>1. CASE out.ok
    BY <1>1, <1>2, <1>6, <2>1
  <2>2. CASE ~out.ok
    BY <1>1, <1>2, <2>2
  <2> QED BY <2>1, <2>2
<1>8. ASSUME NEW j \in Items
      PROVE  granted'[j] <= MaxGranted /\ Held(out.storages, j) <= granted'[j]
             /\ (Held(storages, j) = granted[j] => Held(out.storages, j) = granted'[j])
  <2>1. CASE out.ok /\ j = i
    <3>1. granted'[i] = granted[i] - n /\ Held(storages, i) <= granted[i] /\ granted[i] <= MaxGranted
      BY <1>2, <1>5, <2>1
    <3> QED BY <1>0, <1>3, <1>4, <1>6, <2>1, <3>1
  <2>2. CASE ~(out.ok /\ j = i)
    BY <1>2, <1>3, <1>5, <2>2
  <2> QED BY <2>1, <2>2
<1>9. Unedited => Fair(item_registry, out.storages) /\ \A j \in Items : Held(out.storages, j) = granted'[j]
  BY <1>2, <1>3, <1>8
<1> QED BY <1>1, <1>3, <1>7, <1>8, <1>9, TableStep

(* A transfer: whatever path it takes, the units are where they were or    *)
(* where they were to go. *)
LEMMA TransferItemsStep ==
    ASSUME InventoryInv, NEW from \in Storages, NEW to \in Storages, NEW limit \in Limits, NEW i \in Items,
           NEW n \in Counts, transfer_items(from, to, limit, i, n)
    PROVE  InventoryInv'
<1> DEFINE opened == Opened(storages, to, limit)
           taken == TakeFrom(opened, from, limit, i, n)
           handed == GiveTo(taken.storages, to, limit, i, n)
           back == GiveTo(handed.storages, from, limit, i, n)
<1>0. n \in Nat /\ MaxGranted \in Nat
  BY WordTypes
<1>1. /\ storages' = (IF to \in Nested THEN opened ELSE IF ~taken.ok THEN taken.storages
                      ELSE IF handed.ok THEN handed.storages ELSE back.storages)
      /\ item_registry' = item_registry /\ edits' = edits /\ granted' = granted
  BY DEF transfer_items, RolledBack
<1>2. /\ Registry(item_registry) /\ storages \in Table /\ granted \in [Items -> Nat] /\ Known(item_registry, storages)
      /\ \A j \in Items : granted[j] <= MaxGranted /\ Held(storages, j) <= granted[j]
      /\ Unedited => FitsWords /\ Fair(item_registry, storages) /\ \A j \in Items : Held(storages, j) = granted[j]
  BY DEF InventoryInv, Unedited
(* Enough: the new table holds no more, and as much when nothing wraps.    *)
<1>3. SUFFICES /\ storages' \in Table /\ Known(item_registry, storages')
               /\ \A j \in Items : Held(storages', j) <= Held(storages, j)
               /\ FitsWords /\ Fair(item_registry, storages) =>
                    Fair(item_registry, storages') /\ \A j \in Items : Held(storages', j) = Held(storages, j)
  <2>1. \A j \in Items : Held(storages, j) \in Nat /\ Held(storages', j) \in Nat /\ granted[j] \in Nat
    BY <1>2, <1>3, HeldType
  <2>2. \A j \in Items : granted'[j] <= MaxGranted /\ Held(storages', j) <= granted'[j]
    BY SMTT(60), <1>1, <1>2, <1>3, <2>1
  <2>3. Unedited => Fair(item_registry, storages') /\ \A j \in Items : Held(storages', j) = granted'[j]
    BY <1>1, <1>2, <1>3
  <2> QED BY <1>1, <1>2, <1>3, <2>2, <2>3, TableStep
<1>4. /\ opened \in Table /\ Known(item_registry, opened)
      /\ \A j \in Items : Held(opened, j) = Held(storages, j)
      /\ Fair(item_registry, storages) => Fair(item_registry, opened)
      /\ opened[to].limit \in Limits
  BY <1>2, OpenedIs
<1> HIDE DEF opened
<1>5. /\ taken.ok \in BOOLEAN /\ taken.storages \in Table /\ Known(item_registry, taken.storages)
      /\ \A j \in Items : j # i \/ ~taken.ok => Held(taken.storages, j) = Held(opened, j)
      /\ taken.ok => i \in DOMAIN item_registry /\ Held(taken.storages, i) = Held(opened, i) - n /\ n <= Held(opened, i)
      /\ Fair(item_registry, opened) => Fair(item_registry, taken.storages)
  BY <1>0, <1>2, <1>4, TakeTable
<1>6. \A j \in Items : Held(storages, j) \in Nat /\ Held(opened, j) \in Nat /\ Held(taken.storages, j) \in Nat
                       /\ Held(storages, j) <= MaxGranted
  <2>1. \A j \in Items : Held(storages, j) \in Nat /\ Held(opened, j) \in Nat /\ Held(taken.storages, j) \in Nat /\ granted[j] \in Nat
    BY <1>2, <1>4, <1>5, HeldType
  <2> QED BY <1>0, <1>2, <2>1
<1>7. CASE to \in Nested
  BY <1>1, <1>4, <1>6, <1>7
<1>8. CASE to \notin Nested /\ ~taken.ok
  <2>1. storages' = taken.storages
    BY <1>1, <1>8
  <2>2. \A j \in Items : Held(taken.storages, j) = Held(storages, j)
    BY <1>4, <1>5, <1>8
  <2> QED BY <1>4, <1>5, <1>6, <2>1, <2>2
<1>9. CASE to \notin Nested /\ taken.ok
  <2>1. /\ i \in DOMAIN item_registry /\ Held(taken.storages, i) = Held(storages, i) - n
        /\ Held(taken.storages, i) + n = Held(storages, i)
        /\ \A j \in Items : j # i => Held(taken.storages, j) = Held(storages, j)
    BY <1>0, <1>4, <1>5, <1>6, <1>9
  <2>2. /\ handed.ok \in BOOLEAN /\ handed.storages \in Table /\ Known(item_registry, handed.storages)
        /\ \A j \in Items : j # i \/ ~handed.ok => Held(handed.storages, j) = Held(taken.storages, j)
        /\ Held(handed.storages, i) <= Held(taken.storages, i) + n
    BY <1>0, <1>2, <1>5, <2>1, GiveTable
  <2>3. FitsWords /\ Fair(item_registry, taken.storages) /\ Held(taken.storages, i) + n <= MaxGranted =>
                /\ Fair(item_registry, handed.storages)
                /\ handed.ok => Held(handed.storages, i) = Held(taken.storages, i) + n
    BY <1>0, <1>2, <1>5, <2>1, GiveTable
  <2>4. Held(taken.storages, i) + n <= MaxGranted
    BY <1>6, <2>1
  <2>5. CASE handed.ok
    <3>1. storages' = handed.storages
      BY <1>1, <1>9, <2>5
    <3>2. \A j \in Items : Held(handed.storages, j) <= Held(storages, j)
      BY <1>6, <2>1, <2>2
    <3>3. ASSUME FitsWords, Fair(item_registry, storages)
          PROVE  Fair(item_registry, handed.storages) /\ \A j \in Items : Held(handed.storages, j) = Held(storages, j)
      <4>1. Fair(item_registry, handed.storages) /\ Held(handed.storages, i) = Held(storages, i)
        BY <1>4, <1>5, <2>1, <2>3, <2>4, <2>5, <3>3
      <4> QED BY <2>1, <2>2, <4>1
    <3> QED BY <2>2, <3>1, <3>2, <3>3
  <2>6. CASE ~handed.ok
    <3>1. storages' = back.storages
      BY <1>1, <1>9, <2>6
    <3>2. handed.storages = taken.storages
      <4>1. handed.storages = Opened(taken.storages, to, limit)
        <5> DEFINE open == Opened(taken.storages, to, limit)
        <5> HIDE DEF taken
        <5>1. handed.storages = IF handed.ok THEN [open EXCEPT ![to].slots = GivenSlots(open[to].slots, i, n)] ELSE open
          BY GiveIs
        <5> HIDE DEF handed
        <5> QED BY <2>6, <5>1
      <4>2. taken.storages[to].limit \in Limits
        <5> DEFINE again == Opened(opened, from, limit)
        <5>1. again \in Table /\ again[to].limit \in Limits
          <6>1. again \in Table /\ again[from].limit \in Limits /\ \A x \in Storages : x # from => again[x] = opened[x]
            BY <1>4, OpenedIs
          <6> QED BY <1>4, <6>1
        <5>2. taken.storages = [again EXCEPT ![from].slots = TakenSlots(again[from].slots, i, n)]
          BY <1>9, TakeIs
        <5> HIDE DEF again, taken
        <5> QED BY <5>1, <5>2 DEF Table
      <4>3. taken.storages[to].limit # NoLimit
        BY <4>2, WordTypes DEF NoLimit
      <4> HIDE DEF taken
      <4> QED BY <4>1, <4>3 DEF Opened
    <3>3. back = GiveTo(taken.storages, from, limit, i, n)
      BY <3>2
    <3> HIDE DEF back
    <3>4. /\ back.storages \in Table /\ Known(item_registry, back.storages)
          /\ \A j \in Items : j # i => Held(back.storages, j) = Held(taken.storages, j)
          /\ Held(back.storages, i) <= Held(taken.storages, i) + n
      BY <1>0, <1>2, <1>5, <2>1, <3>3, GiveTable
    <3>5. FitsWords /\ Fair(item_registry, taken.storages) /\ Held(taken.storages, i) + n <= MaxGranted =>
                /\ Fair(item_registry, back.storages)
                /\ back.ok => Held(back.storages, i) = Held(taken.storages, i) + n
      BY <1>0, <1>2, <1>5, <2>1, <3>3, GiveTable
    <3>6. \A j \in Items : Held(back.storages, j) <= Held(storages, j)
      BY <1>6, <2>1, <3>4
    <3>7. ASSUME FitsWords, Fair(item_registry, storages)
          PROVE  Fair(item_registry, back.storages) /\ \A j \in Items : Held(back.storages, j) = Held(storages, j)
      <4>1. Fair(item_registry, opened) /\ Held(opened, i) <= MaxGranted
        BY <1>4, <1>6, <3>7
      <4>2. back.ok
        BY <1>0, <1>2, <1>4, <1>9, <3>3, <3>7, <4>1, GiveBack
      <4>3. Fair(item_registry, back.storages) /\ Held(back.storages, i) = Held(storages, i)
        BY <1>4, <1>5, <2>1, <2>4, <3>5, <3>7, <4>2
      <4> QED BY <2>1, <3>4, <4>3
    <3> QED BY <3>1, <3>4, <3>6, <3>7
  <2> QED BY <2>2, <2>5, <2>6
<1> QED BY <1>5, <1>7, <1>8, <1>9

LEMMA InventoryStep == InventoryInv /\ [InventoryNext]_inventoryVars => InventoryInv'
<1> SUFFICES ASSUME InventoryInv, [InventoryNext]_inventoryVars PROVE InventoryInv'
  OBVIOUS
<1>1. CASE UNCHANGED inventoryVars
  BY <1>1 DEF inventoryVars, InventoryInv, Unedited, FitsWords
<1>2. ASSUME NEW i \in Items, NEW def \in Item, register(i, def) PROVE InventoryInv'
  BY <1>2, RegisterStep
<1>3. ASSUME NEW s \in Storages, NEW limit \in Limits, NEW i \in Items, NEW n \in Counts, give(s, limit, i, n) PROVE InventoryInv'
  BY <1>3, GiveStep
<1>4. ASSUME NEW s \in Storages, NEW limit \in Limits, NEW i \in Items, NEW n \in Counts, take(s, limit, i, n) PROVE InventoryInv'
  BY <1>4, TakeStep
<1>5. ASSUME NEW from \in Storages, NEW to \in Storages, NEW limit \in Limits, NEW i \in Items, NEW n \in Counts,
             transfer_items(from, to, limit, i, n)
      PROVE  InventoryInv'
  BY <1>5, TransferItemsStep
<1> QED BY <1>1, <1>2, <1>3, <1>4, <1>5 DEF InventoryNext

LEMMA InventoryInvGives == InventoryInv => InventorySound
<1> SUFFICES ASSUME InventoryInv PROVE InventorySound
  OBVIOUS
<1>1. NoDupesNoLosses
  BY DEF InventoryInv, NoDupesNoLosses
<1>2. ASSUME Unedited, NEW s \in Storages
      PROVE  /\ storages[s].limit # NoLimit => Weight(storages[s].slots) <= storages[s].limit
             /\ \A k \in DOMAIN storages[s].slots :
                 storages[s].slots[k].count <= item_registry[storages[s].slots[k].item].max_stack
  <2>1. FairStore(item_registry, storages[s])
    BY <1>2 DEF InventoryInv, Fair
  <2>2. storages[s].slots \in Seq(ItemStack)
    BY StoreType DEF InventoryInv
  <2>3. DOMAIN storages[s].slots = 1..Len(storages[s].slots)
    BY <2>2
  <2> QED BY <2>1, <2>3 DEF FairStore, FairSlots
<1>3. WithinLimits
  BY <1>2 DEF WithinLimits
<1> QED BY <1>1, <1>3 DEF InventorySound

LEMMA InventoryStart == InventoryInit => InventoryInv
<1> SUFFICES ASSUME InventoryInit PROVE InventoryInv
  OBVIOUS
<1>1. /\ item_registry = <<>> /\ edits = 0 /\ granted = [i \in Items |-> 0]
      /\ storages = [s \in Storages |-> [limit |-> NoLimit, slots |-> <<>>]]
  BY DEF InventoryInit
<1>2. Registry(item_registry)
  BY <1>1 DEF Registry
<1>3. <<>> \in Seq(ItemStack) /\ Len(<<>>) = 0
  OBVIOUS
<1>4. storages \in Table /\ \A s \in Storages : storages[s].slots = <<>> /\ storages[s].limit = NoLimit
  BY <1>1, <1>3 DEF Table
<1>5. Known(item_registry, storages) /\ Fair(item_registry, storages)
  BY <1>3, <1>4 DEF Known, KnownSlots, Fair, FairStore, FairSlots
<1>6. ASSUME NEW i \in Items PROVE Held(storages, i) = 0
  <2> DEFINE f == [s \in Storages |-> Units(storages[s].slots, i)]
  <2>1. Units(<<>>, i) = 0
    BY <1>3, AsMeasures, BothMeasures, MeasureNone
  <2>2. (\A s \in Storages : f[s] = 0) /\ IsFiniteSet(Storages) /\ 0 \in Int /\ Held(storages, i) = SumOver(Storages, f)
    BY <1>4, <2>1, WordTypes DEF Held
  <2> HIDE DEF f
  <2>3. SumOver(Storages, f) = 0 * Cardinality(Storages)
    BY <2>2, SumOverConstant
  <2>4. Cardinality(Storages) \in Nat
    BY <2>2, FS_CardinalityType
  <2>5. 0 * Cardinality(Storages) = 0
    BY <2>4
  <2> QED BY <2>2, <2>3, <2>5
<1>7. MaxGranted \in Nat
  BY WordTypes
<1> QED BY <1>1, <1>2, <1>4, <1>5, <1>6, <1>7 DEF InventoryInv

-----------------------------------------------------------------------------
(* Money and goods, each service taking the calls of scripts. *)

GoodsParts ==
    /\ EconomyInit /\ InventoryInit
    /\ [][EconomyNext]_economyVars /\ [][InventoryNext]_inventoryVars

(* For any accounts, amounts, items, storages, limits and word sizes: the  *)
(* ledger with what was minted and burned explains every balance, up to    *)
(* the wrap of a word and exactly while what was minted fits in one        *)
(* (EconomyService); the storages never hold more units than were given    *)
(* and not taken, and, while no definition is edited and no word wraps,    *)
(* exactly those, whatever transfers were refused and rolled back, with    *)
(* every storage within its weight limit and every stack within its item's *)
(* (InventoryService).                                                     *)
THEOREM GoodsAlwaysAccounted == GoodsParts => []GoodsAccounted
<1>1. EconomyInv /\ InventoryInv => GoodsAccounted
  BY EconomyInvGives, InventoryInvGives DEF GoodsAccounted
<1> QED BY <1>1, EconomyStart, InventoryStart, EconomyStep, InventoryStep, PTL DEF GoodsParts
=============================================================================
