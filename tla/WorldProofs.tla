----------------------------- MODULE WorldProofs -----------------------------
(***************************************************************************)
(* Proofs about the world the players share, for any number of entities,   *)
(* bodies, dimensions and positions: an entity id never names a second     *)
(* entity, the cells of the grid agree with the positions, and ambients    *)
(* stay within what their policies ever allowed; about who is served when  *)
(* (accounts, tasks and events); and about the way in (joins, deferrals,   *)
(* negotiation and the simulated queue).                                   *)
(***************************************************************************)
EXTENDS World, Scheduling, Arrival, Sums, WellFoundedInduction, FiniteSetTheorems, SequenceTheorems, TLAPS

-----------------------------------------------------------------------------
(* Ambient population. *)

PopulationInv ==
    /\ policies \in [Buckets -> DensityPolicy \cup {NoPolicy}]
    /\ densities \in [Buckets -> DensityPolicy \cup {NoPolicy}]
    /\ counts \in [Buckets -> Nat] /\ ceiling \in [Buckets -> Nat]
    /\ \A d \in Buckets : counts[d] <= ceiling[d]
    /\ \A d \in Buckets : policies[d] # NoPolicy => cap(policies[d]) <= ceiling[d]
    /\ player_bucket = told

(* The cap of a policy is a number. *)
LEMMA CapType == ASSUME NEW p \in DensityPolicy PROVE cap(p) \in Nat
<1>1. p.max \in Nat /\ p.density \in 0..2
  BY WorldAssumption DEF DensityPolicy
<1>2. p.density = 0 \/ p.density = 1 \/ p.density = 2
  BY <1>1
<1>3. p.max * p.density \in Nat
  BY <1>1, <1>2
<1> QED BY <1>3 DEF cap

LEMMA MaxOfTwo == ASSUME NEW i \in Int, NEW j \in Int PROVE Max({i, j}) = IF i >= j THEN i ELSE j
<1> DEFINE m == IF i >= j THEN i ELSE j
<1>1. m \in {i, j} /\ \A y \in {i, j} : m >= y
  OBVIOUS
<1>2. \A x \in {i, j} : (\A y \in {i, j} : x >= y) => x = m
  OBVIOUS
<1> QED BY <1>1, <1>2 DEF Max

(* The ceilings follow the policies. *)
LEMMA RaisedCovers ==
    ASSUME PopulationInv, NEW p \in [Buckets -> DensityPolicy \cup {NoPolicy}]
    PROVE  /\ Raised(p) \in [Buckets -> Nat]
           /\ \A d \in Buckets : ceiling[d] <= Raised(p)[d] /\ (p[d] # NoPolicy => cap(p[d]) <= Raised(p)[d])
<1>1. ASSUME NEW d \in Buckets
      PROVE  /\ Raised(p)[d] \in Nat /\ ceiling[d] <= Raised(p)[d]
             /\ p[d] # NoPolicy => cap(p[d]) <= Raised(p)[d]
  <2>1. ceiling[d] \in Nat
    BY DEF PopulationInv
  <2>2. CASE p[d] = NoPolicy
    BY <2>1, <2>2 DEF Raised
  <2>3. CASE p[d] # NoPolicy
    <3>1. cap(p[d]) \in Nat
      BY <2>3, CapType
    <3>2. Raised(p)[d] = Max({ceiling[d], cap(p[d])})
      BY <2>3 DEF Raised
    <3>3. Raised(p)[d] = IF ceiling[d] >= cap(p[d]) THEN ceiling[d] ELSE cap(p[d])
      BY <2>1, <3>1, <3>2, MaxOfTwo
    <3> QED BY <2>1, <3>1, <3>3
  <2> QED BY <2>2, <2>3
<1>2. Raised(p) = [d \in Buckets |-> Raised(p)[d]]
  BY DEF Raised
<1> QED BY <1>1, <1>2

(* Population and buckets move the same tables. *)
AmbientNext == PopulationNext \/ BucketNext

LEMMA PopulationStep == PopulationInv /\ [AmbientNext]_populationVars => PopulationInv'
<1> SUFFICES ASSUME PopulationInv, [AmbientNext]_populationVars PROVE PopulationInv'
  OBVIOUS
<1>1. ASSUME NEW p \in [Buckets -> DensityPolicy \cup {NoPolicy}], policies' = p, ceiling' = Raised(p),
             UNCHANGED <<counts, bucketVars>>, densities' \in [Buckets -> DensityPolicy \cup {NoPolicy}]
      PROVE  PopulationInv'
  <2>1. /\ ceiling' \in [Buckets -> Nat]
        /\ \A d \in Buckets : ceiling[d] <= ceiling'[d] /\ (p[d] # NoPolicy => cap(p[d]) <= ceiling'[d])
    BY <1>1, RaisedCovers
  <2>2. \A d \in Buckets : counts'[d] <= ceiling'[d]
    BY <1>1, <2>1 DEF PopulationInv
  <2> QED BY <1>1, <2>1, <2>2 DEF PopulationInv, bucketVars
<1>2. ASSUME NEW d \in Buckets, NEW p \in DensityPolicy, set_policy(d, p) PROVE PopulationInv'
  <2>1. [policies EXCEPT ![d] = p] \in [Buckets -> DensityPolicy \cup {NoPolicy}]
    BY DEF PopulationInv
  <2> QED BY <1>1, <1>2, <2>1 DEF set_policy, PopulationInv
<1>3. CASE sync_density
  <2> DEFINE p == [d \in Buckets |-> IF densities[d] # NoPolicy THEN densities[d] ELSE policies[d]]
  <2>1. p \in [Buckets -> DensityPolicy \cup {NoPolicy}]
    BY DEF PopulationInv
  <2>2. policies' = p /\ ceiling' = Raised(p) /\ UNCHANGED <<counts, bucketVars, densities>>
    BY <1>3 DEF sync_density
  <2> HIDE DEF p
  <2> QED BY <1>1, <2>1, <2>2 DEF PopulationInv
<1>4. ASSUME NEW d \in Buckets, clear_policy(d) PROVE PopulationInv'
  BY <1>4 DEF clear_policy, PopulationInv, bucketVars
<1>5. ASSUME NEW d \in Buckets, request_spawn(d) PROVE PopulationInv'
  <2>1. counts[d] + 1 <= ceiling[d] /\ counts[d] + 1 \in Nat
    <3>1. policies[d] # NoPolicy /\ counts[d] < cap(policies[d]) /\ cap(policies[d]) \in Nat
      BY <1>5, CapType DEF request_spawn, Admits, PopulationInv
    <3>2. counts[d] \in Nat /\ ceiling[d] \in Nat /\ cap(policies[d]) <= ceiling[d]
      BY <3>1 DEF PopulationInv
    <3> QED BY <3>1, <3>2
  <2> QED BY <1>5, <2>1 DEF request_spawn, PopulationInv, bucketVars
<1>6. ASSUME NEW d \in Buckets, release(d) PROVE PopulationInv'
  <2>1. counts[d] - 1 <= ceiling[d] /\ counts[d] - 1 \in Nat
    BY <1>6 DEF release, PopulationInv
  <2> QED BY <1>6, <2>1 DEF release, PopulationInv, bucketVars
<1>7. ASSUME NEW d \in Buckets, NEW p \in DensityPolicy, set_density(d, p) PROVE PopulationInv'
  BY <1>7 DEF set_density, PopulationInv, bucketVars
<1>8. CASE BucketNext
  BY <1>8 DEF BucketNext, set_player_bucket, grant, revoke, set_lockdown, PopulationInv
<1>9. CASE UNCHANGED populationVars
  BY <1>9 DEF populationVars, PopulationInv
<1> QED BY <1>2, <1>3, <1>4, <1>5, <1>6, <1>7, <1>8, <1>9 DEF AmbientNext, PopulationNext
-----------------------------------------------------------------------------
(* The grid: the cells are what the positions say. *)

Occupants(pos, k) == {e \in DOMAIN pos : cell_of(pos[e]) = k}

Indexed(pos) ==
    [k \in {cell_of(pos[e]) : e \in DOMAIN pos} |-> [e \in Occupants(pos, k) |-> 1]]

Lacking(pos, e) == [x \in DOMAIN pos \ {e} |-> pos[x]]

(* A body that leaves its cell leaves the index. *)
LEMMA LeaveIndexed ==
    ASSUME NEW pos, NEW e \in DOMAIN pos
    PROVE  Leave(Indexed(pos), cell_of(pos[e]), e) = Indexed(Lacking(pos, e))
<1> DEFINE key == cell_of(pos[e])
           q == Lacking(pos, e)
           rest == [x \in DOMAIN Indexed(pos)[key] \ {e} |-> Indexed(pos)[key][x]]
<1>1. DOMAIN q = DOMAIN pos \ {e} /\ \A x \in DOMAIN q : q[x] = pos[x]
  BY DEF Lacking
<1>2. \A k : Occupants(q, k) = Occupants(pos, k) \ {e}
  BY <1>1 DEF Occupants
<1>3. \A k : k # key => Occupants(q, k) = Occupants(pos, k)
  BY <1>2 DEF Occupants
<1>4. key \in {cell_of(pos[x]) : x \in DOMAIN pos}
  OBVIOUS
<1>5. Indexed(pos)[key] = [x \in Occupants(pos, key) |-> 1]
  BY <1>4 DEF Indexed
<1>6. rest = [x \in Occupants(q, key) |-> 1]
  BY <1>2, <1>5
<1>7. {cell_of(q[x]) : x \in DOMAIN q} = {k \in {cell_of(pos[x]) : x \in DOMAIN pos} : Occupants(q, k) # {}}
  BY <1>1 DEF Occupants
<1>8. \A k \in {cell_of(pos[x]) : x \in DOMAIN pos} : k # key => Occupants(q, k) # {}
  BY <1>3 DEF Occupants
<1>9. Leave(Indexed(pos), key, e) = IF DOMAIN rest = {} THEN [k \in DOMAIN Indexed(pos) \ {key} |-> Indexed(pos)[k]]
                                    ELSE Bind(Indexed(pos), key, rest)
  BY DEF Leave
<1>10. DOMAIN Indexed(pos) = {cell_of(pos[x]) : x \in DOMAIN pos}
       /\ \A k \in DOMAIN Indexed(pos) : Indexed(pos)[k] = [x \in Occupants(pos, k) |-> 1]
  BY DEF Indexed
<1>11. DOMAIN Indexed(q) = {cell_of(q[x]) : x \in DOMAIN q}
       /\ Indexed(q) = [k \in DOMAIN Indexed(q) |-> [x \in Occupants(q, k) |-> 1]]
  BY DEF Indexed
<1>12. DOMAIN rest = Occupants(q, key)
  BY <1>6
<1> HIDE DEF rest, q, key
<1>13. CASE Occupants(q, key) = {}
  <2>1. DOMAIN Indexed(q) = DOMAIN Indexed(pos) \ {key}
    BY <1>7, <1>8, <1>10, <1>11, <1>13
  <2>2. Leave(Indexed(pos), key, e) = [k \in DOMAIN Indexed(pos) \ {key} |-> Indexed(pos)[k]]
    BY <1>9, <1>12, <1>13
  <2>3. \A k \in DOMAIN Indexed(q) : Indexed(pos)[k] = [x \in Occupants(q, k) |-> 1]
    BY <1>3, <1>10, <2>1
  <2>4. Leave(Indexed(pos), key, e) = [k \in DOMAIN Indexed(q) |-> [x \in Occupants(q, k) |-> 1]]
    BY <2>1, <2>2, <2>3, Zenon
  <2> QED BY <1>11, <2>4, Zenon DEF q, key
<1>14. CASE Occupants(q, key) # {}
  <2>1. DOMAIN Indexed(q) = DOMAIN Indexed(pos) /\ DOMAIN Indexed(pos) \cup {key} = DOMAIN Indexed(pos)
    BY <1>4, <1>7, <1>8, <1>10, <1>11, <1>14
  <2>2. Leave(Indexed(pos), key, e) = [k \in DOMAIN Indexed(q) |-> IF k = key THEN rest ELSE Indexed(pos)[k]]
    BY <1>9, <1>12, <1>14, <2>1 DEF Bind
  <2>3. \A k \in DOMAIN Indexed(q) : (IF k = key THEN rest ELSE Indexed(pos)[k]) = [x \in Occupants(q, k) |-> 1]
    BY <1>3, <1>6, <1>10, <2>1
  <2>4. Leave(Indexed(pos), key, e) = [k \in DOMAIN Indexed(q) |-> [x \in Occupants(q, k) |-> 1]]
    BY <2>2, <2>3, Zenon
  <2> QED BY <1>11, <2>4, Zenon DEF q, key
<1> QED BY <1>13, <1>14

(* A body that enters a cell is in the index once. *)
LEMMA EnterIndexed ==
    ASSUME NEW pos, NEW e, e \notin DOMAIN pos, NEW p
    PROVE  Enter(Indexed(pos), cell_of(p), e) = Indexed(Bind(pos, e, p))
<1> DEFINE key == cell_of(p)
           q == Bind(pos, e, p)
           cell == IF key \in DOMAIN Indexed(pos) THEN Indexed(pos)[key] ELSE <<>>
           new == Bind(cell, e, IF e \in DOMAIN cell THEN cell[e] + 1 ELSE 1)
<1>1. DOMAIN q = DOMAIN pos \cup {e} /\ q[e] = p /\ \A x \in DOMAIN pos : q[x] = pos[x]
  BY DEF Bind
<1>2. DOMAIN Indexed(pos) = {cell_of(pos[x]) : x \in DOMAIN pos}
       /\ \A k \in DOMAIN Indexed(pos) : Indexed(pos)[k] = [x \in Occupants(pos, k) |-> 1]
  BY DEF Indexed
<1>3. DOMAIN Indexed(q) = {cell_of(q[x]) : x \in DOMAIN q}
       /\ Indexed(q) = [k \in DOMAIN Indexed(q) |-> [x \in Occupants(q, k) |-> 1]]
  BY DEF Indexed
<1>4. Occupants(q, key) = Occupants(pos, key) \cup {e} /\ \A k : k # key => Occupants(q, k) = Occupants(pos, k)
  BY <1>1 DEF Occupants
<1>5. cell = [x \in Occupants(pos, key) |-> 1]
  <2>1. CASE key \in DOMAIN Indexed(pos)
    BY <1>2, <2>1
  <2>2. CASE key \notin DOMAIN Indexed(pos)
    <3>1. Occupants(pos, key) = {}
      BY <1>2, <2>2 DEF Occupants
    <3>2. cell = <<>>
      BY <2>2
    <3> QED BY <3>1, <3>2
  <2> QED BY <2>1, <2>2
<1>6. e \notin Occupants(pos, key)
  BY DEF Occupants
<1>7. new = [x \in Occupants(q, key) |-> 1]
  <2>1. DOMAIN cell = Occupants(pos, key) /\ e \notin DOMAIN cell /\ \A x \in DOMAIN cell : cell[x] = 1
    BY <1>5, <1>6
  <2> HIDE DEF cell
  <2>2. new = [x \in Occupants(pos, key) \cup {e} |-> IF x = e THEN 1 ELSE cell[x]]
    BY <2>1 DEF Bind
  <2>3. \A x \in Occupants(pos, key) \cup {e} : (IF x = e THEN 1 ELSE cell[x]) = 1
    BY <2>1
  <2> QED BY <1>4, <2>2, <2>3
<1>8. Enter(Indexed(pos), key, e) = Bind(Indexed(pos), key, new)
  BY DEF Enter
<1>9. DOMAIN Indexed(q) = DOMAIN Indexed(pos) \cup {key}
  BY <1>1, <1>2, <1>3
<1> HIDE DEF new, cell, q, key
<1>10. Enter(Indexed(pos), key, e) = [k \in DOMAIN Indexed(q) |-> IF k = key THEN new ELSE Indexed(pos)[k]]
  BY <1>8, <1>9 DEF Bind
<1>11. \A k \in DOMAIN Indexed(q) : (IF k = key THEN new ELSE Indexed(pos)[k]) = [x \in Occupants(q, k) |-> 1]
  BY <1>2, <1>4, <1>7, <1>9
<1>12. Enter(Indexed(pos), key, e) = [k \in DOMAIN Indexed(q) |-> [x \in Occupants(q, k) |-> 1]]
  BY <1>10, <1>11, Zenon
<1> QED BY <1>3, <1>12, Zenon DEF q, key

GridInv ==
    /\ DOMAIN positions \subseteq Bodies
    /\ \A e \in DOMAIN positions : positions[e] \in Coords \X Coords
    /\ cells = Indexed(positions)

LEMMA GridStep == GridInv /\ [GridNext]_gridVars => GridInv'
<1> SUFFICES ASSUME GridInv, [GridNext]_gridVars PROVE GridInv'
  OBVIOUS
<1>1. ASSUME NEW e \in Bodies, remove_body(e) PROVE GridInv'
  <2>1. positions' = Lacking(positions, e) /\ e \in DOMAIN positions
    BY <1>1 DEF remove_body, Lacking
  <2>2. cells' = Indexed(positions')
    BY <1>1, <2>1, LeaveIndexed DEF remove_body, GridInv
  <2> QED BY <2>1, <2>2 DEF GridInv, Lacking
<1>2. ASSUME NEW e \in Bodies, NEW p \in Coords \X Coords, upsert(e, p) PROVE GridInv'
  <2>1. positions' = Bind(positions, e, p)
    BY <1>2 DEF upsert
  <2>2. DOMAIN positions' = DOMAIN positions \cup {e} /\ positions'[e] = p
        /\ \A x \in DOMAIN positions \ {e} : positions'[x] = positions[x]
    BY <2>1 DEF Bind
  <2>3. cells' = Indexed(positions')
    <3>1. CASE e \notin DOMAIN positions
      BY <1>2, <2>1, <3>1, EnterIndexed DEF upsert, GridInv
    <3>2. CASE e \in DOMAIN positions /\ cell_of(positions[e]) = cell_of(p)
      <4>1. cells' = cells
        BY <1>2, <3>2 DEF upsert
      <4>2. DOMAIN positions' = DOMAIN positions /\ \A x \in DOMAIN positions : cell_of(positions'[x]) = cell_of(positions[x])
        BY <2>2, <3>2
      <4>3. \A k : Occupants(positions', k) = Occupants(positions, k)
        BY <4>2 DEF Occupants
      <4>4. {cell_of(positions'[x]) : x \in DOMAIN positions'} = {cell_of(positions[x]) : x \in DOMAIN positions}
        BY <4>2
      <4>5. Indexed(positions') = Indexed(positions)
        BY <4>3, <4>4, Zenon DEF Indexed
      <4> QED BY <4>1, <4>5 DEF GridInv
    <3>3. CASE e \in DOMAIN positions /\ cell_of(positions[e]) # cell_of(p)
      <4> DEFINE q == Lacking(positions, e)
      <4>1. cells' = Enter(Leave(cells, cell_of(positions[e]), e), cell_of(p), e)
        BY <1>2, <3>3 DEF upsert
      <4>2. Leave(cells, cell_of(positions[e]), e) = Indexed(q)
        BY <3>3, LeaveIndexed DEF GridInv
      <4>3. e \notin DOMAIN q
        BY DEF Lacking
      <4>4. Enter(Indexed(q), cell_of(p), e) = Indexed(Bind(q, e, p))
        BY <4>3, EnterIndexed
      <4>5. Bind(q, e, p) = Bind(positions, e, p)
        <5>1. DOMAIN q \cup {e} = DOMAIN positions \cup {e} /\ \A x \in DOMAIN positions : x # e => q[x] = positions[x]
          BY DEF Lacking
        <5> HIDE DEF q
        <5> QED BY <5>1 DEF Bind
      <4> QED BY <2>1, <4>1, <4>2, <4>4, <4>5
    <3> QED BY <3>1, <3>2, <3>3
  <2>4. \A x \in DOMAIN positions' : x \in Bodies /\ positions'[x] \in Coords \X Coords
    BY <2>2 DEF GridInv
  <2>5. DOMAIN positions' \subseteq Bodies
    BY <2>4
  <2> QED BY <2>2, <2>3, <2>4, <2>5, Zenon DEF GridInv
<1>3. CASE UNCHANGED gridVars
  BY <1>3 DEF gridVars, GridInv
<1> QED BY <1>1, <1>2, <1>3 DEF GridNext
(* Numbers: the floor of a quotient is monotone, and so are squares. *)
LEMMA ProductPositive == ASSUME NEW x \in Int, NEW y \in Int, x >= 0, y >= 0 PROVE x * y >= 0 /\ x * y \in Int
  OBVIOUS

LEMMA QuotientMonotone ==
    ASSUME NEW S \in Int, S > 0, NEW a \in Int, NEW b \in Int, a <= b
    PROVE  a \div S <= b \div S
<1>1. PICK j \in Int, r \in Int : j = a \div S /\ r = a % S /\ 0 <= r /\ r < S
  OBVIOUS
<1>2. PICK k \in Int, q \in Int : k = b \div S /\ q = b % S /\ 0 <= q /\ q < S
  OBVIOUS
<1>3. a = j * S + r
  BY <1>1
<1>4. b = k * S + q
  BY <1>2
<1> SUFFICES ASSUME j > k PROVE FALSE
  BY <1>1, <1>2
<1>5. (j - k - 1) * S >= 0 /\ (j - k - 1) * S \in Int
  <2>1. j - k - 1 \in Int /\ j - k - 1 >= 0 /\ S >= 0
    OBVIOUS
  <2> QED BY <2>1, ProductPositive
<1>6. (j - k - 1) * S = j * S - k * S - S
  OBVIOUS
<1>7. j * S \in Int /\ k * S \in Int
  OBVIOUS
<1> QED BY <1>1, <1>2, <1>3, <1>4, <1>5, <1>6, <1>7

LEMMA SquaresGrow ==
    ASSUME NEW x \in Int, NEW y \in Int, 0 <= x, x < y
    PROVE  x * x < y * y
<1>1. (y - x) * x >= 0 /\ (y - x) * x \in Int /\ (y - x) * y >= 0 /\ (y - x) * y \in Int
  <2>1. y - x \in Int /\ y - x >= 0 /\ y >= 0
    OBVIOUS
  <2> QED BY <2>1, ProductPositive
<1>2. (y - x) * x = y * x - x * x /\ (y - x) * (y - 1) = (y - x) * y - (y - x) /\ (y - x) * y = y * y - x * y /\ x * y = y * x
  OBVIOUS
<1>3. (y - x) * (y - 1) >= 0
  <2>1. y - x \in Int /\ y - x >= 0 /\ y - 1 \in Int /\ y - 1 >= 0
    OBVIOUS
  <2> QED BY <2>1, ProductPositive
<1>4. x * x \in Int /\ y * y \in Int /\ y * x \in Int /\ x * y \in Int
  OBVIOUS
<1> QED BY <1>1, <1>2, <1>3, <1>4

LEMMA SquareBound ==
    ASSUME NEW d \in Int, NEW r \in Nat, d * d <= r * r
    PROVE  -r <= d /\ d <= r
<1>1. ASSUME d > r PROVE FALSE
  <2>1. r * r < d * d
    BY <1>1, SquaresGrow
  <2>2. r * r \in Int /\ d * d \in Int
    OBVIOUS
  <2> QED BY <2>1, <2>2
<1>2. ASSUME -r > d PROVE FALSE
  <2>1. r * r < (-d) * (-d)
    <3>1. -d \in Int /\ 0 <= r /\ r < -d /\ r \in Int
      BY <1>2
    <3> QED BY <3>1, SquaresGrow
  <2>2. (-d) * (-d) = d * d
    OBVIOUS
  <2>3. r * r \in Int /\ d * d \in Int
    OBVIOUS
  <2> QED BY <2>1, <2>2, <2>3
<1> QED BY <1>1, <1>2

(* A body in the circle is on neither axis further away than its radius. *)
LEMMA InSquare ==
    ASSUME NEW p \in Int \X Int, NEW c \in Int \X Int, NEW r \in Nat, Within(p, c, r)
    PROVE  \A i \in 1..2 : c[i] - r <= p[i] /\ p[i] <= c[i] + r
<1> DEFINE dx == p[1] - c[1]
           dy == p[2] - c[2]
<1>1. dx \in Int /\ dy \in Int /\ p[1] \in Int /\ p[2] \in Int /\ c[1] \in Int /\ c[2] \in Int
  OBVIOUS
<1>2. dx * dx + dy * dy <= r * r
  BY DEF Within, Distance2
<1>3. dx * dx \in Int /\ dy * dy \in Int /\ r * r \in Int /\ dx * dx >= 0 /\ dy * dy >= 0
  <2> HIDE DEF dx, dy
  <2>1. \A x \in Int : x * x >= 0 /\ x * x \in Int
    <3> SUFFICES ASSUME NEW x \in Int PROVE x * x >= 0 /\ x * x \in Int
      OBVIOUS
    <3>1. CASE x >= 0
      BY <3>1, ProductPositive
    <3>2. CASE x < 0
      <4>1. (-x) * (-x) >= 0 /\ (-x) * (-x) \in Int
        BY <3>2, ProductPositive
      <4> QED BY <4>1
    <3> QED BY <3>1, <3>2
  <2> QED BY <1>1, <2>1
<1>4. dx * dx <= r * r /\ dy * dy <= r * r
  <2> HIDE DEF dx, dy
  <2> QED BY <1>2, <1>3
<1>5. -r <= dx /\ dx <= r /\ -r <= dy /\ dy <= r
  <2> HIDE DEF dx, dy
  <2> QED BY <1>1, <1>4, SquareBound
<1>6. c[1] - r <= p[1] /\ p[1] <= c[1] + r /\ c[2] - r <= p[2] /\ p[2] <= c[2] + r
  BY <1>1, <1>5
<1>7. \A i \in 1..2 : i = 1 \/ i = 2
  OBVIOUS
<1> QED BY <1>6, <1>7

(* The cells of the square hold every body of the circle. *)
LEMMA QueryExact ==
    ASSUME GridInv, NEW at \in Coords \X Coords, NEW r \in Nat
    PROVE  query_radius(at, r) = {e \in DOMAIN positions : Within(positions[e], at, r)}
<1> DEFINE low == cell_of(<<at[1] - r, at[2] - r>>)
           high == cell_of(<<at[1] + r, at[2] + r>>)
           near == {c \in DOMAIN cells : c[1] \in low[1]..high[1] /\ c[2] \in low[2]..high[2]}
<1>1. query_radius(at, r) = {e \in UNION {DOMAIN cells[k] : k \in near} : Within(positions[e], at, r)}
  BY DEF query_radius
<1>2. DOMAIN cells = {cell_of(positions[x]) : x \in DOMAIN positions}
      /\ \A k \in DOMAIN cells : DOMAIN cells[k] = Occupants(positions, k)
  BY DEF GridInv, Indexed
<1>3. ASSUME NEW e \in DOMAIN positions, Within(positions[e], at, r)
      PROVE  cell_of(positions[e]) \in near
  <2> DEFINE p == positions[e]
  <2>1. p \in Int \X Int /\ at \in Int \X Int /\ Cell \in Int /\ Cell > 0
    <3>1. p \in Coords \X Coords
      BY DEF GridInv
    <3>2. Coords \subseteq Int /\ Cell \in Nat \ {0}
      BY WorldAssumption
    <3> HIDE DEF p
    <3>3. Coords \X Coords \subseteq Int \X Int
      BY <3>2
    <3>4. Cell \in Int /\ Cell > 0
      BY <3>2
    <3> QED BY <3>1, <3>3, <3>4
  <2>2. \A i \in 1..2 : at[i] - r <= p[i] /\ p[i] <= at[i] + r
    BY <1>3, <2>1, InSquare
  <2> HIDE DEF p
  <2>3. p[1] \in Int /\ p[2] \in Int /\ at[1] \in Int /\ at[2] \in Int
    BY <2>1
  <2>4. at[1] - r <= p[1] /\ p[1] <= at[1] + r /\ at[2] - r <= p[2] /\ p[2] <= at[2] + r
    BY <2>2
  <2>5. /\ (at[1] - r) \div Cell <= p[1] \div Cell /\ p[1] \div Cell <= (at[1] + r) \div Cell
        /\ (at[2] - r) \div Cell <= p[2] \div Cell /\ p[2] \div Cell <= (at[2] + r) \div Cell
    <3>1. at[1] - r \in Int /\ at[1] + r \in Int /\ at[2] - r \in Int /\ at[2] + r \in Int
      BY <2>3
    <3> QED BY <2>1, <2>3, <2>4, <3>1, QuotientMonotone
  <2>6. /\ p[1] \div Cell \in Int /\ p[2] \div Cell \in Int
        /\ (at[1] - r) \div Cell \in Int /\ (at[1] + r) \div Cell \in Int
        /\ (at[2] - r) \div Cell \in Int /\ (at[2] + r) \div Cell \in Int
    BY <2>1, <2>3
  <2>7. cell_of(p) = <<p[1] \div Cell, p[2] \div Cell>> /\ low = <<(at[1] - r) \div Cell, (at[2] - r) \div Cell>>
        /\ high = <<(at[1] + r) \div Cell, (at[2] + r) \div Cell>>
    BY DEF cell_of
  <2>8. cell_of(p)[1] \in low[1]..high[1] /\ cell_of(p)[2] \in low[2]..high[2]
    BY <2>5, <2>6, <2>7
  <2>9. cell_of(p) \in DOMAIN cells
    BY <1>2 DEF p
  <2> QED BY <2>8, <2>9 DEF p
<1> HIDE DEF near
<1>4. near \subseteq DOMAIN cells
  BY DEF near
<1>5. \A e : e \in UNION {DOMAIN cells[k] : k \in near} => e \in DOMAIN positions
  BY <1>2, <1>4 DEF Occupants
<1>6. ASSUME NEW e \in DOMAIN positions, Within(positions[e], at, r)
      PROVE  e \in UNION {DOMAIN cells[k] : k \in near}
  <2>1. cell_of(positions[e]) \in near
    BY <1>3, <1>6
  <2>2. e \in DOMAIN cells[cell_of(positions[e])]
    BY <1>2, <1>4, <2>1 DEF Occupants
  <2> QED BY <2>1, <2>2
<1> QED BY <1>1, <1>5, <1>6

(* A larger circle holds a smaller one. *)
LEMMA WithinGrows ==
    ASSUME NEW p \in Int \X Int, NEW c \in Int \X Int, NEW r \in Nat, NEW s \in Nat, r < s, Within(p, c, r)
    PROVE  Within(p, c, s)
<1>1. r * r < s * s /\ r * r \in Int /\ s * s \in Int
  BY SquaresGrow
<1>2. Distance2(p, c) \in Int /\ Distance2(p, c) <= r * r
  BY DEF Within, Distance2
<1> QED BY <1>1, <1>2 DEF Within

LEMMA GridInvGives == GridInv => GridExact
<1> SUFFICES ASSUME GridInv PROVE GridExact
  OBVIOUS
<1>1. DOMAIN cells = {cell_of(positions[x]) : x \in DOMAIN positions}
      /\ \A k \in DOMAIN cells : cells[k] = [e \in Occupants(positions, k) |-> 1]
  BY DEF GridInv, Indexed
<1>2. FarRadius \in Nat /\ MediumRadius \in Nat /\ NearRadius \in Nat
      /\ NearRadius < MediumRadius /\ MediumRadius < FarRadius /\ NearRadius < FarRadius
  BY WorldAssumption
<1>3. ASSUME NEW at \in Coords \X Coords
      PROVE  /\ \A r \in 1..FarRadius :
                  query_radius(at, r) = {e \in DOMAIN positions : Within(positions[e], at, r)}
             /\ replication_set(at) \subseteq Bodies \X (InterestTier \ {"None"})
             /\ {x[1] : x \in replication_set(at)} =
                  {e \in DOMAIN positions : positions[e] # at /\ interest_tier(at, positions[e]) # "None"}
  <2>1. \A r \in Nat : query_radius(at, r) = {e \in DOMAIN positions : Within(positions[e], at, r)}
    BY QueryExact
  <2> DEFINE shown == {e \in DOMAIN positions : Within(positions[e], at, FarRadius) /\ positions[e] # at}
             tier(e) == interest_tier(at, positions[e])
  <2>2. replication_set(at) = {<<e, tier(e)>> : e \in shown}
    <3>1. {x \in query_radius(at, FarRadius) : positions[x] # at} = shown
      BY <1>2, <2>1
    <3> QED BY <3>1 DEF replication_set
  <2>3. \A e \in DOMAIN positions : tier(e) \in InterestTier /\ (tier(e) # "None" <=> Within(positions[e], at, FarRadius))
    <3> SUFFICES ASSUME NEW e \in DOMAIN positions
                 PROVE  tier(e) \in InterestTier /\ (tier(e) # "None" <=> Within(positions[e], at, FarRadius))
      OBVIOUS
    <3>1. positions[e] \in Int \X Int /\ at \in Int \X Int
      BY WorldAssumption DEF GridInv
    <3>2. /\ Within(positions[e], at, NearRadius) => Within(positions[e], at, FarRadius)
          /\ Within(positions[e], at, MediumRadius) => Within(positions[e], at, FarRadius)
      BY <1>2, <3>1, WithinGrows
    <3> QED BY <3>2 DEF interest_tier, InterestTier
  <2> HIDE DEF tier
  <2>4. replication_set(at) \subseteq Bodies \X (InterestTier \ {"None"})
    BY <2>2, <2>3 DEF GridInv
  <2>5. {x[1] : x \in replication_set(at)} = shown
    <3>1. \A e : <<e, tier(e)>>[1] = e
      OBVIOUS
    <3> HIDE DEF shown
    <3>2. ASSUME NEW e \in shown PROVE \E x \in replication_set(at) : e = x[1]
      <4>1. <<e, tier(e)>> \in replication_set(at)
        BY <2>2
      <4> QED BY <3>1, <4>1
    <3>3. ASSUME NEW x \in replication_set(at) PROVE x[1] \in shown
      <4>1. PICK e \in shown : x = <<e, tier(e)>>
        BY <2>2
      <4> QED BY <3>1, <4>1
    <3> QED BY <3>2, <3>3
  <2>6. shown = {e \in DOMAIN positions : positions[e] # at /\ tier(e) # "None"}
    BY <2>3
  <2> QED BY <2>1, <1>2, <2>4, <2>5, <2>6 DEF tier
<1> QED BY <1>1, <1>3 DEF GridExact, Occupants
-----------------------------------------------------------------------------
(* Entities: an id that was ever given to a slot is behind the slot's      *)
(* generation unless it is the occupant's.                                 *)

Slot == [generation : Int, authority : Authority, components : SUBSET {"data"}]

Vacant == {i \in 1..Len(slots) : slots[i] = Empty}

(* The list names the members of S, each once. *)
Lists(list, S) ==
    /\ list \in Seq(S)
    /\ \A a, b \in 1..Len(list) : list[a] = list[b] => a = b
    /\ \A x \in S : \E a \in 1..Len(list) : list[a] = x

Known(id) == id.index \in 1..Len(slots) /\ (id.generation < generations[id.index] \/ Alive(id))

Reads(id) ==
    [dim |-> dimension_of(id), authority |-> slots[id.index].authority, components |-> slots[id.index].components]

SlotsOK ==
    /\ slots \in Seq(Slot) /\ Len(slots) <= MaxEntities
    /\ generations \in Seq(0..MaxGen) /\ Len(generations) = Len(slots)
    /\ \A i \in 1..Len(slots) : slots[i] = Empty \/ slots[i].generation = generations[i]
    /\ Lists(free, Vacant)

DimsKnown == DOMAIN dims \subseteq EntityId /\ \A id \in DOMAIN dims : Known(id)

MeantRead == \A id \in EntityId : Alive(id) => id \in DOMAIN meant /\ meant[id] = Reads(id)

EntityInv == SlotsOK /\ DimsKnown /\ MeantRead

LEMMA ListsCount ==
    ASSUME NEW list, NEW S, Lists(list, S)
    PROVE  Len(list) = Cardinality(S) /\ ToSet(list) = S
<1>1. list \in [1..Len(list) -> S] /\ Len(list) \in Nat /\ DOMAIN list = 1..Len(list)
  BY DEF Lists
<1>2. list \in Bijection(1..Len(list), S)
  BY <1>1 DEF Lists, Bijection, Injection, Surjection, IsInjective
<1>3. ExistsBijection(1..Len(list), S)
  BY <1>2 DEF ExistsBijection
<1>4. Cardinality(S) = Len(list)
  BY <1>1, <1>3, FS_CountingElements
<1>5. ToSet(list) = S
  BY <1>1 DEF ToSet, Lists
<1> QED BY <1>4, <1>5

(* The free list is a stack. *)
LEMMA PushLists ==
    ASSUME NEW list, NEW S, Lists(list, S), NEW x, x \notin S
    PROVE  Lists(Append(list, x), S \cup {x})
<1> DEFINE r == Append(list, x)
<1>1. list \in Seq(S) /\ Len(list) \in Nat /\ list \in Seq(S \cup {x})
  BY DEF Lists
<1>2. r \in Seq(S \cup {x}) /\ Len(r) = Len(list) + 1 /\ r[Len(list) + 1] = x /\ \A a \in 1..Len(list) : r[a] = list[a]
  BY <1>1
<1>3. \A a \in 1..Len(list) : list[a] \in S
  BY <1>1
<1> HIDE DEF r
<1>4. \A a, b \in 1..Len(r) : r[a] = r[b] => a = b
  <2>1. \A a, b \in 1..Len(list) : list[a] = list[b] => a = b
    BY DEF Lists
  <2> QED BY <1>1, <1>2, <1>3, <2>1
<1>5. \A y \in S \cup {x} : \E a \in 1..Len(r) : r[a] = y
  <2>1. \A y \in S : \E a \in 1..Len(list) : list[a] = y
    BY DEF Lists
  <2>2. Len(list) + 1 \in 1..Len(r) /\ \A a \in 1..Len(list) : a \in 1..Len(r)
    BY <1>1, <1>2
  <2>3. \A y \in S : \E a \in 1..Len(r) : r[a] = y
    BY <1>2, <2>1, <2>2
  <2> QED BY <1>2, <2>2, <2>3
<1> QED BY <1>2, <1>4, <1>5 DEF Lists, r

LEMMA PopLists ==
    ASSUME NEW list, NEW S, Lists(list, S), list # <<>>
    PROVE  Last(list) \in S /\ Lists(Front(list), S \ {Last(list)})
<1> DEFINE n == Len(list)
           r == Front(list)
           x == Last(list)
<1>1. list \in Seq(S) /\ n \in Nat /\ n >= 1
  BY DEF Lists
<1>2. x = list[n] /\ x \in S
  BY <1>1 DEF Last
<1>3. r \in Seq(S) /\ Len(r) = n - 1 /\ \A a \in 1..(n - 1) : r[a] = list[a]
  <2>1. r = SubSeq(list, 1, n - 1)
    BY DEF Front
  <2>2. n - 1 \in Int /\ 1 \in Int /\ \A a \in 1..(n - 1) : list[a] \in S
    BY <1>1
  <2>3. /\ r \in Seq(S) /\ Len(r) = (IF 1 <= n - 1 THEN ((n - 1) - 1) + 1 ELSE 0)
        /\ \A a \in 1..(((n - 1) - 1) + 1) : r[a] = list[(1 + a) - 1]
    BY <2>1, <2>2, SubSeqProperties
  <2> HIDE DEF r
  <2>4. \A a \in 1..(n - 1) : a \in 1..(((n - 1) - 1) + 1) /\ (1 + a) - 1 = a
    BY <1>1
  <2>5. \A a \in 1..(n - 1) : r[a] = list[a]
    BY <2>3, <2>4
  <2>6. ((n - 1) - 1) + 1 = n - 1 /\ (~(1 <= n - 1) => n - 1 = 0)
    <3>1. \A k \in Nat : k >= 1 => ((k - 1) - 1) + 1 = k - 1
      OBVIOUS
    <3>2. \A k \in Nat : k >= 1 /\ ~(1 <= k - 1) => k - 1 = 0
      OBVIOUS
    <3> QED BY <1>1, <3>1, <3>2
  <2>7. Len(r) = n - 1
    <3>1. CASE 1 <= n - 1
      BY <2>3, <2>6, <3>1
    <3>2. CASE ~(1 <= n - 1)
      BY <2>3, <2>6, <3>2
    <3> QED BY <3>1, <3>2
  <2> QED BY <2>3, <2>5, <2>7
<1>4. \A a, b \in 1..n : list[a] = list[b] => a = b
  BY DEF Lists
<1> HIDE DEF r, x, n
<1>5. \A a \in 1..(n - 1) : a \in 1..n /\ a # n /\ n \in 1..n
  BY <1>1
<1>6. \A a \in 1..(n - 1) : r[a] \in S \ {x}
  BY <1>1, <1>2, <1>3, <1>4, <1>5
<1>7. r \in Seq(S \ {x})
  BY <1>1, <1>3, <1>6
<1>8. \A a, b \in 1..Len(r) : r[a] = r[b] => a = b
  BY <1>3, <1>4, <1>5
<1>9. ASSUME NEW y \in S \ {x} PROVE \E a \in 1..Len(r) : r[a] = y
  <2>1. PICK a \in 1..n : list[a] = y
    BY DEF Lists, n
  <2>2. a # n
    BY <1>2, <1>9, <2>1
  <2>3. a \in 1..(n - 1)
    BY <1>1, <2>2
  <2> QED BY <1>3, <2>1, <2>3
<1> QED BY <1>2, <1>7, <1>8, <1>9 DEF Lists, r, x

(* The slot of a live id is occupied, by the current generation. *)
LEMMA AliveSlot ==
    ASSUME SlotsOK, NEW id \in EntityId
    PROVE  /\ Alive(id) <=> id.index \in 1..Len(slots) /\ slots[id.index].generation = id.generation
           /\ Alive(id) => slots[id.index] # Empty /\ id.generation = generations[id.index]
           /\ \A other \in EntityId : other.index = id.index /\ other.generation = id.generation => other = id
<1>1. DOMAIN slots = 1..Len(slots)
  BY DEF SlotsOK
<1>2. id.generation \in Nat /\ Empty.generation = -1
  BY WorldAssumption DEF EntityId, Empty
<1>3. Alive(id) => slots[id.index] # Empty
  BY <1>1, <1>2 DEF Alive
<1>4. \A other \in EntityId : other.index = id.index /\ other.generation = id.generation => other = id
  BY DEF EntityId
<1> QED BY <1>1, <1>3, <1>4 DEF Alive, SlotsOK

(* A step that rewrites an occupied slot and keeps its generation. *)
LEMMA RewriteKeeps ==
    ASSUME EntityInv, NEW id \in EntityId, Alive(id), NEW s \in Slot, s.generation = id.generation,
           slots' = [slots EXCEPT ![id.index] = s], UNCHANGED <<free, generations, dims>>,
           NEW m, meant' = [meant EXCEPT ![id] = m],
           m = [dim |-> dimension_of(id), authority |-> s.authority, components |-> s.components]
    PROVE  EntityInv'
<1> DEFINE i == id.index
<1>1. /\ slots \in Seq(Slot) /\ i \in 1..Len(slots) /\ slots[i] # Empty /\ id.generation = generations[i]
      /\ slots[i].generation = id.generation /\ id.generation \in Nat
  BY AliveSlot, WorldAssumption DEF EntityInv, SlotsOK, EntityId
<1>2. s # Empty
  BY <1>1 DEF Empty
<1>3. /\ slots' \in Seq(Slot) /\ Len(slots') = Len(slots) /\ slots'[i] = s
      /\ \A j \in 1..Len(slots) : j # i => slots'[j] = slots[j]
  BY <1>1
<1>4. Vacant' = Vacant
  BY <1>1, <1>2, <1>3 DEF Vacant
<1>5. SlotsOK'
  <2>1. \A j \in 1..Len(slots') : slots'[j] = Empty \/ slots'[j].generation = generations'[j]
    BY <1>1, <1>3 DEF EntityInv, SlotsOK
  <2>2. Lists(free, Vacant)' 
    BY <1>4 DEF EntityInv, SlotsOK, Lists
  <2> QED BY <1>3, <2>1, <2>2 DEF EntityInv, SlotsOK
<1>6. \A x \in EntityId : Alive(x)' <=> Alive(x)
  <2>1. DOMAIN slots' = 1..Len(slots) /\ DOMAIN slots = 1..Len(slots)
    BY <1>1, <1>3
  <2> QED BY <1>1, <1>3, <2>1 DEF Alive
<1>7. DimsKnown'
  BY <1>3, <1>6 DEF EntityInv, DimsKnown, Known
<1>8. \A x : dimension_of(x)' = dimension_of(x)
  BY DEF dimension_of
<1>9. ASSUME NEW x \in EntityId, Alive(x)' PROVE x \in DOMAIN meant' /\ meant'[x] = Reads(x)'
  <2>1. Alive(x) /\ x \in DOMAIN meant /\ meant[x] = Reads(x) /\ DOMAIN meant' = DOMAIN meant
    BY <1>6, <1>9 DEF EntityInv, MeantRead
  <2>2. CASE x = id
    <3>1. meant'[x] = m
      BY <2>1, <2>2
    <3>2. Reads(x)' = m
      BY <1>3, <1>8, <2>2 DEF Reads
    <3> QED BY <2>1, <3>1, <3>2
  <2>3. CASE x # id
    <3>1. meant'[x] = meant[x]
      BY <2>1, <2>3
    <3>2. x.index # i
      <4>1. x.generation = generations[x.index]
        BY <2>1, AliveSlot DEF EntityInv
      <4>2. \A other \in EntityId : other.index = id.index /\ other.generation = id.generation => other = id
        BY AliveSlot DEF EntityInv
      <4> QED BY <1>1, <2>3, <4>1, <4>2
    <3>3. x.index \in 1..Len(slots)
      BY <2>1, AliveSlot DEF EntityInv
    <3>4. Reads(x)' = Reads(x)
      BY <1>3, <1>8, <3>2, <3>3 DEF Reads
    <3> QED BY <2>1, <3>1, <3>4
  <2> QED BY <2>2, <2>3
<1> QED BY <1>5, <1>7, <1>9 DEF EntityInv, MeantRead
(* What an id reads and whether it lives depend on its slot and its        *)
(* assignment alone.                                                       *)
LEMMA AliveIds ==
    ASSUME SlotsOK, NEW x \in EntityId, NEW y \in EntityId, Alive(x), Alive(y), x # y
    PROVE  x.index # y.index
<1>1. x.generation = generations[x.index] /\ y.generation = generations[y.index]
  BY AliveSlot
<1>2. \A other \in EntityId : other.index = y.index /\ other.generation = y.generation => other = y
  BY AliveSlot
<1> QED BY <1>1, <1>2

(* A slot is filled: the id it is given was never given before. *)
LEMMA SpawnKeeps ==
    ASSUME EntityInv, NEW auth \in Authority, NEW i \in 1..MaxEntities, NEW g \in 0..MaxGen,
           NEW s, s = [generation |-> g, authority |-> auth, components |-> {}],
           SlotsOK', i \in 1..Len(slots'), slots'[i] = s, generations'[i] = g, Len(slots) <= Len(slots'),
           \A j \in 1..Len(slots) : j # i => slots'[j] = slots[j] /\ generations'[j] = generations[j],
           \A j \in 1..Len(slots') : j # i => j \in 1..Len(slots),
           i \in 1..Len(slots) => slots[i] = Empty /\ generations[i] = g,
           Spawned(i, g, auth)
    PROVE  EntityInv'
<1> DEFINE id == [index |-> i, generation |-> g]
           new == [dim |-> DEFAULT, authority |-> auth, components |-> {}]
<1>1. id \in EntityId /\ id.index = i /\ id.generation = g /\ g \in Nat
  BY WorldAssumption DEF EntityId
<1>2. dims' = dims /\ meant' = [x \in DOMAIN meant \cup {id} |-> IF x = id THEN new ELSE meant[x]]
  BY DEF Spawned, Bind
<1>3. SlotsOK
  BY DEF EntityInv
<1>4. DOMAIN slots = 1..Len(slots) /\ DOMAIN slots' = 1..Len(slots') /\ Len(slots) \in Nat /\ Len(slots') \in Nat
  BY <1>3 DEF SlotsOK
<1>5. \A x \in EntityId : x.index = i => ~Alive(x)
  BY <1>4, WorldAssumption DEF Alive, Empty, EntityId
<1>6. \A x \in EntityId : Known(x) /\ x.index = i => x.generation < g
  BY <1>5 DEF Known
<1>7. id \notin DOMAIN dims
  BY <1>1, <1>6 DEF EntityInv, DimsKnown
<1>8. \A x \in EntityId : x.index # i => (Alive(x)' <=> Alive(x))
  BY <1>4 DEF Alive
<1>9. DimsKnown'
  <2>1. ASSUME NEW x \in DOMAIN dims PROVE Known(x)'
    <3>1. x \in EntityId /\ Known(x)
      BY DEF EntityInv, DimsKnown
    <3>2. CASE x.index = i
      BY <1>6, <3>1, <3>2 DEF Known
    <3>3. CASE x.index # i
      BY <1>4, <1>8, <3>1, <3>3 DEF Known
    <3> QED BY <3>2, <3>3
  <2> QED BY <1>2, <2>1 DEF EntityInv, DimsKnown
<1>10. \A x : dimension_of(x)' = dimension_of(x)
  BY <1>2 DEF dimension_of
<1> HIDE DEF id, new
<1>11. ASSUME NEW x \in EntityId, Alive(x)' PROVE x \in DOMAIN meant' /\ meant'[x] = Reads(x)'
  <2>1. CASE x.index = i
    <3>1. x = id
      <4>1. x.generation = g
        BY <1>4, <1>11, <2>1 DEF Alive
      <4> QED BY <1>1, <2>1, <4>1 DEF EntityId, id
    <3>2. meant'[x] = new /\ x \in DOMAIN meant'
      BY <1>2, <3>1
    <3>3. dimension_of(x)' = DEFAULT
      BY <1>7, <1>10, <3>1 DEF dimension_of
    <3>4. Reads(x)' = new
      <4>1. slots'[x.index].authority = auth /\ slots'[x.index].components = {}
        BY <2>1
      <4> QED BY <3>3, <4>1 DEF Reads, new
    <3> QED BY <3>2, <3>4
  <2>2. CASE x.index # i
    <3>1. Alive(x) /\ x \in DOMAIN meant /\ meant[x] = Reads(x)
      BY <1>8, <1>11, <2>2 DEF EntityInv, MeantRead
    <3>2. meant'[x] = meant[x] /\ x \in DOMAIN meant'
      BY <1>1, <1>2, <2>2, <3>1
    <3>3. Reads(x)' = Reads(x)
      BY <1>4, <1>10, <2>2, <3>1 DEF Reads, Alive
    <3> QED BY <3>1, <3>2, <3>3
  <2> QED BY <2>1, <2>2
<1> QED BY <1>9, <1>11 DEF EntityInv, MeantRead

LEMMA SpawnStep == ASSUME EntityInv, NEW auth \in Authority, spawn(auth) PROVE EntityInv'
<1> DEFINE entity(g) == [generation |-> g, authority |-> auth, components |-> {}]
           n == Len(slots)
<1>1. /\ slots \in Seq(Slot) /\ n \in Nat /\ n <= MaxEntities /\ MaxEntities \in Nat /\ MaxGen \in Nat
      /\ generations \in Seq(0..MaxGen) /\ Len(generations) = n
      /\ \A j \in 1..n : slots[j] = Empty \/ slots[j].generation = generations[j]
      /\ Lists(free, Vacant)
  BY WorldAssumption DEF EntityInv, SlotsOK
<1>2. \A g \in 0..MaxGen : entity(g) \in Slot /\ entity(g) # Empty /\ entity(g).generation = g
  BY <1>1 DEF Slot, Empty
<1> HIDE DEF entity
<1>3. CASE free # <<>>
  <2> DEFINE i == Last(free)
             g == generations[i]
  <2>1. i \in Vacant /\ Lists(Front(free), Vacant \ {i})
    BY <1>1, <1>3, PopLists
  <2> HIDE DEF i
  <2>2. i \in 1..n /\ slots[i] = Empty
    BY <2>1 DEF Vacant
  <2>3. i \in 1..MaxEntities /\ g \in 0..MaxGen
    BY <1>1, <2>2
  <2>4. free' = Front(free) /\ slots' = [slots EXCEPT ![i] = entity(g)] /\ generations' = generations
        /\ Spawned(i, g, auth)
    BY <1>3 DEF spawn, i, entity
  <2>5. /\ slots' \in Seq(Slot) /\ Len(slots') = n /\ slots'[i] = entity(g)
        /\ \A j \in 1..n : j # i => slots'[j] = slots[j]
    BY <1>1, <1>2, <2>2, <2>3, <2>4
  <2>6. Vacant' = Vacant \ {i}
    BY <1>2, <2>2, <2>3, <2>5 DEF Vacant
  <2>7. Lists(free', Vacant')
    BY <2>1, <2>4, <2>6
  <2>8. \A j \in 1..n : slots'[j] = Empty \/ slots'[j].generation = generations'[j]
    BY <1>1, <1>2, <2>3, <2>4, <2>5
  <2>9. SlotsOK'
    BY <1>1, <2>4, <2>5, <2>7, <2>8 DEF SlotsOK
  <2>10. n <= Len(slots') /\ i \in 1..Len(slots') /\ generations'[i] = g
    BY <1>1, <2>2, <2>4, <2>5
  <2> HIDE DEF g
  <2> QED BY <2>2, <2>3, <2>4, <2>5, <2>9, <2>10, SpawnKeeps DEF entity, g
<1>4. CASE free = <<>>
  <2>1. /\ n < MaxEntities /\ slots' = Append(slots, entity(0)) /\ generations' = Append(generations, 0)
        /\ free' = free /\ Spawned(n + 1, 0, auth)
    BY <1>4 DEF spawn, entity
  <2>2. 0 \in 0..MaxGen /\ n + 1 \in 1..MaxEntities
    BY <1>1, <2>1
  <2>3. /\ slots' \in Seq(Slot) /\ Len(slots') = n + 1 /\ slots'[n + 1] = entity(0)
        /\ \A j \in 1..n : slots'[j] = slots[j]
    BY <1>1, <1>2, <2>1, <2>2
  <2>4. /\ generations' \in Seq(0..MaxGen) /\ Len(generations') = n + 1 /\ generations'[n + 1] = 0
        /\ \A j \in 1..n : generations'[j] = generations[j]
    BY <1>1, <2>1, <2>2
  <2>5. \A j \in 1..(n + 1) : j # n + 1 => j \in 1..n
    BY <1>1
  <2>6. n + 1 \in 1..(n + 1) /\ n + 1 \notin 1..n /\ \A j \in 1..n : j \in 1..(n + 1) /\ j # n + 1
    BY <1>1
  <2>7. Vacant' = Vacant
    BY <1>2, <2>2, <2>3, <2>5, <2>6 DEF Vacant
  <2>8. Lists(free', Vacant')
    BY <1>1, <2>1, <2>7
  <2>9. \A j \in 1..(n + 1) : slots'[j] = Empty \/ slots'[j].generation = generations'[j]
    BY SMTT(60), <1>1, <1>2, <2>2, <2>3, <2>4, <2>5
  <2>10. n + 1 <= MaxEntities /\ n <= n + 1
    BY <1>1, <2>1
  <2>11. SlotsOK'
    BY <2>3, <2>4, <2>8, <2>9, <2>10 DEF SlotsOK
  <2> QED BY <2>1, <2>2, <2>3, <2>4, <2>5, <2>6, <2>10, <2>11, SpawnKeeps DEF entity
<1> QED BY <1>3, <1>4

(* A slot is emptied: its ids fall behind the next generation. *)
LEMMA DestroyStep == ASSUME EntityInv, NEW id \in EntityId, destroy(id) PROVE EntityInv'
<1> DEFINE i == id.index
           n == Len(slots)
<1>1. /\ slots \in Seq(Slot) /\ n \in Nat /\ n <= MaxEntities /\ MaxGen \in Nat
      /\ generations \in Seq(0..MaxGen) /\ Len(generations) = n
      /\ \A j \in 1..n : slots[j] = Empty \/ slots[j].generation = generations[j]
      /\ Lists(free, Vacant) /\ SlotsOK
  BY SMTT(60), WorldAssumption DEF EntityInv, SlotsOK
<1>2. Alive(id) /\ i \in 1..n /\ slots[i] # Empty /\ id.generation = generations[i] /\ id.generation \in Nat
  BY <1>1, AliveSlot DEF destroy, EntityId
<1>3. /\ generations[i] < MaxGen /\ slots' = [slots EXCEPT ![i] = Empty] /\ free' = Append(free, i)
      /\ generations' = [generations EXCEPT ![i] = generations[i] + 1]
      /\ meant' = [x \in DOMAIN meant \ {id} |-> meant[x]] /\ dims' = dims
  BY DEF destroy
<1>4. Empty \in Slot
  BY DEF Slot, Empty, Authority
<1>5. /\ slots' \in Seq(Slot) /\ Len(slots') = n /\ slots'[i] = Empty
      /\ \A j \in 1..n : j # i => slots'[j] = slots[j]
  BY <1>1, <1>2, <1>3, <1>4
<1>6. generations[i] + 1 \in 0..MaxGen
  BY <1>1, <1>2, <1>3
<1>7. /\ generations' \in Seq(0..MaxGen) /\ Len(generations') = n /\ generations'[i] = generations[i] + 1
      /\ \A j \in 1..n : j # i => generations'[j] = generations[j]
  BY <1>1, <1>2, <1>3, <1>6
<1>8. i \notin Vacant /\ Vacant' = Vacant \cup {i}
  BY <1>2, <1>5 DEF Vacant
<1>9. Lists(free', Vacant')
  BY <1>1, <1>3, <1>8, PushLists
<1>10. \A j \in 1..n : slots'[j] = Empty \/ slots'[j].generation = generations'[j]
  BY <1>1, <1>5, <1>7
<1>11. SlotsOK'
  BY <1>1, <1>5, <1>7, <1>9, <1>10 DEF SlotsOK
<1>12. DOMAIN slots = 1..n /\ DOMAIN slots' = 1..n
  BY <1>1, <1>5
<1> HIDE DEF i, n
<1>13. \A x \in EntityId : x.index # i => (Alive(x)' <=> Alive(x))
  BY <1>5, <1>12 DEF Alive
<1>14. \A x \in EntityId : x.index = i => ~Alive(x)'
  BY <1>2, <1>5, <1>12, WorldAssumption DEF Alive, Empty, EntityId
<1>15. ASSUME NEW x \in DOMAIN dims PROVE Known(x)'
  <2>1. x \in EntityId /\ Known(x) /\ x.index \in 1..n /\ x.generation \in Int
    BY WorldAssumption DEF EntityInv, DimsKnown, Known, EntityId, n
  <2>2. CASE x.index = i
    <3>1. x.generation <= generations[i]
      BY <1>1, <1>2, <2>1, <2>2, AliveSlot DEF Known
    <3>2. x.generation < generations'[i]
      BY <1>2, <1>7, <2>1, <3>1
    <3> QED BY <1>5, <2>1, <2>2, <3>2 DEF Known
  <2>3. CASE x.index # i
    BY <1>5, <1>7, <1>13, <2>1, <2>3 DEF Known
  <2> QED BY <2>2, <2>3
<1>16. \A x : dimension_of(x)' = dimension_of(x)
  BY <1>3 DEF dimension_of
<1>17. ASSUME NEW x \in EntityId, Alive(x)' PROVE x \in DOMAIN meant' /\ meant'[x] = Reads(x)'
  <2>1. x.index # i /\ Alive(x)
    BY <1>13, <1>14, <1>17
  <2>2. x \in DOMAIN meant /\ meant[x] = Reads(x) /\ x.index \in 1..n
    BY <1>12, <2>1 DEF EntityInv, MeantRead, Alive
  <2>3. x # id
    BY <2>1 DEF i
  <2>4. Reads(x)' = Reads(x)
    BY <1>5, <1>16, <2>1, <2>2 DEF Reads
  <2> QED BY <1>3, <2>2, <2>3, <2>4
<1> QED BY <1>3, <1>11, <1>15, <1>17 DEF EntityInv, DimsKnown, MeantRead

(* The steps that change what a live id reads. *)
LEMMA RewriteStep ==
    ASSUME EntityInv, NEW id \in EntityId,
           \/ set_component(id)
           \/ \E expected, next \in Authority : transfer_entity(id, expected, next)
    PROVE  EntityInv'
<1> DEFINE old == slots[id.index]
<1>1. Alive(id) /\ UNCHANGED <<free, generations, dims>>
  BY DEF set_component, transfer_entity
<1>2. /\ old \in Slot /\ old.generation = id.generation /\ id.index \in 1..Len(slots) /\ slots \in Seq(Slot)
      /\ id \in DOMAIN meant /\ meant[id] = Reads(id)
  BY <1>1, AliveSlot DEF EntityInv, SlotsOK, MeantRead
<1>3. CASE set_component(id)
  <2> DEFINE s == [old EXCEPT !.components = {"data"}]
             m == [meant[id] EXCEPT !.components = {"data"}]
  <2>1. slots' = [slots EXCEPT ![id.index] = s] /\ meant' = [meant EXCEPT ![id] = m]
    BY <1>3 DEF set_component
  <2>2. s \in Slot /\ s.generation = id.generation /\ s.authority = old.authority /\ s.components = {"data"}
    BY <1>2 DEF Slot
  <2>3. m = [dim |-> dimension_of(id), authority |-> s.authority, components |-> s.components]
    <3>1. meant[id] = [dim |-> dimension_of(id), authority |-> old.authority, components |-> old.components]
      BY <1>2 DEF Reads
    <3> QED BY <2>2, <3>1
  <2> HIDE DEF s, m
  <2> QED BY <1>1, <2>1, <2>2, <2>3, RewriteKeeps
<1>4. ASSUME NEW expected \in Authority, NEW next \in Authority, transfer_entity(id, expected, next)
      PROVE  EntityInv'
  <2> DEFINE s == [old EXCEPT !.authority = next]
             m == [meant[id] EXCEPT !.authority = next]
  <2>1. slots' = [slots EXCEPT ![id.index] = s] /\ meant' = [meant EXCEPT ![id] = m]
    BY <1>4 DEF transfer_entity
  <2>2. s \in Slot /\ s.generation = id.generation /\ s.authority = next /\ s.components = old.components
    BY <1>2 DEF Slot
  <2>3. m = [dim |-> dimension_of(id), authority |-> s.authority, components |-> s.components]
    <3>1. meant[id] = [dim |-> dimension_of(id), authority |-> old.authority, components |-> old.components]
      BY <1>2 DEF Reads
    <3> QED BY <2>2, <3>1
  <2> HIDE DEF s, m
  <2> QED BY <1>1, <2>1, <2>2, <2>3, RewriteKeeps
<1> QED BY <1>3, <1>4

(* Assignments: set, remove and prune. *)
LEMMA AssignKeeps ==
    ASSUME EntityInv, UNCHANGED <<slots, free, generations>>,
           DOMAIN dims' \subseteq EntityId, \A x \in DOMAIN dims' : Known(x),
           \A x \in EntityId : Alive(x) =>
              /\ x \in DOMAIN meant'
              /\ meant'[x] = [dim |-> dimension_of(x)', authority |-> slots[x.index].authority,
                              components |-> slots[x.index].components]
    PROVE  EntityInv'
<1>1. \A x : Alive(x)' <=> Alive(x)
  BY DEF Alive
<1>2. \A x : Known(x)' <=> Known(x)
  BY <1>1 DEF Known
<1>3. SlotsOK'
  <2>1. Vacant' = Vacant
    BY DEF Vacant
  <2>2. Lists(free', Vacant')
    BY <2>1 DEF EntityInv, SlotsOK
  <2> QED BY <2>2 DEF EntityInv, SlotsOK
<1>4. DimsKnown'
  BY <1>2 DEF DimsKnown
<1>5. MeantRead'
  BY <1>1 DEF MeantRead, Reads
<1> QED BY <1>3, <1>4, <1>5 DEF EntityInv

LEMMA SetDimensionStep ==
    ASSUME EntityInv, NEW id \in EntityId, NEW d \in Buckets, set_dimension(id, d)
    PROVE  EntityInv'
<1>1. /\ Alive(id) /\ UNCHANGED <<slots, free, generations>> /\ meant' = [meant EXCEPT ![id].dim = d]
      /\ dims' = [x \in DOMAIN dims \cup {id} |-> IF x = id THEN d ELSE dims[x]]
  BY DEF set_dimension, Bind
<1>2. DOMAIN dims' \subseteq EntityId /\ \A x \in DOMAIN dims' : Known(x)
  BY <1>1, AliveSlot DEF EntityInv, DimsKnown, Known
<1>3. dimension_of(id)' = d /\ \A x : x # id => dimension_of(x)' = dimension_of(x)
  BY <1>1 DEF dimension_of
<1>4. ASSUME NEW x \in EntityId, Alive(x)
      PROVE  /\ x \in DOMAIN meant'
             /\ meant'[x] = [dim |-> dimension_of(x)', authority |-> slots[x.index].authority,
                             components |-> slots[x.index].components]
  <2>1. x \in DOMAIN meant /\ meant[x] = Reads(x) /\ DOMAIN meant' = DOMAIN meant
    BY <1>1, <1>4 DEF EntityInv, MeantRead
  <2>2. CASE x = id
    <3>1. meant'[x] = [meant[x] EXCEPT !.dim = d]
      BY <1>1, <2>1, <2>2
    <3> QED BY <1>3, <2>1, <2>2, <3>1 DEF Reads
  <2>3. CASE x # id
    <3>1. meant'[x] = meant[x]
      BY <1>1, <2>1, <2>3
    <3> QED BY <1>3, <2>1, <2>3, <3>1 DEF Reads
  <2> QED BY <2>2, <2>3
<1> QED BY <1>1, <1>2, <1>4, AssignKeeps

LEMMA RemoveDimensionStep ==
    ASSUME EntityInv, NEW id \in EntityId, remove_dimension(id) PROVE EntityInv'
<1>1. /\ UNCHANGED <<slots, free, generations>>
      /\ meant' = IF Alive(id) THEN [meant EXCEPT ![id].dim = DEFAULT] ELSE meant
      /\ dims' = [x \in DOMAIN dims \ {id} |-> dims[x]]
  BY DEF remove_dimension
<1>2. DOMAIN dims' \subseteq EntityId /\ \A x \in DOMAIN dims' : Known(x)
  BY <1>1 DEF EntityInv, DimsKnown
<1>3. dimension_of(id)' = DEFAULT /\ \A x : x # id => dimension_of(x)' = dimension_of(x)
  BY <1>1 DEF dimension_of
<1>4. ASSUME NEW x \in EntityId, Alive(x)
      PROVE  /\ x \in DOMAIN meant'
             /\ meant'[x] = [dim |-> dimension_of(x)', authority |-> slots[x.index].authority,
                             components |-> slots[x.index].components]
  <2>1. x \in DOMAIN meant /\ meant[x] = Reads(x) /\ DOMAIN meant' = DOMAIN meant
    BY <1>1, <1>4 DEF EntityInv, MeantRead
  <2>2. CASE x = id
    <3>1. meant'[x] = [meant[x] EXCEPT !.dim = DEFAULT]
      BY <1>1, <1>4, <2>1, <2>2
    <3> QED BY <1>3, <2>1, <2>2, <3>1 DEF Reads
  <2>3. CASE x # id
    <3>1. meant'[x] = meant[x]
      BY <1>1, <2>1, <2>3
    <3> QED BY <1>3, <2>1, <2>3, <3>1 DEF Reads
  <2> QED BY <2>2, <2>3
<1> QED BY <1>1, <1>2, <1>4, AssignKeeps

LEMMA PruneStep == ASSUME EntityInv, prune PROVE EntityInv'
<1>1. UNCHANGED <<slots, free, generations, meant>> /\ dims' = [x \in {j \in DOMAIN dims : Alive(j)} |-> dims[x]]
  BY DEF prune
<1>2. DOMAIN dims' \subseteq EntityId /\ \A x \in DOMAIN dims' : Known(x)
  BY <1>1 DEF EntityInv, DimsKnown
<1>3. \A x : Alive(x) => dimension_of(x)' = dimension_of(x)
  BY <1>1 DEF dimension_of
<1>4. \A x \in EntityId : Alive(x) =>
        /\ x \in DOMAIN meant'
        /\ meant'[x] = [dim |-> dimension_of(x)', authority |-> slots[x.index].authority,
                        components |-> slots[x.index].components]
  BY <1>1, <1>3 DEF EntityInv, MeantRead, Reads
<1> QED BY <1>1, <1>2, <1>4, AssignKeeps

LEMMA EntityStep == EntityInv /\ [EntityNext]_entityVars => EntityInv'
<1> SUFFICES ASSUME EntityInv, [EntityNext]_entityVars PROVE EntityInv'
  OBVIOUS
<1>1. CASE UNCHANGED entityVars
  <2>1. \A x : dimension_of(x)' = dimension_of(x)
    BY <1>1 DEF entityVars, dimension_of
  <2>2. UNCHANGED <<slots, free, generations, dims, meant>>
    BY <1>1 DEF entityVars
  <2>3. DOMAIN dims' \subseteq EntityId /\ \A x \in DOMAIN dims' : Known(x)
    BY <2>2 DEF EntityInv, DimsKnown
  <2>4. \A x \in EntityId : Alive(x) =>
          /\ x \in DOMAIN meant'
          /\ meant'[x] = [dim |-> dimension_of(x)', authority |-> slots[x.index].authority,
                          components |-> slots[x.index].components]
    BY <2>1, <2>2 DEF EntityInv, MeantRead, Reads
  <2> QED BY <2>2, <2>3, <2>4, AssignKeeps
<1>2. CASE EntityNext
  <2>1. ASSUME NEW auth \in Authority, spawn(auth) PROVE EntityInv'
    BY <2>1, SpawnStep
  <2>2. ASSUME NEW id \in EntityId, destroy(id) PROVE EntityInv'
    BY <2>2, DestroyStep
  <2>3. ASSUME NEW id \in EntityId,
               set_component(id) \/ \E expected, next \in Authority : transfer_entity(id, expected, next)
        PROVE  EntityInv'
    BY <2>3, RewriteStep
  <2>4. ASSUME NEW id \in EntityId, remove_dimension(id) PROVE EntityInv'
    BY <2>4, RemoveDimensionStep
  <2>5. ASSUME NEW id \in EntityId, NEW d \in Buckets, set_dimension(id, d) PROVE EntityInv'
    BY <2>5, SetDimensionStep
  <2>6. ASSUME prune PROVE EntityInv'
    BY <2>6, PruneStep
  <2> QED BY <1>2, <2>1, <2>2, <2>3, <2>4, <2>5, <2>6 DEF EntityNext
<1> QED BY <1>1, <1>2

LEMMA EntityInvGives == EntityInv => IdsNeverAlias
<1> SUFFICES ASSUME EntityInv PROVE IdsNeverAlias
  OBVIOUS
<1>1. Lists(free, Vacant) /\ DOMAIN slots = 1..Len(slots)
  BY DEF EntityInv, SlotsOK
<1>2. Len(free) = Cardinality(Vacant) /\ ToSet(free) = Vacant
  BY <1>1, ListsCount
<1>3. Vacant = {i \in DOMAIN slots : slots[i] = Empty}
  BY <1>1 DEF Vacant
<1>4. \A x, y \in EntityId : \A d \in Buckets : x \in members_of(d) /\ y \in members_of(d) => visible_to(x, y)
  BY DEF members_of, visible_to, dimension_of
<1> QED BY <1>2, <1>3, <1>4 DEF IdsNeverAlias, EntityInv, MeantRead, Reads

-----------------------------------------------------------------------------
(* The three machines of the world side by side. *)
WorldParts ==
    /\ EntityInit /\ GridInit /\ PopulationInit
    /\ [][EntityNext]_entityVars /\ [][GridNext]_gridVars /\ [][AmbientNext]_populationVars

LEMMA WorldStart == EntityInit /\ GridInit /\ PopulationInit => EntityInv /\ GridInv /\ PopulationInv
<1> SUFFICES ASSUME EntityInit, GridInit, PopulationInit PROVE EntityInv /\ GridInv /\ PopulationInv
  OBVIOUS
<1>1. EntityInv
  <2>1. Vacant = {} /\ slots = <<>> /\ free = <<>> /\ generations = <<>> /\ DOMAIN dims = {} /\ DOMAIN slots = {}
    BY DEF EntityInit, Vacant
  <2>2. Lists(free, Vacant)
    BY <2>1 DEF Lists
  <2>3. SlotsOK
    BY <2>1, <2>2, WorldAssumption DEF SlotsOK
  <2> QED BY <2>1, <2>3 DEF EntityInv, DimsKnown, MeantRead, Alive
<1>2. GridInv
  <2>1. DOMAIN positions = {} /\ cells = <<>> /\ DOMAIN cells = {}
    BY DEF GridInit
  <2>2. Indexed(positions) = cells
    BY <2>1 DEF Indexed
  <2> QED BY <2>1, <2>2 DEF GridInv
<1>3. PopulationInv
  BY DEF PopulationInit, PopulationInv
<1> QED BY <1>1, <1>2, <1>3

LEMMA PopulationInvGives == PopulationInv => BudgetsHold
BY DEF PopulationInv, BudgetsHold, can_see

(* For any number of entities, owners, dimensions, bodies and positions,   *)
(* and any sequence of calls: an entity id never names a second entity and *)
(* a live one reads what was set through it since its spawn, whatever      *)
(* stale ids and reuse of slots came between (EntityStore,                 *)
(* DimensionMap); the scan of the grid's cells finds exactly what a scan   *)
(* of every position would, at any radius (SpatialGrid); and no dimension  *)
(* holds more ambients than the most generous policy it was ever given     *)
(* allowed (PopulationManager).                                            *)
THEOREM WorldAlwaysSound == WorldParts => []WorldSound
<1>1. EntityInv /\ GridInv /\ PopulationInv => WorldSound
  BY EntityInvGives, GridInvGives, PopulationInvGives DEF WorldSound
<1> QED BY <1>1, WorldStart, EntityStep, GridStep, PopulationStep, PTL DEF WorldParts

-----------------------------------------------------------------------------
(* The accounts of a resource. *)

AccountsInv ==
    /\ budget \in [Dimensions -> Int] /\ stats \in [Dimensions -> Nat] /\ usage = stats
    /\ spent \in Seq(Int) /\ stats.tasks = Len(spent)
    /\ spent # <<>> => stats.memory >= Last(spent)

LEMMA AccountsStep == AccountsInv /\ [AccountsNext]_accountVars => AccountsInv'
<1> SUFFICES ASSUME AccountsInv, [AccountsNext]_accountVars PROVE AccountsInv'
  OBVIOUS
<1>1. CASE UNCHANGED accountVars
  BY <1>1 DEF AccountsInv, accountVars
<1>2. ASSUME NEW limit \in 0..MaxAccounts, NEW d \in Dimensions, register_resource([Nothing EXCEPT ![d] = limit])
      PROVE  AccountsInv'
  <2>1. /\ budget' = [Nothing EXCEPT ![d] = limit] /\ usage' = Nothing /\ stats' = Nothing /\ spent' = <<>>
    BY <1>2 DEF register_resource
  <2>2. Nothing \in [Dimensions -> Nat] /\ Nothing.tasks = 0
    BY DEF Nothing, Dimensions
  <2>3. limit \in Int
    BY SchedulingAssumption
  <2>4. [Nothing EXCEPT ![d] = limit] \in [Dimensions -> Int]
    BY <2>2, <2>3
  <2> QED BY <2>1, <2>2, <2>4 DEF AccountsInv
<1>3. ASSUME NEW cpu \in 0..MaxCost, NEW events \in 0..MaxCost, NEW memory \in -MaxCost..MaxCost,
             account_task(cpu, memory, events)
      PROVE  AccountsInv'
  <2> DEFINE m == stats["memory"] + memory
  <2>1. /\ usage' = Charged(usage, cpu, memory, events) /\ stats' = Charged(stats, cpu, memory, events)
        /\ spent' = Append(spent, memory) /\ budget' = budget
    BY <1>3 DEF account_task
  <2>2. cpu \in Nat /\ events \in Nat /\ memory \in Int
    BY SchedulingAssumption
  <2>3. \A d \in Dimensions : stats[d] \in Nat
    BY DEF AccountsInv
  <2>4. m \in Int /\ m >= memory
    BY <2>2, <2>3 DEF Dimensions
  <2>5. Max({0, m}) \in Nat /\ Max({0, m}) >= m
    BY <2>4, MaxOfTwo
  <2>6. /\ stats'["cpu"] = stats["cpu"] + cpu /\ stats'["memory"] = Max({0, m})
        /\ stats'["events"] = stats["events"] + events /\ stats'["tasks"] = stats["tasks"] + 1
    BY <2>1 DEF Charged, Dimensions
  <2> HIDE DEF m
  <2>7. /\ stats["cpu"] + cpu \in Nat /\ stats["events"] + events \in Nat /\ stats["tasks"] + 1 \in Nat
    BY <2>2, <2>3 DEF Dimensions
  <2>8. \A d \in Dimensions : stats'[d] \in Nat
    BY <2>5, <2>6, <2>7 DEF Dimensions
  <2>9. stats' \in [Dimensions -> Nat]
    BY <2>1, <2>8 DEF Charged
  <2>10. spent' \in Seq(Int) /\ Len(spent') = Len(spent) + 1 /\ Last(spent') = memory
    BY <2>1, <2>2 DEF AccountsInv, Last
  <2>11. stats'["memory"] >= memory
    BY <2>2, <2>4, <2>5, <2>6
  <2> QED BY <2>1, <2>6, <2>9, <2>10, <2>11 DEF AccountsInv
<1> QED BY <1>1, <1>2, <1>3 DEF AccountsNext

LEMMA AccountsInvGives == AccountsInv => AccountsAgree
<1> SUFFICES ASSUME AccountsInv PROVE AccountsAgree
  OBVIOUS
<1>1. stats["memory"] \in Nat /\ budget["memory"] \in Int /\ usage = stats
  BY DEF AccountsInv, Dimensions
<1>2. "MemoryGrowth" \in inspect <=> stats["memory"] > 0 /\ budget["memory"] > 0 /\ stats["memory"] > budget["memory"]
  BY DEF inspect, GrowthThreshold
<1>3. "memory" \in Exceeded(budget, usage) <=> budget["memory"] > 0 /\ stats["memory"] > budget["memory"]
  BY <1>1 DEF Exceeded, Dimensions
<1>4. "MemoryGrowth" \in inspect <=> "memory" \in Exceeded(budget, usage)
  BY <1>1, <1>2, <1>3
<1> QED BY <1>4 DEF AccountsAgree, AccountsInv

-----------------------------------------------------------------------------
(* The executor's lanes. *)

Lane == {"ordered", "parallel", "async"}

Members(s) == {s[i] : i \in 1..Len(s)}

Increasing(s) == \A i, j \in 1..Len(s) : i < j => s[i] < s[j]

LEMMA PushBack ==
    ASSUME NEW s \in Seq(Nat), Increasing(s), NEW x \in Nat, \A y \in Members(s) : y < x
    PROVE  /\ Append(s, x) \in Seq(Nat) /\ Increasing(Append(s, x))
           /\ Members(Append(s, x)) = Members(s) \cup {x}
<1> DEFINE r == Append(s, x)
           n == Len(s)
<1>1. n \in Nat /\ r \in Seq(Nat) /\ Len(r) = n + 1 /\ r[n + 1] = x /\ \A i \in 1..n : r[i] = s[i]
  OBVIOUS
<1> HIDE DEF r
<1>2. \A i \in 1..(n + 1) : i = n + 1 \/ i \in 1..n
  BY <1>1
<1>3. \A i \in 1..n : s[i] \in Members(s) /\ s[i] < x
  BY DEF Members
<1>4. Increasing(r)
  <2>1. \A i, j \in 1..n : i < j => s[i] < s[j]
    BY DEF Increasing
  <2> SUFFICES ASSUME NEW i \in 1..(n + 1), NEW j \in 1..(n + 1), i < j PROVE r[i] < r[j]
    BY <1>1 DEF Increasing
  <2>2. i \in 1..n
    BY <1>1
  <2>3. CASE j = n + 1
    BY <1>1, <1>3, <2>2, <2>3
  <2>4. CASE j \in 1..n
    BY <1>1, <2>1, <2>2, <2>4
  <2> QED BY <1>2, <2>3, <2>4
<1>5. Members(r) = Members(s) \cup {x}
  <2>1. n + 1 \in 1..(n + 1) /\ \A i \in 1..n : i \in 1..(n + 1)
    BY <1>1
  <2> QED BY <1>1, <1>2, <2>1 DEF Members
<1> QED BY <1>1, <1>4, <1>5 DEF r

LEMMA PopFront ==
    ASSUME NEW s \in Seq(Nat), Increasing(s), s # <<>>
    PROVE  /\ Tail(s) \in Seq(Nat) /\ Increasing(Tail(s)) /\ Head(s) \in Members(s) /\ Head(s) \in Nat
           /\ Members(Tail(s)) = Members(s) \ {Head(s)}
           /\ \A y \in Members(Tail(s)) : Head(s) < y
<1> DEFINE r == Tail(s)
           n == Len(s)
<1>1. n \in Nat /\ n >= 1 /\ r \in Seq(Nat) /\ Len(r) = n - 1 /\ Head(s) = s[1] /\ \A i \in 1..(n - 1) : r[i] = s[i + 1]
  OBVIOUS
<1> HIDE DEF r
<1>2. \A i \in 1..(n - 1) : i + 1 \in 1..n /\ 1 < i + 1
  BY <1>1
<1>3. \A i \in 1..n : i = 1 \/ (i - 1 \in 1..(n - 1) /\ (i - 1) + 1 = i)
  BY <1>1
<1>4. 1 \in 1..n
  BY <1>1
<1>5. \A i, j \in 1..n : i < j => s[i] < s[j]
  BY DEF Increasing
<1>6. Increasing(r)
  <2> SUFFICES ASSUME NEW i \in 1..(n - 1), NEW j \in 1..(n - 1), i < j PROVE r[i] < r[j]
    BY <1>1 DEF Increasing
  <2>1. i + 1 < j + 1
    OBVIOUS
  <2> QED BY <1>1, <1>2, <1>5, <2>1
<1>7. \A y \in Members(r) : Head(s) < y
  BY <1>1, <1>2, <1>4, <1>5 DEF Members
<1>8. s[1] \in Nat /\ \A i \in 1..n : s[i] \in Nat
  BY <1>4
<1>9. \A i \in 1..(n - 1) : s[i + 1] # s[1]
  <2> SUFFICES ASSUME NEW i \in 1..(n - 1) PROVE s[i + 1] # s[1]
    OBVIOUS
  <2>1. s[1] < s[i + 1] /\ s[1] \in Nat /\ s[i + 1] \in Nat
    BY <1>2, <1>4, <1>5, <1>8
  <2> QED BY <2>1
<1>10. Members(r) = Members(s) \ {s[1]}
  <2>1. ASSUME NEW i \in 1..(n - 1) PROVE r[i] \in Members(s) \ {s[1]}
    BY <1>1, <1>2, <1>9 DEF Members
  <2>2. ASSUME NEW i \in 1..n, s[i] # s[1] PROVE \E j \in 1..(n - 1) : r[j] = s[i]
    <3>1. i - 1 \in 1..(n - 1) /\ r[i - 1] = s[i]
      BY <1>1, <1>3, <2>2
    <3> QED BY <3>1
  <2>3. Members(r) \subseteq Members(s) \ {s[1]}
    BY <1>1, <2>1 DEF Members
  <2>4. ASSUME NEW y \in Members(s), y # s[1] PROVE y \in Members(r)
    <3>1. PICK i \in 1..n : y = s[i]
      BY DEF Members
    <3>2. PICK j \in 1..(n - 1) : r[j] = s[i]
      BY <2>2, <2>4, <3>1
    <3> QED BY <1>1, <3>1, <3>2 DEF Members
  <2> QED BY <2>3, <2>4
<1> QED BY <1>1, <1>4, <1>6, <1>7, <1>8, <1>10 DEF r, Members

(* Tasks are queued on the lane of their class in the order they came, and *)
(* the ordered lane runs them one by one: finished before running before   *)
(* queued.                                                                 *)
TasksPlaced ==
    /\ class \in Seq(WorkloadClass) /\ lanes \in [Lane -> Seq(Nat)] /\ finished \in Seq(Nat)
    /\ \A l \in Lane : Increasing(lanes[l]) /\ \A t \in Members(lanes[l]) :
         t \in 1..Len(class) /\ lane_for(class[t]) = l /\ t \notin running /\ t \notin Members(finished)
    /\ running \subseteq 1..Len(class) /\ Members(finished) \subseteq 1..Len(class)
    /\ running \cap Members(finished) = {}
    /\ \A i, j \in 1..Len(finished) : finished[i] = finished[j] => i = j

TasksKept ==
    \A t \in 1..Len(class) : \/ t \in orphans \/ t \in running \/ t \in Members(finished)
                             \/ t \in Members(lanes[lane_for(class[t])])

OrderedLane ==
    /\ \A t, u \in running : SharedState(t) /\ SharedState(u) => t = u
    /\ \A t \in Members(finished), u \in running : SharedState(t) /\ SharedState(u) => t < u
    /\ \A t \in Members(finished) \cup running, u \in Members(lanes["ordered"]) : SharedState(t) => t < u
    /\ \A i, j \in 1..Len(finished) :
         i < j /\ SharedState(finished[i]) /\ SharedState(finished[j]) => finished[i] < finished[j]
    /\ IF ordered_dead THEN lanes["ordered"] = <<>> /\ \A t \in running : ~SharedState(t) ELSE orphans = {}

ExecutorInv == TasksPlaced /\ TasksKept /\ OrderedLane

LEMMA LaneOfShared ==
    ASSUME NEW c \in WorkloadClass
    PROVE  /\ lane_for(c) \in Lane
           /\ lane_for(c) = "ordered" <=> c \in {"MainThread", "OrderedGameplay", "ResourceLocal", "EntityProcessing"}
BY DEF WorkloadClass, lane_for, Lane

LEMMA SubmitKeeps == ASSUME ExecutorInv, NEW c \in WorkloadClass, submit(c) PROVE ExecutorInv'
<1> DEFINE n == Len(class)
           l == lane_for(c)
<1>1. /\ class \in Seq(WorkloadClass) /\ lanes \in [Lane -> Seq(Nat)] /\ finished \in Seq(Nat) /\ n \in Nat
      /\ running \subseteq 1..n /\ Members(finished) \subseteq 1..n /\ l \in Lane
      /\ \A k \in Lane : lanes[k] \in Seq(Nat) /\ Increasing(lanes[k]) /\ Members(lanes[k]) \subseteq 1..n
  BY LaneOfShared DEF ExecutorInv, TasksPlaced
<1>2. /\ class' = Append(class, c) /\ lanes' = [lanes EXCEPT ![l] = Append(lanes[l], n + 1)]
      /\ ~(l = "ordered" /\ ordered_dead) /\ UNCHANGED <<running, finished, ordered_dead, orphans>>
  BY DEF submit
<1>3. /\ class' \in Seq(WorkloadClass) /\ Len(class') = n + 1 /\ class'[n + 1] = c
      /\ \A t \in 1..n : class'[t] = class[t]
  BY <1>1, <1>2
<1>4. n + 1 \in Nat /\ n + 1 \notin 1..n /\ n + 1 \in 1..(n + 1)
      /\ \A t \in 1..n : t < n + 1 /\ t \in 1..(n + 1)
  BY <1>1
<1>5. \A t \in 1..(n + 1) : t \in 1..n \/ t = n + 1
  BY <1>1
<1>6. /\ lanes' \in [Lane -> Seq(Nat)] /\ Increasing(lanes'[l]) /\ Members(lanes'[l]) = Members(lanes[l]) \cup {n + 1}
      /\ \A k \in Lane : k # l => lanes'[k] = lanes[k]
  <2>1. \A y \in Members(lanes[l]) : y < n + 1
    BY <1>1, <1>4
  <2>2. /\ Append(lanes[l], n + 1) \in Seq(Nat) /\ Increasing(Append(lanes[l], n + 1))
        /\ Members(Append(lanes[l], n + 1)) = Members(lanes[l]) \cup {n + 1}
    BY <1>1, <1>4, <2>1, PushBack
  <2> QED BY <1>1, <1>2, <2>2
<1> HIDE DEF n, l
<1>7. \A t \in 1..n : SharedState(t)' <=> SharedState(t)
  BY <1>3 DEF SharedState
<1>8. TasksPlaced'
  <2>1. ASSUME NEW k \in Lane
        PROVE  Increasing(lanes'[k]) /\ \A t \in Members(lanes'[k]) :
                 t \in 1..(n + 1) /\ lane_for(class'[t]) = k /\ t \notin running /\ t \notin Members(finished)
    <3>1. \A t \in Members(lanes[k]) :
            t \in 1..n /\ lane_for(class[t]) = k /\ t \notin running /\ t \notin Members(finished)
      BY DEF ExecutorInv, TasksPlaced, n
    <3>2. \A t \in Members(lanes[k]) :
            t \in 1..(n + 1) /\ lane_for(class'[t]) = k /\ t \notin running /\ t \notin Members(finished)
      BY <1>3, <1>4, <3>1
    <3>3. CASE k = l
      <4>1. n + 1 \notin running /\ n + 1 \notin Members(finished) /\ lane_for(class'[n + 1]) = k
        BY <1>1, <1>3, <1>4, <3>3 DEF l
      <4> QED BY <1>4, <1>6, <3>2, <3>3, <4>1
    <3>4. CASE k # l
      BY <1>1, <1>6, <3>2, <3>4
    <3> QED BY <3>3, <3>4
  <2>2. running \subseteq 1..(n + 1) /\ Members(finished) \subseteq 1..(n + 1)
    BY <1>1, <1>4
  <2> QED BY <1>2, <1>3, <1>6, <2>1, <2>2 DEF ExecutorInv, TasksPlaced
<1>9. TasksKept'
  <2> SUFFICES ASSUME NEW t \in 1..(n + 1)
               PROVE  \/ t \in orphans \/ t \in running \/ t \in Members(finished)
                      \/ t \in Members(lanes'[lane_for(class'[t])])
    BY <1>2, <1>3 DEF TasksKept
  <2>1. CASE t = n + 1
    BY <1>3, <1>6, <2>1 DEF l
  <2>2. CASE t \in 1..n
    <3>1. lane_for(class[t]) \in Lane
      BY <1>1, <2>2, LaneOfShared DEF n
    <3>2. Members(lanes[lane_for(class[t])]) \subseteq Members(lanes'[lane_for(class[t])])
      BY <1>6, <3>1
    <3> QED BY <1>3, <2>2, <3>2 DEF ExecutorInv, TasksKept, n
  <2> QED BY <1>5, <2>1, <2>2
<1>10. OrderedLane'
  <2>1. \A t \in Members(finished) \cup running : t \in 1..n
    BY <1>1
  <2>2. \A t \in Members(finished) \cup running, u \in Members(lanes'["ordered"]) : SharedState(t) => t < u
    <3>1. \A t \in Members(finished) \cup running, u \in Members(lanes["ordered"]) : SharedState(t) => t < u
      BY DEF ExecutorInv, OrderedLane
    <3>2. \A u \in Members(lanes'["ordered"]) : u \in Members(lanes["ordered"]) \/ u = n + 1
      BY <1>6 DEF Lane
    <3> QED BY <1>4, <2>1, <3>1, <3>2
  <2>3. IF ordered_dead THEN lanes'["ordered"] = <<>> /\ \A t \in running : ~SharedState(t)' ELSE orphans = {}
    <3>1. ordered_dead => lanes'["ordered"] = lanes["ordered"]
      BY <1>2, <1>6 DEF Lane
    <3> QED BY <1>7, <2>1, <3>1 DEF ExecutorInv, OrderedLane
  <2>4. \A i \in 1..Len(finished) : finished[i] \in 1..n
    BY <1>1 DEF Members
  <2> QED BY <1>2, <1>7, <2>1, <2>2, <2>3, <2>4 DEF ExecutorInv, OrderedLane
<1> QED BY <1>8, <1>9, <1>10 DEF ExecutorInv

LEMMA BeginKeeps == ASSUME ExecutorInv, NEW l \in Lane, begin_task(l) PROVE ExecutorInv'
<1> DEFINE h == Head(lanes[l])
           n == Len(class)
<1>1. /\ class \in Seq(WorkloadClass) /\ lanes \in [Lane -> Seq(Nat)] /\ finished \in Seq(Nat)
      /\ lanes[l] \in Seq(Nat) /\ Increasing(lanes[l])
  BY DEF ExecutorInv, TasksPlaced
<1>2. /\ lanes[l] # <<>> /\ running' = running \cup {h} /\ lanes' = [lanes EXCEPT ![l] = Tail(lanes[l])]
      /\ l = "ordered" => ~ordered_dead /\ \A t \in running : lane_for(class[t]) # "ordered"
      /\ UNCHANGED <<class, finished, ordered_dead, orphans>>
  BY DEF begin_task
<1>3. /\ Tail(lanes[l]) \in Seq(Nat) /\ Increasing(Tail(lanes[l])) /\ h \in Members(lanes[l])
      /\ Members(Tail(lanes[l])) = Members(lanes[l]) \ {h} /\ \A y \in Members(Tail(lanes[l])) : h < y
  BY <1>1, <1>2, PopFront
<1>4. /\ lanes' \in [Lane -> Seq(Nat)] /\ Increasing(lanes'[l]) /\ Members(lanes'[l]) = Members(lanes[l]) \ {h}
      /\ \A y \in Members(lanes'[l]) : h < y
      /\ \A k \in Lane : k # l => lanes'[k] = lanes[k]
  BY <1>1, <1>2, <1>3
<1> HIDE DEF h
<1>5. \A k \in Lane : Increasing(lanes[k]) /\ \A t \in Members(lanes[k]) :
         t \in 1..n /\ lane_for(class[t]) = k /\ t \notin running /\ t \notin Members(finished)
  BY DEF ExecutorInv, TasksPlaced
<1>6. h \in 1..n /\ lane_for(class[h]) = l /\ h \notin running /\ h \notin Members(finished)
  BY <1>3, <1>5
<1>7. \A k \in Lane : k # l => h \notin Members(lanes[k])
  BY <1>5, <1>6
<1>8. TasksPlaced'
  <2>1. ASSUME NEW k \in Lane
        PROVE  Increasing(lanes'[k]) /\ \A t \in Members(lanes'[k]) :
                 t \in 1..n /\ lane_for(class[t]) = k /\ t \notin running' /\ t \notin Members(finished)
    <3>1. CASE k = l
      BY <1>2, <1>4, <1>5, <3>1
    <3>2. CASE k # l
      BY <1>2, <1>4, <1>5, <1>7, <3>2
    <3> QED BY <3>1, <3>2
  <2>2. running' \subseteq 1..n /\ running' \cap Members(finished) = {}
    BY <1>2, <1>6 DEF ExecutorInv, TasksPlaced
  <2> QED BY <1>2, <1>4, <2>1, <2>2 DEF ExecutorInv, TasksPlaced
<1>9. TasksKept'
  <2> SUFFICES ASSUME NEW t \in 1..n
               PROVE  t \in orphans \/ t \in running' \/ t \in Members(finished) \/ t \in Members(lanes'[lane_for(class[t])])
    BY <1>2 DEF TasksKept
  <2>1. lane_for(class[t]) \in Lane
    BY <1>1, LaneOfShared
  <2>2. t = h \/ t \in Members(lanes[lane_for(class[t])]) => t \in Members(lanes'[lane_for(class[t])]) \/ t = h
    BY <1>4, <2>1
  <2>3. t \in orphans \/ t \in running \/ t \in Members(finished) \/ t \in Members(lanes[lane_for(class[t])])
    BY DEF ExecutorInv, TasksKept
  <2> QED BY <1>2, <2>2, <2>3
<1>10. \A t : SharedState(t)' <=> SharedState(t)
  BY <1>2 DEF SharedState
<1>11. \A t \in 1..n : SharedState(t) <=> lane_for(class[t]) = "ordered"
  BY <1>1, LaneOfShared DEF SharedState
<1>12. running \subseteq 1..n
  BY DEF ExecutorInv, TasksPlaced
<1>13. CASE l = "ordered"
  <2>1. \A t \in running : ~SharedState(t)
    BY <1>2, <1>11, <1>12, <1>13
  <2>2. \A t, u \in running' : SharedState(t) /\ SharedState(u) => t = u
    BY <1>2, <2>1
  <2>3. \A t \in Members(finished), u \in running' : SharedState(t) /\ SharedState(u) => t < u
    BY <1>2, <1>3, <1>13 DEF ExecutorInv, OrderedLane
  <2>4. \A t \in Members(finished) \cup running', u \in Members(lanes'["ordered"]) : SharedState(t) => t < u
    BY <1>2, <1>4, <1>13, <2>1 DEF ExecutorInv, OrderedLane
  <2>5. OrderedLane'
    BY <1>2, <1>10, <1>13, <2>2, <2>3, <2>4 DEF ExecutorInv, OrderedLane
  <2> QED BY <1>8, <1>9, <2>5 DEF ExecutorInv
<1>14. CASE l # "ordered"
  <2>1. ~SharedState(h) /\ lanes'["ordered"] = lanes["ordered"]
    BY <1>4, <1>6, <1>11, <1>14 DEF Lane
  <2>2. OrderedLane'
    BY <1>2, <1>10, <2>1 DEF ExecutorInv, OrderedLane
  <2> QED BY <1>8, <1>9, <2>2 DEF ExecutorInv
<1> QED BY <1>13, <1>14

(* A task ends, and with a panic its lane and what was queued on it. *)
LEMMA EndKeeps ==
    ASSUME ExecutorInv, NEW t \in running, run_task(t) \/ panic_ordered(t) PROVE ExecutorInv'
<1> DEFINE n == Len(class)
           m == Len(finished)
<1>1. /\ class \in Seq(WorkloadClass) /\ lanes \in [Lane -> Seq(Nat)] /\ finished \in Seq(Nat) /\ m \in Nat
      /\ t \in 1..n /\ t \in Nat /\ t \notin Members(finished) /\ running \subseteq 1..n
      /\ Members(finished) \subseteq 1..n /\ running \cap Members(finished) = {}
  BY DEF ExecutorInv, TasksPlaced
<1>2. running' = running \ {t} /\ finished' = Append(finished, t) /\ class' = class
  BY DEF run_task, panic_ordered
<1>3. finished' \in Seq(Nat) /\ Len(finished') = m + 1 /\ finished'[m + 1] = t /\ \A i \in 1..m : finished'[i] = finished[i]
  BY <1>1, <1>2
<1>4. \A i \in 1..(m + 1) : i \in 1..m \/ i = m + 1
  BY <1>1
<1>5. m + 1 \in 1..(m + 1) /\ (\A i \in 1..m : i \in 1..(m + 1) /\ i < m + 1) /\ ~(m + 1 < m + 1)
  BY <1>1
<1> HIDE DEF m
<1>6. Members(finished') = Members(finished) \cup {t}
  BY <1>3, <1>4, <1>5 DEF Members, m
<1>7. \A i \in 1..m : finished[i] \in Members(finished) /\ finished[i] # t
  BY <1>1 DEF Members, m
<1>8. \A i, j \in 1..(m + 1) : finished'[i] = finished'[j] => i = j
  <2>1. \A i, j \in 1..m : finished[i] = finished[j] => i = j
    BY DEF ExecutorInv, TasksPlaced, m
  <2> QED BY <1>3, <1>4, <1>7, <2>1
<1>9. \A u : SharedState(u)' <=> SharedState(u)
  BY <1>2 DEF SharedState
<1>10. \A u \in 1..n : SharedState(u) <=> lane_for(class[u]) = "ordered"
  BY <1>1, LaneOfShared DEF SharedState
<1>11. /\ lanes' \in [Lane -> Seq(Nat)] /\ \A k \in Lane : k # "ordered" => lanes'[k] = lanes[k]
       /\ lanes'["ordered"] = lanes["ordered"] \/ lanes'["ordered"] = <<>>
  <2>1. CASE run_task(t)
    BY <1>1, <2>1 DEF run_task
  <2>2. CASE panic_ordered(t)
    <3>1. lanes' = [lanes EXCEPT !["ordered"] = <<>>] /\ "ordered" \in Lane /\ <<>> \in Seq(Nat)
      BY <2>2 DEF panic_ordered, Lane
    <3> QED BY <1>1, <3>1
  <2> QED BY <2>1, <2>2
<1>12. Increasing(<<>>) /\ Members(<<>>) = {}
  BY DEF Increasing, Members
<1>13. \A k \in Lane : Increasing(lanes'[k]) /\ Members(lanes'[k]) \subseteq Members(lanes[k])
  BY <1>11, <1>12 DEF ExecutorInv, TasksPlaced
<1>14. TasksPlaced'
  <2>1. \A k \in Lane : \A u \in Members(lanes'[k]) :
           u \in 1..n /\ lane_for(class[u]) = k /\ u \notin running' /\ u \notin Members(finished')
    <3>1. \A k \in Lane : \A u \in Members(lanes[k]) :
            u \in 1..n /\ lane_for(class[u]) = k /\ u \notin running /\ u \notin Members(finished)
      BY DEF ExecutorInv, TasksPlaced
    <3> QED BY <1>2, <1>6, <1>13, <3>1
  <2>2. running' \subseteq 1..n /\ Members(finished') \subseteq 1..n /\ running' \cap Members(finished') = {}
    BY <1>1, <1>2, <1>6
  <2> QED BY <1>1, <1>2, <1>3, <1>8, <1>11, <1>13, <2>1, <2>2 DEF TasksPlaced
<1>15. \A i, j \in 1..(m + 1) :
          i < j /\ SharedState(finished'[i]) /\ SharedState(finished'[j]) => finished'[i] < finished'[j]
  <2> SUFFICES ASSUME NEW i \in 1..(m + 1), NEW j \in 1..(m + 1), i < j,
                      SharedState(finished'[i]), SharedState(finished'[j])
               PROVE  finished'[i] < finished'[j]
    OBVIOUS
  <2>1. i \in 1..m
    BY <1>1, <1>4 DEF m
  <2>2. CASE j = m + 1
    <3>1. finished[i] \in Members(finished) /\ SharedState(finished[i]) /\ SharedState(t)
      BY <1>3, <1>7, <2>1, <2>2
    <3>2. finished[i] < t
      BY <3>1 DEF ExecutorInv, OrderedLane
    <3> QED BY <1>3, <2>1, <2>2, <3>2
  <2>3. CASE j \in 1..m
    BY <1>3, <2>1, <2>3 DEF ExecutorInv, OrderedLane, m
  <2> QED BY <1>4, <2>2, <2>3
<1>16. \A u \in Members(finished'), v \in running' : SharedState(u) /\ SharedState(v) => u < v
  BY <1>2, <1>6 DEF ExecutorInv, OrderedLane
<1>17. \A u \in Members(finished') \cup running', v \in Members(lanes'["ordered"]) : SharedState(u) => u < v
  BY <1>2, <1>6, <1>13 DEF ExecutorInv, OrderedLane, Lane
<1>18. \A u, v \in running' : SharedState(u) /\ SharedState(v) => u = v
  BY <1>2 DEF ExecutorInv, OrderedLane
<1>19. CASE run_task(t)
  <2>1. UNCHANGED <<lanes, ordered_dead, orphans>>
    BY <1>19 DEF run_task
  <2>2. TasksKept'
    BY <1>2, <1>6, <2>1 DEF ExecutorInv, TasksKept
  <2>3. OrderedLane'
    BY <1>2, <1>3, <1>9, <1>15, <1>16, <1>17, <1>18, <2>1 DEF ExecutorInv, OrderedLane
  <2> QED BY <1>14, <2>2, <2>3 DEF ExecutorInv
<1>20. CASE panic_ordered(t)
  <2>1. /\ ordered_dead' = TRUE /\ orphans' = ToSet(lanes["ordered"]) /\ lanes'["ordered"] = <<>>
        /\ lane_for(class[t]) = "ordered"
    BY <1>1, <1>20 DEF panic_ordered, Lane
  <2>2. SharedState(t)
    BY <1>1, <1>10, <2>1
  <2>3. ~ordered_dead /\ orphans = {}
    BY <2>2 DEF ExecutorInv, OrderedLane
  <2>4. orphans' = Members(lanes["ordered"])
    <3>1. DOMAIN lanes["ordered"] = 1..Len(lanes["ordered"])
      BY <1>1 DEF Lane
    <3> QED BY <2>1, <3>1 DEF ToSet, Members
  <2>5. \A u \in running' : ~SharedState(u)
    BY <1>2, <2>2 DEF ExecutorInv, OrderedLane
  <2>6. TasksKept'
    <3> SUFFICES ASSUME NEW u \in 1..n
                 PROVE  u \in orphans' \/ u \in running' \/ u \in Members(finished') \/ u \in Members(lanes'[lane_for(class[u])])
      BY <1>2 DEF TasksKept
    <3>1. lane_for(class[u]) \in Lane
      BY <1>1, LaneOfShared
    <3>2. u \in running \/ u \in Members(finished) \/ u \in Members(lanes[lane_for(class[u])])
      BY <2>3 DEF ExecutorInv, TasksKept
    <3> QED BY <1>2, <1>6, <1>11, <2>4, <3>1, <3>2
  <2>7. OrderedLane'
    BY <1>2, <1>3, <1>9, <1>15, <1>16, <1>17, <1>18, <2>1, <2>5 DEF OrderedLane
  <2> QED BY <1>14, <2>6, <2>7 DEF ExecutorInv
<1> QED BY <1>19, <1>20

LEMMA ExecutorStep == ExecutorInv /\ [ExecutorNext]_executorVars => ExecutorInv'
<1> SUFFICES ASSUME ExecutorInv, [ExecutorNext]_executorVars PROVE ExecutorInv'
  OBVIOUS
<1>1. CASE UNCHANGED executorVars
  BY <1>1 DEF ExecutorInv, TasksPlaced, TasksKept, OrderedLane, SharedState, executorVars
<1>2. ASSUME NEW c \in WorkloadClass, submit(c) PROVE ExecutorInv'
  BY <1>2, SubmitKeeps
<1>3. ASSUME NEW l \in DOMAIN lanes, begin_task(l) PROVE ExecutorInv'
  <2>1. l \in Lane
    BY DEF ExecutorInv, TasksPlaced
  <2> QED BY <1>3, <2>1, BeginKeeps
<1>4. ASSUME NEW t \in running, run_task(t) \/ panic_ordered(t) PROVE ExecutorInv'
  BY <1>4, EndKeeps
<1> QED BY <1>1, <1>2, <1>3, <1>4 DEF ExecutorNext

LEMMA ExecutorInvGives == ExecutorInv => LanesKeepOrder
<1> SUFFICES ASSUME ExecutorInv PROVE LanesKeepOrder
  OBVIOUS
<1>1. DOMAIN finished = 1..Len(finished) /\ DOMAIN class = 1..Len(class) /\ DOMAIN lanes = Lane
  BY DEF ExecutorInv, TasksPlaced
<1>2. \A s, x : Contains(s, x) <=> x \in Members(s)
  BY DEF Contains, Members
<1>3. ASSUME NEW t \in DOMAIN class \ orphans
      PROVE  Cardinality({l \in DOMAIN lanes : Contains(lanes[l], t)})
               + (IF t \in running THEN 1 ELSE 0) + (IF Contains(finished, t) THEN 1 ELSE 0) = 1
  <2> DEFINE own == lane_for(class[t])
             queued == {l \in DOMAIN lanes : Contains(lanes[l], t)}
  <2>1. own \in Lane
    BY <1>1, LaneOfShared DEF ExecutorInv, TasksPlaced
  <2>2. \A l \in Lane : t \in Members(lanes[l]) => l = own /\ t \notin running /\ t \notin Members(finished)
    BY DEF ExecutorInv, TasksPlaced
  <2>3. t \in running \/ t \in Members(finished) \/ t \in Members(lanes[own])
    BY <1>1 DEF ExecutorInv, TasksKept
  <2>4. ~(t \in running /\ t \in Members(finished))
    BY DEF ExecutorInv, TasksPlaced
  <2> HIDE DEF own
  <2>5. CASE t \in Members(lanes[own])
    <3>1. queued = {own}
      BY <1>1, <1>2, <2>1, <2>2, <2>5
    <3>2. Cardinality(queued) = 1
      BY <3>1, FS_Singleton
    <3> HIDE DEF queued
    <3>3. t \notin running /\ ~Contains(finished, t)
      BY <1>2, <2>1, <2>2, <2>5
    <3> QED BY <3>2, <3>3 DEF queued
  <2>6. CASE t \notin Members(lanes[own])
    <3>1. queued = {}
      BY <1>1, <1>2, <2>2, <2>6
    <3>2. Cardinality(queued) = 0
      BY <3>1, FS_EmptySet
    <3> HIDE DEF queued
    <3>3. CASE t \in running
      <4>1. ~Contains(finished, t)
        BY <1>2, <2>4, <3>3
      <4> QED BY <3>2, <3>3, <4>1 DEF queued
    <3>4. CASE t \notin running
      <4>1. Contains(finished, t)
        BY <1>2, <2>3, <2>6, <3>4
      <4> QED BY <3>2, <3>4, <4>1 DEF queued
    <3> QED BY <3>3, <3>4
  <2> QED BY <2>5, <2>6
<1>4. IsInjective(finished)
  BY <1>1 DEF IsInjective, ExecutorInv, TasksPlaced
<1> QED BY <1>1, <1>3, <1>4 DEF LanesKeepOrder, ExecutorInv, OrderedLane

-----------------------------------------------------------------------------
(* The event bus. *)

Handler == [id : Nat, resource : Scripts, priority : 0..2]

BusInv ==
    /\ made \in Nat /\ handlers_of \in [Events -> Seq(Handler)] /\ calls \in Seq(Handler) \cup {Idle}
    /\ \A e \in Events : Ranked(handlers_of[e]) /\ \A i \in 1..Len(handlers_of[e]) :
         handlers_of[e][i].id <= made /\ (Protected(e) => handlers_of[e][i].resource \in CoreScripts)
    /\ calls # Idle => Ranked(calls)

(* What holds of every pair of a list in order holds of every pair of what *)
(* is left of it. *)
LEMMA RetainRanked ==
    ASSUME NEW s \in Seq(Handler), Ranked(s), NEW resource, NEW r \in HandlersOfOthers(s, resource)
    PROVE  /\ r \in Seq(Handler) /\ Ranked(r)
           /\ \A i \in 1..Len(r) : \E j \in 1..Len(s) : r[i] = s[j]
<1> DEFINE kept == {i \in DOMAIN s : s[i].resource # resource}
           n == Cardinality(kept)
<1>1. PICK f \in InOrder(kept) : r = [k \in 1..n |-> s[f[k]]]
  BY DEF HandlersOfOthers
<1>2. DOMAIN s = 1..Len(s) /\ kept \subseteq 1..Len(s) /\ IsFiniteSet(1..Len(s))
  BY FS_Interval
<1>3. n \in Nat
  BY <1>2, FS_Subset, FS_CardinalityType
<1> HIDE DEF n, kept
<1>4. f \in [1..n -> kept] /\ \A a, b \in 1..n : a < b => f[a] < f[b]
  BY <1>1 DEF InOrder, n
<1>5. \A k \in 1..n : f[k] \in 1..Len(s) /\ r[k] = s[f[k]] /\ s[f[k]] \in Handler
  <2>1. \A i \in 1..Len(s) : s[i] \in Handler
    OBVIOUS
  <2>2. \A k \in 1..n : f[k] \in 1..Len(s)
    BY <1>2, <1>4
  <2>3. \A k \in 1..n : r[k] = s[f[k]]
    BY <1>1
  <2> QED BY <2>1, <2>2, <2>3
<1>6. r \in Seq(Handler) /\ Len(r) = n /\ DOMAIN r = 1..n
  <2>1. r \in [1..n -> Handler]
    BY <1>1, <1>5
  <2> QED BY <1>3, <2>1
<1>7. Ranked(r)
  <2> SUFFICES ASSUME NEW i \in 1..n, NEW j \in 1..n, i < j
               PROVE  r[i].priority > r[j].priority \/ (r[i].priority = r[j].priority /\ r[i].id < r[j].id)
    BY <1>6 DEF Ranked
  <2>1. f[i] \in DOMAIN s /\ f[j] \in DOMAIN s /\ f[i] < f[j]
    BY <1>2, <1>4, <1>5
  <2>2. \/ s[f[i]].priority > s[f[j]].priority
        \/ s[f[i]].priority = s[f[j]].priority /\ s[f[i]].id < s[f[j]].id
    BY <2>1 DEF Ranked
  <2> QED BY <1>5, <2>2
<1> QED BY <1>5, <1>6, <1>7

(* A new handler goes behind its equals. *)
LEMMA SortRanked ==
    ASSUME NEW s \in Seq(Handler), Ranked(s), NEW h \in Handler, \A i \in 1..Len(s) : s[i].id < h.id,
           NEW r \in ByPriority(s, h)
    PROVE  /\ r \in Seq(Handler) /\ Ranked(r)
           /\ \A i \in 1..Len(r) : r[i] = h \/ \E j \in 1..Len(s) : r[i] = s[j]
<1> DEFINE l == Len(s)
<1>0. l \in Nat /\ DOMAIN s = 1..l
  OBVIOUS
<1>1. PICK n \in 0..l :
        /\ \A i \in 1..n : s[i].priority >= h.priority
        /\ \A i \in (n + 1)..l : s[i].priority < h.priority
        /\ r = [i \in 1..(l + 1) |-> IF i <= n THEN s[i] ELSE IF i = n + 1 THEN h ELSE s[i - 1]]
  BY DEF ByPriority
<1> DEFINE from(i) == IF i <= n THEN i ELSE i - 1
<1>2. \A i \in 1..(l + 1) : i # n + 1 => from(i) \in 1..l /\ r[i] = s[from(i)]
  <2> SUFFICES ASSUME NEW i \in 1..(l + 1), i # n + 1 PROVE from(i) \in 1..l /\ r[i] = s[from(i)]
    OBVIOUS
  <2>1. CASE i <= n
    BY <1>0, <1>1, <2>1
  <2>2. CASE ~(i <= n)
    BY <1>0, <1>1, <2>2
  <2> QED BY <2>1, <2>2
<1>3. n + 1 \in 1..(l + 1) /\ r[n + 1] = h
  BY <1>0, <1>1
<1>4. \A i \in 1..l : s[i] \in Handler
  OBVIOUS
<1>5. \A i \in 1..(l + 1) : r[i] \in Handler
  BY <1>2, <1>3, <1>4
<1>6. r \in Seq(Handler) /\ Len(r) = l + 1 /\ DOMAIN r = 1..(l + 1)
  <2>1. r \in [1..(l + 1) -> Handler]
    BY <1>1, <1>5
  <2> QED BY <1>0, <2>1
<1>7. Ranked(r)
  <2> SUFFICES ASSUME NEW i \in 1..(l + 1), NEW j \in 1..(l + 1), i < j
               PROVE  r[i].priority > r[j].priority \/ (r[i].priority = r[j].priority /\ r[i].id < r[j].id)
    BY <1>6 DEF Ranked
  <2>1. h.priority \in Int /\ h.id \in Int /\ \A k \in 1..l : s[k].priority \in Int /\ s[k].id \in Int
    BY <1>4 DEF Handler
  <2>2. CASE i # n + 1 /\ j # n + 1
    <3>1. from(i) < from(j)
      BY <1>0, <2>2
    <3>2. from(i) \in DOMAIN s /\ from(j) \in DOMAIN s
      BY <1>0, <1>2, <2>2
    <3> HIDE DEF from
    <3>3. \/ s[from(i)].priority > s[from(j)].priority
          \/ s[from(i)].priority = s[from(j)].priority /\ s[from(i)].id < s[from(j)].id
      BY <3>1, <3>2 DEF Ranked
    <3> QED BY <1>2, <2>2, <3>3
  <2>3. CASE i = n + 1
    <3>1. j # n + 1 /\ from(j) \in (n + 1)..l
      BY <1>0, <2>3
    <3>2. r[j] = s[from(j)] /\ s[from(j)].priority < h.priority /\ from(j) \in 1..l
      BY <1>1, <1>2, <3>1
    <3> HIDE DEF from
    <3> QED BY <1>3, <2>1, <2>3, <3>2
  <2>4. CASE j = n + 1
    <3>1. i # n + 1 /\ from(i) = i /\ i \in 1..n
      BY <1>0, <2>4
    <3>2. r[i] = s[i] /\ i \in 1..l /\ s[i].priority >= h.priority /\ s[i].id < h.id
      BY <1>1, <1>2, <3>1
    <3> HIDE DEF from
    <3> QED BY <1>3, <2>1, <2>4, <3>2
  <2> QED BY <2>2, <2>3, <2>4
<1> HIDE DEF from
<1> QED BY <1>2, <1>3, <1>6, <1>7

LEMMA BusStep == BusInv /\ [BusNext]_busVars => BusInv'
<1> SUFFICES ASSUME BusInv, [BusNext]_busVars PROVE BusInv'
  OBVIOUS
<1>1. /\ made \in Nat /\ handlers_of \in [Events -> Seq(Handler)] /\ calls \in Seq(Handler) \cup {Idle}
      /\ \A e \in Events : handlers_of[e] \in Seq(Handler) /\ Ranked(handlers_of[e])
      /\ \A e \in Events : \A i \in 1..Len(handlers_of[e]) :
           handlers_of[e][i].id <= made /\ (Protected(e) => handlers_of[e][i].resource \in CoreScripts)
      /\ calls # Idle => Ranked(calls)
  BY DEF BusInv
<1>2. CASE UNCHANGED busVars
  BY <1>2 DEF BusInv, busVars
<1>3. ASSUME NEW e \in Events, dispatch(e) PROVE BusInv'
  BY <1>1, <1>3 DEF dispatch, BusInv
<1>4. ASSUME NEW e \in Events, NEW resource \in Scripts, NEW p \in 0..2, register_handler(e, resource, p) PROVE BusInv'
  <2> DEFINE h == [id |-> made + 1, resource |-> resource, priority |-> p]
  <2>1. PICK r \in ByPriority(handlers_of[e], h) : handlers_of' = [handlers_of EXCEPT ![e] = r]
    BY <1>4 DEF register_handler
  <2>2. made' = made + 1 /\ calls' = calls /\ (Protected(e) => resource \in CoreScripts)
    BY <1>4 DEF register_handler
  <2>3. h \in Handler /\ h.id = made + 1 /\ h.resource = resource
    BY <1>1 DEF Handler
  <2> HIDE DEF h
  <2>4. \A x \in Events : \A i \in 1..Len(handlers_of[x]) : handlers_of[x][i].id \in Nat
    <3> SUFFICES ASSUME NEW x \in Events, NEW i \in 1..Len(handlers_of[x]) PROVE handlers_of[x][i].id \in Nat
      OBVIOUS
    <3>1. handlers_of[x] \in Seq(Handler)
      BY <1>1
    <3>2. handlers_of[x][i] \in Handler
      BY <3>1
    <3> QED BY <3>2 DEF Handler
  <2>5. \A i \in 1..Len(handlers_of[e]) : handlers_of[e][i].id < h.id
    BY <1>1, <2>3, <2>4
  <2>6. /\ r \in Seq(Handler) /\ Ranked(r)
        /\ \A i \in 1..Len(r) : r[i] = h \/ \E j \in 1..Len(handlers_of[e]) : r[i] = handlers_of[e][j]
    BY <1>1, <2>1, <2>3, <2>5, SortRanked
  <2>7. \A x \in Events : \A i \in 1..Len(handlers_of[x]) : handlers_of[x][i].id <= made'
    BY <1>1, <2>2, <2>4
  <2>8. \A i \in 1..Len(r) : r[i].id <= made' /\ (Protected(e) => r[i].resource \in CoreScripts)
    BY <1>1, <2>2, <2>3, <2>6, <2>7
  <2>9. handlers_of' \in [Events -> Seq(Handler)] /\ handlers_of'[e] = r /\ \A x \in Events : x # e => handlers_of'[x] = handlers_of[x]
    BY <1>1, <2>1, <2>6
  <2>10. ASSUME NEW x \in Events
         PROVE  Ranked(handlers_of'[x]) /\ \A i \in 1..Len(handlers_of'[x]) :
                  handlers_of'[x][i].id <= made' /\ (Protected(x) => handlers_of'[x][i].resource \in CoreScripts)
    BY <1>1, <2>6, <2>7, <2>8, <2>9
  <2> QED BY <1>1, <2>2, <2>9, <2>10 DEF BusInv
<1>5. ASSUME NEW ok \in BOOLEAN, call_handler(ok) PROVE BusInv'
  <2>1. calls # Idle /\ calls \in Seq(Handler) /\ Ranked(calls) /\ UNCHANGED <<handlers_of, made>>
    BY <1>1, <1>5 DEF call_handler
  <2>2. CASE calls' = Idle
    BY <2>1, <2>2 DEF BusInv
  <2>3. CASE calls # <<>> /\ calls' = Tail(calls)
    <3>1. /\ Tail(calls) \in Seq(Handler) /\ Len(Tail(calls)) = Len(calls) - 1
          /\ \A i \in 1..(Len(calls) - 1) : Tail(calls)[i] = calls[i + 1]
      BY <2>1, <2>3
    <3>2. DOMAIN Tail(calls) = 1..(Len(calls) - 1) /\ DOMAIN calls = 1..Len(calls) /\ Len(calls) \in Nat
      BY <2>1, <3>1
    <3>3. Ranked(calls')
      <4> SUFFICES ASSUME NEW i \in 1..(Len(calls) - 1), NEW j \in 1..(Len(calls) - 1), i < j
                   PROVE  \/ calls'[i].priority > calls'[j].priority
                          \/ calls'[i].priority = calls'[j].priority /\ calls'[i].id < calls'[j].id
        BY <2>3, <3>2 DEF Ranked
      <4>1. i + 1 \in 1..Len(calls) /\ j + 1 \in 1..Len(calls) /\ i + 1 < j + 1
        BY <3>2
      <4> QED BY <2>1, <2>3, <3>1, <3>2, <4>1 DEF Ranked
    <3> QED BY <2>1, <2>3, <3>1, <3>3 DEF BusInv
  <2> QED BY <1>5, <2>2, <2>3 DEF call_handler
<1>6. ASSUME NEW resource \in Scripts, unregister_resource(resource) PROVE BusInv'
  <2>1. /\ DOMAIN handlers_of' = Events /\ handlers_of' = [e \in Events |-> handlers_of'[e]]
        /\ \A e \in Events : handlers_of'[e] \in HandlersOfOthers(handlers_of[e], resource)
        /\ UNCHANGED <<made, calls>>
    BY <1>6 DEF unregister_resource
  <2>2. \A e \in Events :
           /\ handlers_of'[e] \in Seq(Handler) /\ Ranked(handlers_of'[e])
           /\ \A i \in 1..Len(handlers_of'[e]) : \E j \in 1..Len(handlers_of[e]) : handlers_of'[e][i] = handlers_of[e][j]
    BY <1>1, <2>1, RetainRanked
  <2>3. handlers_of' \in [Events -> Seq(Handler)]
    BY <2>1, <2>2
  <2>4. \A e \in Events : \A i \in 1..Len(handlers_of'[e]) :
           handlers_of'[e][i].id <= made /\ (Protected(e) => handlers_of'[e][i].resource \in CoreScripts)
    BY <1>1, <2>2
  <2> QED BY <1>1, <2>1, <2>2, <2>3, <2>4 DEF BusInv
<1> QED BY <1>2, <1>3, <1>4, <1>5, <1>6 DEF BusNext

LEMMA BusInvGives == BusInv => DispatchOrdered
<1> SUFFICES ASSUME BusInv PROVE DispatchOrdered
  OBVIOUS
<1>1. \A e \in Events : DOMAIN handlers_of[e] = 1..Len(handlers_of[e])
  BY DEF BusInv
<1> QED BY <1>1 DEF BusInv, DispatchOrdered

-----------------------------------------------------------------------------
(* Accounts, executor and bus side by side. *)
SchedulingParts ==
    /\ AccountsInit /\ ExecutorInit /\ BusInit
    /\ [][AccountsNext]_accountVars /\ [][ExecutorNext]_executorVars /\ [][BusNext]_busVars

LEMMA SchedulingStart == AccountsInit /\ ExecutorInit /\ BusInit => AccountsInv /\ ExecutorInv /\ BusInv
<1> SUFFICES ASSUME AccountsInit, ExecutorInit, BusInit PROVE AccountsInv /\ ExecutorInv /\ BusInv
  OBVIOUS
<1>1. AccountsInv
  <2>1. Nothing \in [Dimensions -> Nat] /\ NoBudget \in [Dimensions -> Int] /\ Nothing.tasks = 0
    BY DEF Nothing, NoBudget, Dimensions
  <2> QED BY <2>1 DEF AccountsInit, AccountsInv
<1>2. ExecutorInv
  <2>1. /\ class = <<>> /\ running = {} /\ finished = <<>> /\ ordered_dead = FALSE /\ orphans = {}
        /\ lanes = [l \in Lane |-> <<>>]
    BY DEF ExecutorInit, Lane
  <2>2. Increasing(<<>>) /\ Members(<<>>) = {}
    BY DEF Increasing, Members
  <2>3. lanes \in [Lane -> Seq(Nat)] /\ (\A l \in Lane : lanes[l] = <<>>) /\ lanes["ordered"] = <<>>
    BY <2>1 DEF Lane
  <2>4. TasksPlaced
    BY <2>1, <2>2, <2>3 DEF TasksPlaced
  <2>5. TasksKept
    BY <2>1 DEF TasksKept
  <2>6. OrderedLane
    BY <2>1, <2>2, <2>3 DEF OrderedLane
  <2> QED BY <2>4, <2>5, <2>6 DEF ExecutorInv
<1>3. BusInv
  <2>1. handlers_of = [e \in Events |-> <<>>] /\ made = 0 /\ calls = Idle
    BY DEF BusInit
  <2>2. Ranked(<<>>)
    BY DEF Ranked
  <2> QED BY <2>1, <2>2 DEF BusInv
<1> QED BY <1>1, <1>2, <1>3

(* For any number of tasks, lanes of any length, resources and handlers:   *)
(* the two tables of a resource's accounts agree through reloads; tasks    *)
(* that touch shared gameplay state never run side by side and end in the  *)
(* order they were submitted, and no accepted task is lost or run twice    *)
(* unless its lane died under it (Executor); and a dispatch calls by       *)
(* priority, then by age, with only the core on the core's events, however *)
(* handlers come and go meanwhile (EventBus).                              *)
THEOREM SchedulingAlwaysSound == SchedulingParts => []SchedulingSound
<1>1. AccountsInv /\ ExecutorInv /\ BusInv => SchedulingSound
  BY AccountsInvGives, ExecutorInvGives, BusInvGives DEF SchedulingSound
<1> QED BY <1>1, SchedulingStart, AccountsStep, ExecutorStep, BusStep, PTL DEF SchedulingParts

-----------------------------------------------------------------------------
(* The join driver: every phase but a failed one tells which milestones    *)
(* were applied.                                                           *)

PhaseOf(k) ==
    CASE k = 0 -> {"Handshake", "Deferrals", "Queued"} [] k = 1 -> {"Downloading"} [] k = 2 -> {"Residency"} [] k = 3 -> {"Ready"}

Milestone == {"QueueAdmitted", "DownloadComplete", "ResidencyReady"}

JoinerInv ==
    /\ trail \in Seq(Milestone) /\ Len(trail) \in 0..3
    /\ \A i \in 1..Len(trail) : trail[i] = Milestones[i]
    /\ phase = "Failed" \/ phase \in PhaseOf(Len(trail))

LEMMA MilestoneType == Milestones[1] = "QueueAdmitted" /\ Milestones[2] = "DownloadComplete" /\ Milestones[3] = "ResidencyReady"
                       /\ Len(Milestones) = 3 /\ ToSet(Milestones) = Milestone
BY DEF Milestones, Milestone, ToSet

(* A milestone that comes in its turn. *)
LEMMA NextMilestone ==
    ASSUME JoinerInv, NEW m \in Milestone, Len(trail) \in 0..2, m = Milestones[Len(trail) + 1],
           trail' = Append(trail, m), phase' \in PhaseOf(Len(trail) + 1)
    PROVE  JoinerInv'
<1> DEFINE n == Len(trail)
<1>1. /\ trail \in Seq(Milestone) /\ n \in 0..2 /\ \A i \in 1..n : trail[i] = Milestones[i]
  BY DEF JoinerInv
<1>2. trail' \in Seq(Milestone) /\ Len(trail') = n + 1 /\ trail'[n + 1] = m /\ \A i \in 1..n : trail'[i] = trail[i]
  BY <1>1
<1> HIDE DEF n
<1>3. n + 1 \in 0..3 /\ \A i \in 1..(n + 1) : i = n + 1 \/ i \in 1..n
  BY <1>1
<1>4. \A i \in 1..(n + 1) : trail'[i] = Milestones[i]
  BY <1>1, <1>2, <1>3 DEF n
<1> QED BY <1>2, <1>3, <1>4 DEF JoinerInv, n

LEMMA JoinerStep == JoinerInv /\ [JoinerNext]_joinerVars => JoinerInv'
<1> SUFFICES ASSUME JoinerInv, [JoinerNext]_joinerVars PROVE JoinerInv'
  OBVIOUS
<1>1. CASE UNCHANGED joinerVars
  BY <1>1 DEF JoinerInv, joinerVars
<1>2. CASE cancel \/ tick_joiner
  BY <1>2 DEF JoinerInv, cancel, tick_joiner
<1>3. ASSUME NEW event \in ServerEvent, apply(event) PROVE JoinerInv'
  <2> DEFINE k == Len(trail)
             e == event.kind
  <2>1. phase \notin {"Ready", "Failed"} /\ <<phase, e, phase'>> \in Steps
        /\ trail' = IF e \in Milestone THEN Append(trail, e) ELSE trail
    BY <1>3, MilestoneType DEF apply, Fits, terminal
  <2>2. k \in 0..3 /\ phase \in PhaseOf(k)
    BY <2>1 DEF JoinerInv
  <2> HIDE DEF k, e
  <2>4. k = 0 \/ k = 1 \/ k = 2
    BY <2>1, <2>2 DEF PhaseOf
  <2>5. CASE e \in {"Rejected", "Kicked"}
    <3>1. phase' = "Failed" /\ trail' = trail
      BY <2>1, <2>5 DEF Steps, Milestone
    <3> QED BY <3>1 DEF JoinerInv
  <2>6. CASE e \notin {"Rejected", "Kicked"} \cup Milestone
    <3>1. trail' = trail
      BY <2>1, <2>6
    <3>2. phase' \in PhaseOf(k)
      BY <2>1, <2>2, <2>4, <2>6 DEF Steps, PhaseOf, Milestone
    <3> QED BY <3>1, <3>2 DEF JoinerInv, k
  <2>7. CASE e \in Milestone
    <3>1. /\ e = "QueueAdmitted" => k = 0 /\ phase' = "Downloading"
          /\ e = "DownloadComplete" => k = 1 /\ phase' = "Residency"
          /\ e = "ResidencyReady" => k = 2 /\ phase' = "Ready"
      BY <2>1, <2>2, <2>4, <2>7 DEF Steps, PhaseOf, Milestone
    <3>2. PhaseOf(1) = {"Downloading"} /\ PhaseOf(2) = {"Residency"} /\ PhaseOf(3) = {"Ready"}
      BY DEF PhaseOf
    <3>3. k \in 0..2 /\ e = Milestones[k + 1] /\ phase' \in PhaseOf(k + 1)
      BY <2>7, <3>1, <3>2, MilestoneType DEF Milestone
    <3> QED BY <2>1, <2>7, <3>3, NextMilestone DEF k
  <2> QED BY <2>5, <2>6, <2>7
<1> QED BY <1>1, <1>2, <1>3 DEF JoinerNext

LEMMA JoinerInvGives == JoinerInv => JoinInOrder
<1> SUFFICES ASSUME JoinerInv PROVE JoinInOrder
  OBVIOUS
<1> DEFINE k == Len(trail)
<1>1. trail \in Seq(Milestone) /\ k \in 0..3 /\ \A i \in 1..k : trail[i] = Milestones[i]
  BY DEF JoinerInv
<1>2. \A i \in 1..k : trail[i] \in Milestone /\ Milestones[i] \in Milestone
  BY <1>1
<1>3. /\ SubSeq(trail, 1, k) \in Seq(Milestone) /\ SubSeq(Milestones, 1, k) \in Seq(Milestone)
      /\ Len(SubSeq(trail, 1, k)) = (IF 1 <= k THEN (k - 1) + 1 ELSE 0)
      /\ Len(SubSeq(Milestones, 1, k)) = (IF 1 <= k THEN (k - 1) + 1 ELSE 0)
      /\ \A i \in 1..((k - 1) + 1) : SubSeq(trail, 1, k)[i] = trail[(1 + i) - 1]
      /\ \A i \in 1..((k - 1) + 1) : SubSeq(Milestones, 1, k)[i] = Milestones[(1 + i) - 1]
  BY <1>1, <1>2, SubSeqProperties
<1>4. k = (IF 1 <= k THEN (k - 1) + 1 ELSE 0) /\ (\A i \in 1..k : i \in 1..((k - 1) + 1) /\ (1 + i) - 1 = i)
  <2>1. \A j \in 0..3 : j = (IF 1 <= j THEN (j - 1) + 1 ELSE 0)
    OBVIOUS
  <2>2. \A j \in 0..3 : \A i \in 1..j : i \in 1..((j - 1) + 1) /\ (1 + i) - 1 = i
    OBVIOUS
  <2> QED BY <1>1, <2>1, <2>2
<1>5. SubSeq(trail, 1, k) = trail
  <2>1. Len(SubSeq(trail, 1, k)) = k /\ \A i \in 1..k : SubSeq(trail, 1, k)[i] = trail[i]
    BY <1>3, <1>4
  <2> QED BY <1>1, <1>3, <2>1, SeqEqual
<1>6. SubSeq(Milestones, 1, k) = trail
  <2>1. Len(SubSeq(Milestones, 1, k)) = k /\ \A i \in 1..k : SubSeq(Milestones, 1, k)[i] = trail[i]
    BY <1>1, <1>3, <1>4
  <2> QED BY <1>1, <1>3, <2>1, SeqEqual
<1>7. IsPrefix(trail, Milestones)
  <2>1. k <= Len(Milestones)
    BY <1>1, MilestoneType
  <2> QED BY <1>5, <1>6, <2>1 DEF IsPrefix
<1> HIDE DEF k
<1>8. ASSUME phase # "Failed"
      PROVE  k = CASE phase = "Ready" -> 3 [] phase = "Residency" -> 2 [] phase = "Downloading" -> 1 [] OTHER -> 0
  <2>1. phase \in PhaseOf(k)
    BY <1>8 DEF JoinerInv, k
  <2>2. k = 0 \/ k = 1 \/ k = 2 \/ k = 3
    BY <1>1
  <2> QED BY <2>1, <2>2 DEF PhaseOf
<1>9. terminal => ~check_stall
  BY DEF terminal, check_stall
<1> QED BY <1>6, <1>7, <1>8, <1>9 DEF JoinInOrder

-----------------------------------------------------------------------------
(* A deferral session: the gates passed are the first ones, in order. *)

DeferralInv ==
    /\ current \in 0..Gates /\ polls \in Nat
    /\ passedGates \in Seq(Nat) /\ Len(passedGates) = current /\ \A i \in 1..current : passedGates[i] = i
    /\ outcome \in {"None", "Admit", "Waiting", "Denied", "Timeout"}
    /\ outcome = "Admit" => current = Gates
    /\ outcome \in {"Waiting", "Denied"} => current < Gates
    /\ outcome = "Timeout" <=> polls > MaxPolls

LEMMA DeferralStep == DeferralInv /\ [DeferralNext]_deferralVars => DeferralInv'
<1> SUFFICES ASSUME DeferralInv, [DeferralNext]_deferralVars PROVE DeferralInv'
  OBVIOUS
<1>0. Gates \in Nat /\ MaxPolls \in Nat
  BY ArrivalAssumption
<1>1. CASE UNCHANGED deferralVars
  BY <1>1 DEF DeferralInv, deferralVars
<1>2. ASSUME NEW n \in 0..Gates, NEW d \in {"Admit", "Waiting", "Denied"}, poll_deferral(n, d) PROVE DeferralInv'
  <2>1. polls \in Nat /\ current \in 0..Gates /\ polls <= MaxPolls /\ polls' = polls + 1
        /\ passedGates \in Seq(Nat) /\ Len(passedGates) = current /\ \A i \in 1..current : passedGates[i] = i
    BY <1>2 DEF poll_deferral, DeferralInv
  <2>2. CASE WatchdogFires(polls + 1)
    <3>1. outcome' = "Timeout" /\ UNCHANGED <<current, passedGates>>
      BY <1>2, <2>2 DEF poll_deferral
    <3>2. polls' > MaxPolls /\ polls' \in Nat
      BY <2>1, <2>2 DEF WatchdogFires
    <3> QED BY <2>1, <3>1, <3>2 DEF DeferralInv
  <2>3. CASE ~WatchdogFires(polls + 1)
    <3> DEFINE more == [i \in 1..n |-> current + i]
               r == passedGates \o more
    <3>1. /\ current + n <= Gates /\ (d = "Admit" <=> current + n = Gates) /\ outcome' = d
          /\ current' = current + n /\ passedGates' = r
      BY <1>2, <2>3 DEF poll_deferral
    <3>2. ~(polls' > MaxPolls) /\ polls' \in Nat
      BY <1>0, <2>1, <2>3 DEF WatchdogFires
    <3>3. more \in Seq(Nat) /\ Len(more) = n /\ \A i \in 1..n : more[i] = current + i
      <4>1. \A i \in 1..n : current + i \in Nat
        BY <1>0, <2>1
      <4>2. more \in [1..n -> Nat] /\ n \in Nat
        BY <1>0, <4>1
      <4> QED BY <4>2
    <3> HIDE DEF more
    <3>4. /\ r \in Seq(Nat) /\ Len(r) = current + n
          /\ \A i \in 1..(current + n) : r[i] = IF i <= current THEN passedGates[i] ELSE more[i - current]
      BY ZenonT(60), <2>1, <3>3, ConcatProperties
    <3> HIDE DEF r
    <3>5. \A i \in 1..(current + n) : r[i] = i
      <4> SUFFICES ASSUME NEW i \in 1..(current + n) PROVE r[i] = i
        OBVIOUS
      <4>1. CASE i <= current
        BY <1>0, <2>1, <3>4, <4>1
      <4>2. CASE ~(i <= current)
        <5>1. i - current \in 1..n /\ current + (i - current) = i
          BY <1>0, <2>1, <4>2
        <5> QED BY <3>3, <3>4, <4>2, <5>1
      <4> QED BY <4>1, <4>2
    <3>6. current + n \in 0..Gates /\ (d # "Admit" => current + n < Gates)
      BY <1>0, <2>1, <3>1
    <3> QED BY <3>1, <3>2, <3>4, <3>5, <3>6 DEF DeferralInv
  <2> QED BY <2>2, <2>3
<1> QED BY <1>1, <1>2 DEF DeferralNext

LEMMA DeferralInvGives == DeferralInv => DeferralSound
<1> SUFFICES ASSUME DeferralInv PROVE DeferralSound
  OBVIOUS
<1> DEFINE all == [i \in 1..Gates |-> i]
<1>0. Gates \in Nat
  BY ArrivalAssumption
<1>1. /\ current \in 0..Gates /\ passedGates \in Seq(Nat) /\ Len(passedGates) = current
      /\ \A i \in 1..current : passedGates[i] = i
  BY DEF DeferralInv
<1>2. all \in Seq(Nat) /\ Len(all) = Gates /\ \A i \in 1..Gates : all[i] = i
  <2>1. all \in [1..Gates -> Nat]
    BY <1>0
  <2> QED BY <1>0, <2>1
<1> HIDE DEF all
<1>3. passedGates = all <=> current = Gates
  <2>1. ASSUME current = Gates PROVE passedGates = all
    BY <1>1, <1>2, <2>1, SeqEqual
  <2> QED BY <1>1, <1>2, <2>1
<1>4. IsPrefix(passedGates, all)
  <2>1. \A i \in 1..current : passedGates[i] \in Nat /\ all[i] \in Nat /\ all[i] = i
    BY <1>0, <1>1, <1>2
  <2>2. /\ SubSeq(passedGates, 1, current) \in Seq(Nat) /\ SubSeq(all, 1, current) \in Seq(Nat)
        /\ Len(SubSeq(passedGates, 1, current)) = (IF 1 <= current THEN (current - 1) + 1 ELSE 0)
        /\ Len(SubSeq(all, 1, current)) = (IF 1 <= current THEN (current - 1) + 1 ELSE 0)
        /\ \A i \in 1..((current - 1) + 1) : SubSeq(passedGates, 1, current)[i] = passedGates[(1 + i) - 1]
        /\ \A i \in 1..((current - 1) + 1) : SubSeq(all, 1, current)[i] = all[(1 + i) - 1]
    BY <1>1, <2>1, SubSeqProperties
  <2>3. \A i \in 1..((current - 1) + 1) : i \in 1..current /\ (1 + i) - 1 = i
    BY <1>0, <1>1
  <2>4. \A i \in 1..((current - 1) + 1) : SubSeq(passedGates, 1, current)[i] = SubSeq(all, 1, current)[i]
    BY <1>1, <2>1, <2>2, <2>3
  <2>5. \A i \in 1..(IF 1 <= current THEN (current - 1) + 1 ELSE 0) : i \in 1..((current - 1) + 1)
    BY <1>0, <1>1
  <2>6. SubSeq(passedGates, 1, current) = SubSeq(all, 1, current)
    BY <2>2, <2>4, <2>5, SeqEqual
  <2>7. current <= Gates
    BY <1>0, <1>1
  <2> QED BY <1>1, <1>2, <2>6, <2>7 DEF IsPrefix
<1>5. outcome # "None" => (current = Gates <=> outcome = "Admit" \/ (outcome = "Timeout" /\ current = Gates))
  BY <1>0, <1>1 DEF DeferralInv
<1> QED BY <1>3, <1>4, <1>5 DEF DeferralSound, DeferralInv, all

-----------------------------------------------------------------------------
(* Negotiation: an upgrade only raises the newest protocol and the         *)
(* versions of what is served.                                             *)

PolicyType == [min : Nat, max : Nat, features : [Features -> Nat], disabled : SUBSET Features, strict : SUBSET Features]

HelloType == [min : Nat, max : Nat, features : [Features -> Nat], caps : SUBSET Features]

Upgraded(o, p) ==
    /\ p.min = o.min /\ p.disabled = o.disabled /\ p.strict = o.strict /\ o.max <= p.max
    /\ \A f \in Features : o.features[f] <= p.features[f] /\ (o.features[f] = 0 <=> p.features[f] = 0)

NegotiationInv ==
    /\ policy \in PolicyType /\ older \in PolicyType /\ hello \in HelloType
    /\ policy.min <= policy.max /\ older.min <= older.max /\ hello.min <= hello.max
    /\ Upgraded(older, policy)

LEMMA UpgradedSame == ASSUME NEW p \in PolicyType PROVE Upgraded(p, p)
BY DEF Upgraded, PolicyType

LEMMA NegotiationStep == NegotiationInv /\ [NegotiationNext]_negotiationVars => NegotiationInv'
<1> SUFFICES ASSUME NegotiationInv, [NegotiationNext]_negotiationVars PROVE NegotiationInv'
  OBVIOUS
<1>0. 0..MaxVersion \subseteq Nat /\ 1..MaxProtocol \subseteq Nat /\ FeatureList \subseteq [Features -> Nat]
  BY ArrivalAssumption DEF FeatureList
<1>1. CASE UNCHANGED negotiationVars
  BY <1>1 DEF NegotiationInv, negotiationVars
<1>2. ASSUME NEW p \in Policies, configure(p) PROVE NegotiationInv'
  <2>1. p \in PolicyType /\ p.min <= p.max
    BY <1>0 DEF Policies, PolicyType
  <2>2. policy' = p /\ older' = p /\ hello' = hello
    BY <1>2 DEF configure
  <2>3. Upgraded(p, p)
    BY <2>1, UpgradedSame
  <2> QED BY <2>1, <2>2, <2>3 DEF NegotiationInv
<1>3. ASSUME NEW h \in Hello, connect(h) PROVE NegotiationInv'
  <2>1. h \in HelloType /\ h.min <= h.max
    BY <1>0 DEF Hello, HelloType
  <2> QED BY <1>3, <2>1 DEF connect, NegotiationInv
<1>4. CASE upgrade_server
  <2>1. policy \in PolicyType /\ policy.min <= policy.max /\ older' = policy /\ hello' = hello
    BY <1>4 DEF upgrade_server, NegotiationInv
  <2>2. policy.max \in Nat /\ policy.min \in Nat /\ policy.features \in [Features -> Nat]
    BY <2>1 DEF PolicyType
  <2>3. CASE policy' = [policy EXCEPT !.max = @ + 1]
    <3>1. policy' = [policy EXCEPT !.max = policy.max + 1] /\ policy.max + 1 \in Nat
      BY <2>2, <2>3
    <3>2. policy' \in PolicyType /\ policy'.max = policy.max + 1 /\ policy'.min = policy.min
          /\ policy'.features = policy.features /\ policy'.disabled = policy.disabled /\ policy'.strict = policy.strict
      BY <2>1, <3>1 DEF PolicyType
    <3>3. Upgraded(policy, policy')
      BY <2>2, <3>2 DEF Upgraded
    <3>4. policy'.min <= policy'.max
      BY <2>1, <2>2, <3>2
    <3> QED BY <2>1, <3>2, <3>3, <3>4 DEF NegotiationInv
  <2>4. ASSUME NEW f \in Features, policy.features[f] \in 1..(MaxVersion - 1), policy' = [policy EXCEPT !.features[f] = @ + 1]
        PROVE  NegotiationInv'
    <3> DEFINE new == [policy.features EXCEPT ![f] = policy.features[f] + 1]
    <3>1. policy' = [policy EXCEPT !.features = new]
      BY <2>4
    <3>2. policy.features[f] \in Nat /\ policy.features[f] # 0 /\ policy.features[f] + 1 \in Nat
      BY <2>2, <2>4
    <3>3. /\ new \in [Features -> Nat] /\ new[f] = policy.features[f] + 1
          /\ \A g \in Features : g # f => new[g] = policy.features[g]
      BY <2>2, <3>2
    <3>4. \A g \in Features : policy.features[g] <= new[g] /\ (policy.features[g] = 0 <=> new[g] = 0)
      BY <2>2, <3>2, <3>3
    <3> HIDE DEF new
    <3>5. policy' \in PolicyType /\ policy'.max = policy.max /\ policy'.min = policy.min
          /\ policy'.features = new /\ policy'.disabled = policy.disabled /\ policy'.strict = policy.strict
      BY <2>1, <3>1, <3>3 DEF PolicyType
    <3>6. Upgraded(policy, policy')
      BY <2>2, <3>4, <3>5 DEF Upgraded
    <3>7. policy'.min <= policy'.max
      BY <2>1, <3>5
    <3> QED BY <2>1, <3>5, <3>6, <3>7 DEF NegotiationInv
  <2> QED BY <1>4, <2>3, <2>4 DEF upgrade_server
<1> QED BY <1>1, <1>2, <1>3, <1>4 DEF NegotiationNext

LEMMA MinOfTwo == ASSUME NEW i \in Int, NEW j \in Int PROVE Min({i, j}) = IF i <= j THEN i ELSE j
<1> DEFINE m == IF i <= j THEN i ELSE j
<1>1. m \in {i, j} /\ \A y \in {i, j} : m <= y
  OBVIOUS
<1>2. \A x \in {i, j} : (\A y \in {i, j} : x <= y) => x = m
  OBVIOUS
<1> QED BY <1>1, <1>2 DEF Min

(* The version agreed on, for any two ranges. *)
LEMMA ProtocolAgreed ==
    ASSUME NEW p \in PolicyType, NEW h \in HelloType, p.min <= p.max, h.min <= h.max
    PROVE  /\ negotiate_protocol(p, h).kind = "Agreed" <=> h.max >= p.min /\ h.min <= p.max
           /\ negotiate_protocol(p, h).kind = "Agreed" =>
                negotiate_protocol(p, h).version = IF p.max <= h.max THEN p.max ELSE h.max
<1>1. p.min \in Int /\ p.max \in Int /\ h.min \in Int /\ h.max \in Int
  BY DEF PolicyType, HelloType
<1>2. Min({p.max, h.max}) = (IF p.max <= h.max THEN p.max ELSE h.max) /\ Min({p.min, h.max}) = (IF p.min <= h.max THEN p.min ELSE h.max)
  BY <1>1, MinOfTwo
<1>3. CASE h.max < p.min
  <2>1. negotiate_protocol(p, h) = [kind |-> "ClientTooOld", version |-> 0]
    BY <1>3 DEF negotiate_protocol
  <2> QED BY <1>1, <1>3, <2>1
<1>4. CASE ~(h.max < p.min) /\ h.min > p.max
  <2>1. negotiate_protocol(p, h) = [kind |-> "ServerTooOld", version |-> 0]
    BY <1>4 DEF negotiate_protocol
  <2> QED BY <1>1, <1>4, <2>1
<1>5. CASE ~(h.max < p.min) /\ ~(h.min > p.max)
  <2>1. ~(Min({p.max, h.max}) < Min({p.min, h.max}))
    BY <1>1, <1>2, <1>5
  <2>2. negotiate_protocol(p, h) = [kind |-> "Agreed", version |-> Min({p.max, h.max})]
    BY <1>5, <2>1 DEF negotiate_protocol
  <2> QED BY <1>1, <1>2, <1>5, <2>2
<1> QED BY <1>3, <1>4, <1>5

LEMMA NegotiationInvGives == NegotiationInv => AgreementSound
<1> SUFFICES ASSUME NegotiationInv PROVE AgreementSound
  OBVIOUS
<1> DEFINE result == negotiate_protocol(policy, hello)
           both == (policy.min..policy.max) \cap (hello.min..hello.max)
<1>1. /\ policy \in PolicyType /\ older \in PolicyType /\ hello \in HelloType /\ policy.min <= policy.max
      /\ hello.min <= hello.max /\ older.min <= older.max /\ Upgraded(older, policy)
  BY DEF NegotiationInv
<1>2. policy.min \in Int /\ policy.max \in Int /\ hello.min \in Int /\ hello.max \in Int /\ older.max \in Int /\ older.min \in Int
  BY <1>1 DEF PolicyType, HelloType
<1>3. \A f \in Features : policy.features[f] \in Nat /\ older.features[f] \in Nat /\ hello.features[f] \in Nat
  BY <1>1 DEF PolicyType, HelloType
<1>4. /\ result.kind = "Agreed" <=> hello.max >= policy.min /\ hello.min <= policy.max
      /\ result.kind = "Agreed" => result.version = IF policy.max <= hello.max THEN policy.max ELSE hello.max
  BY <1>1, ProtocolAgreed
<1> HIDE DEF result
<1>5. hello.max >= policy.min /\ hello.min <= policy.max => (IF policy.max <= hello.max THEN policy.max ELSE hello.max) \in both
  BY <1>1, <1>2
<1>6. both # {} => hello.max >= policy.min /\ hello.min <= policy.max
  BY <1>2
<1>7. (result.kind = "Agreed" <=> both # {}) /\ (result.kind = "Agreed" => result.version \in both)
  <2> HIDE DEF both
  <2> QED BY <1>4, <1>5, <1>6
<1>8. Allowed(policy, hello) =>
         \A f \in Features \ policy.disabled :
           hello.features[f] # 0 /\ policy.features[f] # 0 => policy.features[f] >= hello.features[f]
  <2> SUFFICES ASSUME NEW f \in Features \ policy.disabled, hello.features[f] # 0, policy.features[f] # 0,
                      ~(policy.features[f] >= hello.features[f])
               PROVE  FeatureOutcome(policy, hello, f) = "RequiresServerUpdate"
    BY DEF Allowed
  <2> QED BY DEF FeatureOutcome
<1>9. ASSUME Allowed(older, hello) PROVE Allowed(policy, hello)
  <2>1. negotiate_protocol(policy, hello).kind = "Agreed"
    <3>1. hello.max >= older.min /\ hello.min <= older.max
      BY <1>1, <1>9, ProtocolAgreed DEF Allowed
    <3>2. hello.max >= policy.min /\ hello.min <= policy.max
      BY <1>1, <1>2, <3>1 DEF Upgraded
    <3> QED BY <1>1, <3>2, ProtocolAgreed
  <2>2. ASSUME NEW f \in Features, FeatureOutcome(policy, hello, f) = "RequiresServerUpdate" PROVE FALSE
    <3>1. hello.features[f] # 0 /\ f \notin policy.disabled /\ policy.features[f] # 0 /\ ~(policy.features[f] >= hello.features[f])
      BY <2>2 DEF FeatureOutcome
    <3>2. f \notin older.disabled /\ older.features[f] # 0 /\ ~(older.features[f] >= hello.features[f])
      BY <1>1, <1>3, <3>1 DEF Upgraded
    <3>3. FeatureOutcome(older, hello, f) = "RequiresServerUpdate"
      BY <3>1, <3>2 DEF FeatureOutcome
    <3> QED BY <1>9, <3>3 DEF Allowed
  <2>3. ASSUME NEW f \in policy.strict, FeatureOutcome(policy, hello, f) = "RequiresClientUpdate" PROVE FALSE
    <3>1. hello.features[f] = 0 /\ policy.features[f] # 0
      BY <2>3 DEF FeatureOutcome
    <3>2. f \in Features /\ f \in older.strict /\ older.features[f] # 0
      BY <1>1, <3>1 DEF Upgraded, PolicyType
    <3>3. FeatureOutcome(older, hello, f) = "RequiresClientUpdate"
      BY <3>1, <3>2 DEF FeatureOutcome
    <3> QED BY <1>9, <3>2, <3>3 DEF Allowed, RequiredFeatureMissing
  <2> QED BY <2>1, <2>2, <2>3 DEF Allowed, RequiredFeatureMissing
<1> QED BY <1>7, <1>8, <1>9 DEF AgreementSound, result, both

-----------------------------------------------------------------------------
(* The simulated cluster: promotion and the part of every client keep the  *)
(* queue and the clients in agreement, and so does a tick, which is one    *)
(* after the other.                                                        *)

SimKinds == {"Disconnected", "Handshake", "InQueue", "ResourceNegotiation", "InWorld", "Reconnecting"}

Clusters == [sims : [1..Clients -> [kind : SimKinds, n : Int]], waitlist : Seq(1..Clients)]

Places(w, c) == {i \in 1..Len(w.waitlist) : w.waitlist[i] = c}

Believed(w, c) == IF w.sims[c].kind = "InQueue" THEN {w.sims[c].n} ELSE {}

Exact == {w \in Clusters : Len(w.waitlist) <= QueueDepth /\ \A c \in 1..Clients : Places(w, c) = Believed(w, c)}

(* A client that is not in the queue moves and stays out of it. *)
LEMMA OutsideExact ==
    ASSUME NEW w \in Exact, NEW c \in 1..Clients, w.sims[c].kind # "InQueue",
           NEW k \in SimKinds \ {"InQueue"}, NEW n \in Int
    PROVE  [w EXCEPT !.sims[c] = Sim(k, n)] \in Exact
<1> DEFINE new == [w.sims EXCEPT ![c] = Sim(k, n)]
           r == [w EXCEPT !.sims = new]
<1>1. w \in Clusters /\ Len(w.waitlist) <= QueueDepth /\ \A d \in 1..Clients : Places(w, d) = Believed(w, d)
  BY DEF Exact
<1>2. w.sims \in [1..Clients -> [kind : SimKinds, n : Int]]
  BY <1>1 DEF Clusters
<1>3. Sim(k, n) \in [kind : SimKinds, n : Int] /\ Sim(k, n).kind = k
  BY DEF Sim
<1>4. new \in [1..Clients -> [kind : SimKinds, n : Int]] /\ new[c].kind = k /\ \A d \in 1..Clients : d # c => new[d] = w.sims[d]
  BY <1>2, <1>3
<1> HIDE DEF new
<1>5. r \in Clusters /\ r.sims = new /\ r.waitlist = w.waitlist
  BY <1>1, <1>4 DEF Clusters
<1> HIDE DEF r
<1>6. \A d \in 1..Clients : Places(r, d) = Believed(r, d)
  BY <1>1, <1>4, <1>5 DEF Places, Believed
<1>7. r \in Exact
  BY <1>1, <1>5, <1>6 DEF Exact
<1> QED BY <1>7 DEF r, new

(* A client joins the back of a queue that has room. *)
LEMMA JoinExact ==
    ASSUME NEW w \in Exact, NEW c \in 1..Clients, w.sims[c].kind # "InQueue", Len(w.waitlist) < QueueDepth
    PROVE  [sims |-> [w.sims EXCEPT ![c] = Sim("InQueue", Len(w.waitlist) + 1)], waitlist |-> Append(w.waitlist, c)] \in Exact
<1> DEFINE m == Len(w.waitlist)
           new == [w.sims EXCEPT ![c] = Sim("InQueue", m + 1)]
           q == Append(w.waitlist, c)
           r == [sims |-> new, waitlist |-> q]
<1>1. w \in Clusters /\ \A d \in 1..Clients : Places(w, d) = Believed(w, d)
  BY DEF Exact
<1>2. w.sims \in [1..Clients -> [kind : SimKinds, n : Int]] /\ w.waitlist \in Seq(1..Clients) /\ m \in Nat
  BY <1>1 DEF Clusters
<1>3. q \in Seq(1..Clients) /\ Len(q) = m + 1 /\ q[m + 1] = c /\ \A i \in 1..m : q[i] = w.waitlist[i]
  BY <1>2
<1>4. Sim("InQueue", m + 1) \in [kind : SimKinds, n : Int] /\ Sim("InQueue", m + 1).kind = "InQueue" /\ Sim("InQueue", m + 1).n = m + 1
  BY <1>2 DEF Sim, SimKinds
<1>5. /\ new \in [1..Clients -> [kind : SimKinds, n : Int]] /\ new[c].kind = "InQueue" /\ new[c].n = m + 1
      /\ \A d \in 1..Clients : d # c => new[d] = w.sims[d]
  BY <1>2, <1>4
<1> HIDE DEF new, q
<1>6. r \in Clusters /\ r.sims = new /\ r.waitlist = q
  BY <1>3, <1>5 DEF Clusters
<1> HIDE DEF r
<1>7. Places(w, c) = {}
  BY <1>1 DEF Believed
<1>8. \A i \in 1..(m + 1) : i \in 1..m \/ i = m + 1
  BY <1>2
<1>9. m + 1 \in 1..(m + 1) /\ \A i \in 1..m : i \in 1..(m + 1) /\ i # m + 1
  BY <1>2
<1> HIDE DEF m
<1>10. \A i \in 1..m : w.waitlist[i] # c
  BY <1>7 DEF Places, m
<1>11. Places(r, c) = {m + 1}
  BY <1>3, <1>6, <1>8, <1>9, <1>10 DEF Places
<1>12. \A d \in 1..Clients : d # c => Places(r, d) = Places(w, d)
  BY <1>3, <1>6, <1>8, <1>9 DEF Places, m
<1>13. \A d \in 1..Clients : Places(r, d) = Believed(r, d)
  BY <1>1, <1>5, <1>6, <1>11, <1>12 DEF Believed
<1>14. Len(q) <= QueueDepth
  BY SMTT(60), <1>2, <1>3, ArrivalAssumption DEF m
<1>15. r \in Exact
  BY <1>6, <1>13, <1>14 DEF Exact
<1> QED BY <1>15 DEF r, new, q, m

LEMMA ClientExact ==
    ASSUME NEW w \in Exact, NEW c \in 1..Clients, NEW lost PROVE step_client(w, c, lost) \in Exact
<1> DEFINE s == w.sims[c]
           To(kind, n) == [w EXCEPT !.sims[c] = Sim(kind, n)]
<1>0. w.sims \in [1..Clients -> [kind : SimKinds, n : Int]] /\ w.waitlist \in Seq(1..Clients)
  BY DEF Exact, Clusters
<1>1. s \in [kind : SimKinds, n : Int] /\ Len(w.waitlist) \in Nat
  <2>1. w.sims[c] \in [kind : SimKinds, n : Int]
    BY <1>0
  <2>2. Len(w.waitlist) \in Nat
    BY <1>0
  <2> QED BY <2>1, <2>2
<1>2. s.kind \in SimKinds /\ s.n \in Int /\ s.n + 1 \in Int /\ s.n - 1 \in Int
  BY <1>1
<1>3. s.kind # "InQueue" => \A k \in SimKinds \ {"InQueue"}, n \in Int : To(k, n) \in Exact
  BY OutsideExact
<1>4. 1 \in Int /\ 0 \in Int /\ RetryTicks \in Int /\ QueueDepth \in Nat
  BY ArrivalAssumption
<1> HIDE DEF To
<1>5. CASE s.kind = "Disconnected"
  <2>1. step_client(w, c, lost) = To("Handshake", 1)
    BY <1>5 DEF step_client, To
  <2> QED BY <1>3, <1>4, <1>5, <2>1 DEF SimKinds
<1>6. CASE s.kind = "Handshake" /\ Len(w.waitlist) < QueueDepth
  <2>1. step_client(w, c, lost) = [sims |-> [w.sims EXCEPT ![c] = Sim("InQueue", Len(w.waitlist) + 1)], waitlist |-> Append(w.waitlist, c)]
    <3>1. ~(Len(w.waitlist) >= QueueDepth)
      BY <1>1, <1>4, <1>6
    <3> QED BY <1>6, <3>1 DEF step_client
  <2> QED BY <1>6, <2>1, JoinExact
<1>7. CASE s.kind = "Handshake" /\ ~(Len(w.waitlist) < QueueDepth)
  <2>1. step_client(w, c, lost) = IF s.n >= 2 THEN To("ResourceNegotiation", 0) ELSE To("Handshake", s.n + 1)
    <3>1. Len(w.waitlist) >= QueueDepth
      BY <1>1, <1>4, <1>7
    <3> QED BY <1>7, <3>1 DEF step_client, To
  <2> QED BY <1>2, <1>3, <1>4, <1>7, <2>1 DEF SimKinds
<1>8. CASE s.kind = "ResourceNegotiation"
  <2>1. step_client(w, c, lost) = IF s.n + 1 >= Resources THEN To("InWorld", 0) ELSE To("ResourceNegotiation", s.n + 1)
    BY <1>8 DEF step_client, To
  <2> QED BY <1>2, <1>3, <1>4, <1>8, <2>1 DEF SimKinds
<1>9. CASE s.kind = "InWorld"
  <2>1. step_client(w, c, lost) = IF c \in lost THEN To("Reconnecting", RetryTicks) ELSE w
    BY <1>9 DEF step_client, To
  <2> QED BY <1>3, <1>4, <1>9, <2>1 DEF SimKinds
<1>10. CASE s.kind = "Reconnecting"
  <2>1. step_client(w, c, lost) = IF s.n = 1 THEN To("Handshake", 1) ELSE To("Reconnecting", s.n - 1)
    BY <1>10 DEF step_client, To
  <2> QED BY <1>2, <1>3, <1>4, <1>10, <2>1 DEF SimKinds
<1>11. CASE s.kind = "InQueue"
  <2>1. step_client(w, c, lost) = w
    BY <1>11 DEF step_client
  <2> QED BY <2>1
<1> QED BY <1>2, <1>5, <1>6, <1>7, <1>8, <1>9, <1>10, <1>11 DEF SimKinds

LEMMA PromoteExact == ASSUME NEW w \in Exact PROVE promote(w) \in Exact
<1>1. CASE w.waitlist = <<>> \/ ~even
  BY <1>1 DEF promote
<1>2. CASE ~(w.waitlist = <<>> \/ ~even)
  <2> DEFINE m == Len(w.waitlist)
             q == Tail(w.waitlist)
             at(c) == CHOOSE i \in DOMAIN q : q[i] = c
             new == [c \in 1..Clients |->
                       IF Contains(q, c) THEN Sim("InQueue", at(c))
                       ELSE IF c = Head(w.waitlist) /\ w.sims[c].kind = "InQueue" THEN Sim("ResourceNegotiation", 0)
                       ELSE w.sims[c]]
             r == [waitlist |-> q, sims |-> new]
  <2>1. promote(w) = r
    BY <1>2 DEF promote
  <2>2. /\ w \in Clusters /\ m <= QueueDepth /\ \A d \in 1..Clients : Places(w, d) = Believed(w, d)
    BY DEF Exact
  <2>3. /\ w.sims \in [1..Clients -> [kind : SimKinds, n : Int]] /\ w.waitlist \in Seq(1..Clients) /\ m \in Nat /\ m >= 1
    BY <1>2, <2>2 DEF Clusters
  <2>4. /\ q \in Seq(1..Clients) /\ Len(q) = m - 1 /\ Head(w.waitlist) = w.waitlist[1]
        /\ \A i \in 1..(m - 1) : q[i] = w.waitlist[i + 1]
    <3>1. \A s \in Seq(1..Clients) : s # <<>> =>
            /\ Tail(s) \in Seq(1..Clients) /\ Len(Tail(s)) = Len(s) - 1 /\ Head(s) = s[1]
            /\ \A i \in 1..(Len(s) - 1) : Tail(s)[i] = s[i + 1]
      OBVIOUS
    <3>2. w.waitlist \in Seq(1..Clients) /\ w.waitlist # <<>>
      BY <1>2, <2>3
    <3> QED BY <3>1, <3>2
  <2> HIDE DEF q, m
  <2>5. DOMAIN q = 1..(m - 1) /\ 1 \in 1..m /\ \A i \in 1..(m - 1) : i \in Int /\ i + 1 \in 1..m /\ i + 1 # 1
    BY <2>3, <2>4
  <2>6. \A d \in 1..Clients : \A i, j \in 1..m : w.waitlist[i] = d /\ w.waitlist[j] = d => i = j
    <3> SUFFICES ASSUME NEW d \in 1..Clients, NEW i \in 1..m, NEW j \in 1..m, w.waitlist[i] = d, w.waitlist[j] = d PROVE i = j
      OBVIOUS
    <3>1. i \in Places(w, d) /\ j \in Places(w, d)
      BY DEF Places, m
    <3>2. i \in Believed(w, d) /\ j \in Believed(w, d)
      BY <2>2, <3>1
    <3> QED BY <3>2 DEF Believed
  <2>7. \A c \in 1..Clients : Contains(q, c) <=> \E i \in 1..(m - 1) : q[i] = c
    BY <2>4 DEF Contains
  <2>8. \A c \in 1..Clients : Contains(q, c) => at(c) \in 1..(m - 1) /\ q[at(c)] = c /\ at(c) \in Int
    BY <2>5, <2>7
  <2> HIDE DEF at
  <2>9. new \in [1..Clients -> [kind : SimKinds, n : Int]]
    <3>1. ASSUME NEW c \in 1..Clients PROVE new[c] \in [kind : SimKinds, n : Int]
      <4>1. w.sims[c] \in [kind : SimKinds, n : Int]
        BY <2>3
      <4>2. Contains(q, c) => Sim("InQueue", at(c)) \in [kind : SimKinds, n : Int]
        BY <2>8 DEF Sim, SimKinds
      <4>3. Sim("ResourceNegotiation", 0) \in [kind : SimKinds, n : Int]
        BY DEF Sim, SimKinds
      <4> QED BY <4>1, <4>2, <4>3
    <3> QED BY <3>1
  <2>10. \A c \in 1..Clients : new[c] = IF Contains(q, c) THEN Sim("InQueue", at(c))
                       ELSE IF c = Head(w.waitlist) /\ w.sims[c].kind = "InQueue" THEN Sim("ResourceNegotiation", 0)
                       ELSE w.sims[c]
    OBVIOUS
  <2> HIDE DEF new
  <2>11. r \in Clusters /\ r.sims = new /\ r.waitlist = q
    BY <2>4, <2>9 DEF Clusters
  <2> HIDE DEF r
  <2>12. ASSUME NEW c \in 1..Clients PROVE Places(r, c) = Believed(r, c)
    <3>0. Places(r, c) = {i \in 1..(m - 1) : q[i] = c}
      BY <2>4, <2>11 DEF Places
    <3>1. CASE Contains(q, c)
      <4>1. new[c].kind = "InQueue" /\ new[c].n = at(c)
        <5>1. new[c] = Sim("InQueue", at(c))
          BY <2>10, <3>1
        <5> QED BY <5>1 DEF Sim
      <4>2. ASSUME NEW i \in 1..(m - 1), q[i] = c PROVE i = at(c)
        <5>1. w.waitlist[i + 1] = c /\ w.waitlist[at(c) + 1] = c /\ i + 1 \in 1..m /\ at(c) + 1 \in 1..m
          BY <2>4, <2>5, <2>8, <3>1, <4>2
        <5>2. i + 1 = at(c) + 1
          BY <2>6, <5>1
        <5> QED BY <2>5, <2>8, <3>1, <5>2
      <4>3. Places(r, c) = {at(c)}
        BY <2>8, <3>0, <3>1, <4>2
      <4> QED BY <2>11, <4>1, <4>3 DEF Believed
    <3>2. CASE ~Contains(q, c)
      <4>1. Places(r, c) = {}
        BY <2>7, <3>0, <3>2
      <4>2. new[c].kind # "InQueue"
        <5>1. CASE c = w.waitlist[1] /\ w.sims[c].kind = "InQueue"
          <6>1. new[c] = Sim("ResourceNegotiation", 0)
            BY <2>4, <2>10, <3>2, <5>1
          <6> QED BY <6>1 DEF Sim
        <5>2. CASE ~(c = w.waitlist[1] /\ w.sims[c].kind = "InQueue")
          <6>1. new[c] = w.sims[c]
            BY <2>4, <2>10, <3>2, <5>2
          <6>2. ASSUME w.sims[c].kind = "InQueue" PROVE FALSE
            <7>1. w.sims[c].n \in Places(w, c)
              BY <2>2, <6>2 DEF Believed
            <7>2. PICK i \in 1..m : w.waitlist[i] = c
              BY <7>1 DEF Places, m
            <7>3. i # 1
              BY <5>2, <6>2, <7>2
            <7>4. i - 1 \in 1..(m - 1) /\ (i - 1) + 1 = i
              BY <2>3, <7>3
            <7>5. q[i - 1] = c
              BY <2>4, <7>2, <7>4
            <7> QED BY <2>7, <3>2, <7>4, <7>5
          <6> QED BY <6>1, <6>2
        <5> QED BY <5>1, <5>2
      <4> QED BY <2>11, <4>1, <4>2 DEF Believed
    <3> QED BY <3>1, <3>2
  <2>13. Len(q) <= QueueDepth
    BY SMTT(60), <2>2, <2>3, <2>4, ArrivalAssumption
  <2>14. r \in Exact
    BY <2>11, <2>12, <2>13 DEF Exact
  <2> QED BY <2>1, <2>14
<1> QED BY <1>1, <1>2

ClusterInv == [sims |-> sims, waitlist |-> queue_waitlist] \in Exact

LEMMA ClusterStep == ClusterInv /\ [ClusterNext]_clusterVars => ClusterInv'
<1> SUFFICES ASSUME ClusterInv, [ClusterNext]_clusterVars PROVE ClusterInv'
  OBVIOUS
<1>1. CASE UNCHANGED clusterVars
  BY <1>1 DEF ClusterInv, clusterVars
<1>2. ASSUME NEW lost, step_cluster(lost) PROVE ClusterInv'
  <2> DEFINE w0 == promote([sims |-> sims, waitlist |-> queue_waitlist])
             g == [x \in (1..Clients) \X Exact |-> step_client(x[2], x[1], lost)]
             Ticks(f) == f = [c \in 0..Clients |-> IF c = 0 THEN w0 ELSE step_client(f[c - 1], c, lost)]
             after == CHOOSE f : Ticks(f)
  <2>0. Clients \in Nat
    BY ArrivalAssumption
  <2>1. w0 \in Exact
    BY PromoteExact DEF ClusterInv
  <2>2. g \in [(1..Clients) \X Exact -> Exact]
    BY ClientExact
  <2>3. \A c \in 1..Clients, w \in Exact : g[<<c, w>>] = step_client(w, c, lost)
    OBVIOUS
  <2> HIDE DEF w0, g, Ticks, after
  <2>4. PICK f \in [0..Clients -> Exact] : Iterated(f, Clients, w0, g)
    BY <2>0, <2>1, <2>2, Iterates
  <2> USE DEF Ticks
  <2>5. Ticks(f)
    <3>1. \A c \in 0..Clients : c # 0 => c \in 1..Clients /\ f[c - 1] \in Exact
      BY <2>0, <2>4
    <3>3. \A c \in 0..Clients : f[c] = IF c = 0 THEN w0 ELSE step_client(f[c - 1], c, lost)
      BY <2>3, <2>4, <3>1 DEF Iterated
    <3> QED BY <2>4, <3>3
  <2>6. Ticks(after)
    <3> HIDE DEF Ticks
    <3> QED BY <2>5 DEF after
  <2>7. sims' = after[Clients].sims /\ queue_waitlist' = after[Clients].waitlist
    BY <1>2 DEF step_cluster, w0, after
  <2>8. \A c \in 0..Clients : after[c] = IF c = 0 THEN w0 ELSE step_client(after[c - 1], c, lost)
    BY <2>6
  <2>9. after[Clients] \in Exact
    <3> DEFINE T == {c \in 0..Clients : after[c] \in Exact}
    <3>1. 0 \in T
      BY <2>0, <2>1, <2>8
    <3>2. ASSUME NEW c \in 1..Clients, c - 1 \in T PROVE c \in T
      BY <2>0, <2>8, <3>2, ClientExact
    <3> HIDE DEF T
    <3>3. 0..Clients \subseteq T
      BY <2>0, <3>1, <3>2, UpTo
    <3> QED BY <2>0, <3>3 DEF T
  <2>10. after[Clients] = [sims |-> after[Clients].sims, waitlist |-> after[Clients].waitlist]
    BY <2>9 DEF Exact, Clusters
  <2> QED BY <2>7, <2>9, <2>10 DEF ClusterInv
<1> QED BY <1>1, <1>2 DEF ClusterNext

LEMMA ClusterInvGives == ClusterInv => SimQueueExact
<1> SUFFICES ASSUME ClusterInv PROVE SimQueueExact
  OBVIOUS
<1> DEFINE w == [sims |-> sims, waitlist |-> queue_waitlist]
<1>1. w \in Exact /\ w.sims = sims /\ w.waitlist = queue_waitlist
  BY DEF ClusterInv
<1>2. DOMAIN queue_waitlist = 1..Len(queue_waitlist)
  BY <1>1 DEF Exact, Clusters
<1> HIDE DEF w
<1> QED BY <1>1, <1>2 DEF Exact, Places, Believed, SimQueueExact

-----------------------------------------------------------------------------
(* The four machines of the way in, side by side. *)
ArrivalParts ==
    /\ JoinerInit /\ DeferralInit /\ NegotiationInit /\ ClusterInit
    /\ [][JoinerNext]_joinerVars /\ [][DeferralNext]_deferralVars
    /\ [][NegotiationNext]_negotiationVars /\ [][ClusterNext]_clusterVars

LEMMA ArrivalStart ==
    JoinerInit /\ DeferralInit /\ NegotiationInit /\ ClusterInit
      => JoinerInv /\ DeferralInv /\ NegotiationInv /\ ClusterInv
<1> SUFFICES ASSUME JoinerInit, DeferralInit, NegotiationInit, ClusterInit
             PROVE  JoinerInv /\ DeferralInv /\ NegotiationInv /\ ClusterInv
  OBVIOUS
<1>1. JoinerInv
  BY DEF JoinerInit, JoinerInv, PhaseOf
<1>2. DeferralInv
  BY ArrivalAssumption DEF DeferralInit, DeferralInv
<1>3. NegotiationInv
  <2>1. policy \in PolicyType /\ hello \in HelloType /\ older = policy
    BY DEF NegotiationInit, PolicyType, HelloType
  <2>2. Upgraded(policy, policy)
    BY <2>1, UpgradedSame
  <2>3. policy.min <= policy.max /\ hello.min <= hello.max
    BY DEF NegotiationInit
  <2> QED BY <2>1, <2>2, <2>3 DEF NegotiationInv
<1>4. ClusterInv
  <2> DEFINE w == [sims |-> sims, waitlist |-> queue_waitlist]
  <2>1. sims = [c \in 1..Clients |-> Sim("Disconnected", 0)] /\ queue_waitlist = <<>>
    BY DEF ClusterInit
  <2>2. Sim("Disconnected", 0) \in [kind : SimKinds, n : Int] /\ Sim("Disconnected", 0).kind = "Disconnected"
    BY DEF Sim, SimKinds
  <2>3. w \in Clusters /\ w.waitlist = <<>> /\ w.sims = sims
    BY <2>1, <2>2 DEF Clusters
  <2> HIDE DEF w
  <2>4. \A c \in 1..Clients : Places(w, c) = {} /\ Believed(w, c) = {}
    BY <2>1, <2>2, <2>3 DEF Places, Believed
  <2>5. Len(w.waitlist) = 0 /\ 0 <= QueueDepth
    BY <2>3, ArrivalAssumption
  <2>6. w \in Exact
    BY <2>3, <2>4, <2>5 DEF Exact
  <2> QED BY <2>6 DEF ClusterInv, w
<1> QED BY <1>1, <1>2, <1>3, <1>4

(* For any number of gates, protocol versions, features, simulated clients *)
(* and any depth of the queue: a join that is ready went through           *)
(* admission, download and residency, each once and in this order          *)
(* (JoinDriver); a deferral session is admitted only through all its gates *)
(* and times out exactly past its watchdog; who is allowed agrees on a     *)
(* version both sides speak, and no upgrade of the server shuts out a      *)
(* client it served before (negotiate); and every simulated client that    *)
(* waits is in the queue once, at the position it believes.                *)
THEOREM ArrivalAlwaysSound == ArrivalParts => []ArrivalSound
<1>1. JoinerInv /\ DeferralInv /\ NegotiationInv /\ ClusterInv => ArrivalSound
  BY JoinerInvGives, DeferralInvGives, NegotiationInvGives, ClusterInvGives DEF ArrivalSound
<1> QED BY <1>1, ArrivalStart, JoinerStep, DeferralStep, NegotiationStep, ClusterStep, PTL DEF ArrivalParts
=============================================================================
