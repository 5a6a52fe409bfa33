-------------------------------- MODULE World --------------------------------
(***************************************************************************)
(* The game world of the server: the entity store with its generation-safe *)
(* ids, ownership, dimensions and routing buckets; the spatial grid that   *)
(* decides what is replicated to whom; and the budget of ambient           *)
(* population.  Three machines that share no state: entities, grid and     *)
(* population.                                                             *)
(***************************************************************************)
EXTENDS Integers, SequencesExt

CONSTANTS
    MaxEntities,       \* bound: slots of the store
    MaxGen,         \* bound: destructions per slot (generations are u32)
    Owners,         \* players and resources; "Server" is the third authority
    Buckets,        \* dimension and bucket ids, the default 0 among them
    Bodies,         \* entities the grid indexes
    Coords,         \* coordinates on either axis
    Cell,           \* CELL
    NearRadius, MediumRadius, FarRadius,
    MaxAmbient      \* bound: largest max_peds and max_vehicles

ASSUME WorldAssumption ==
    /\ {MaxEntities, MaxGen, MaxAmbient} \subseteq Nat /\ Cell \in Nat \ {0}
    /\ 0 \in Buckets /\ "Server" \notin Owners /\ Coords \subseteq Int
    /\ {NearRadius, MediumRadius, FarRadius} \subseteq Nat
    /\ NearRadius < MediumRadius /\ MediumRadius < FarRadius

(* HashMap::insert, on a partial function. *)
Bind(f, k, v) == [x \in DOMAIN f \cup {k} |-> IF x = k THEN v ELSE f[x]]

-----------------------------------------------------------------------------
(* Entities. *)

VARIABLES
    slots,          \* the entity of each index, or Empty
    free,           \* indices of destroyed entities, reused last first
    generations,    \* generation the next occupant of an index gets
    dims,           \* id -> its dimension; a partial function
    meant           \* id -> what was set through it since its spawn, while it lives (history)

entityVars == <<slots, free, generations, dims, meant>>

Authority == {"Server"} \cup Owners

(* The plane of everything that was never assigned. *)
DEFAULT == 0

EntityId == [index : 1..MaxEntities, generation : 0..MaxGen]

Empty == [generation |-> -1, authority |-> "Server", components |-> {}]

EntityInit ==
    slots = <<>> /\ free = <<>> /\ generations = <<>> /\ dims = <<>> /\ meant = <<>>

(* get and get_mut: an id whose generation is not the occupant's is stale. *)
Alive(id) == id.index \in DOMAIN slots /\ slots[id.index].generation = id.generation

Spawned(index, generation, auth) ==
    /\ meant' = Bind(meant, [index |-> index, generation |-> generation],
                     [dim |-> DEFAULT, authority |-> auth, components |-> {}])
    /\ UNCHANGED dims

spawn(auth) ==
    LET entity(g) == [generation |-> g, authority |-> auth, components |-> {}]
    IN  IF free # <<>>
        THEN LET i == Last(free) IN
             /\ free' = Front(free)
             /\ slots' = [slots EXCEPT ![i] = entity(generations[i])]
             /\ UNCHANGED generations
             /\ Spawned(i, generations[i], auth)
        ELSE /\ Len(slots) < MaxEntities
             /\ slots' = Append(slots, entity(0))
             /\ generations' = Append(generations, 0)
             /\ UNCHANGED free
             /\ Spawned(Len(slots) + 1, 0, auth)

(* Mutant: the slot is freed and its generation kept. *)
destroy_same_generation(id) ==
    /\ Alive(id)
    /\ slots' = [slots EXCEPT ![id.index] = Empty]
    /\ free' = Append(free, id.index)
    /\ meant' = [i \in DOMAIN meant \ {id} |-> meant[i]]
    /\ UNCHANGED <<generations, dims>>

destroy(id) ==
    /\ Alive(id) /\ generations[id.index] < MaxGen
    /\ slots' = [slots EXCEPT ![id.index] = Empty]
    /\ free' = Append(free, id.index)
    /\ generations' = [generations EXCEPT ![id.index] = @ + 1]
    /\ meant' = [i \in DOMAIN meant \ {id} |-> meant[i]]
    /\ UNCHANGED dims

set_component(id) ==
    /\ Alive(id)
    /\ slots' = [slots EXCEPT ![id.index].components = {"data"}]
    /\ meant' = [meant EXCEPT ![id].components = {"data"}]
    /\ UNCHANGED <<free, generations, dims>>

(* transfer: compare and swap, and no direct handoff between two owners. *)
transfer_entity(id, expected, next) ==
    LET actual == slots[id.index].authority IN
    /\ Alive(id)
    /\ actual = expected
    /\ actual = "Server" \/ next = "Server" \/ actual = next
    /\ slots' = [slots EXCEPT ![id.index].authority = next]
    /\ meant' = [meant EXCEPT ![id].authority = next]
    /\ UNCHANGED <<free, generations, dims>>

(* DimensionMap::set, and set_entity_bucket that ends in it: ids that are  *)
(* dead are refused. *)
set_dimension(id, d) ==
    /\ Alive(id)
    /\ dims' = Bind(dims, id, d)
    /\ meant' = [meant EXCEPT ![id].dim = d]
    /\ UNCHANGED <<slots, free, generations>>

(* remove asks nothing of the id: the entity is in the default plane again. *)
remove_dimension(id) ==
    /\ id \in DOMAIN dims
    /\ dims' = [i \in DOMAIN dims \ {id} |-> dims[i]]
    /\ meant' = IF Alive(id) THEN [meant EXCEPT ![id].dim = DEFAULT] ELSE meant
    /\ UNCHANGED <<slots, free, generations>>

prune ==
    /\ dims' = [i \in {j \in DOMAIN dims : Alive(j)} |-> dims[i]]
    /\ UNCHANGED <<slots, free, generations, meant>>

(* dimension_of a live id, which entity_bucket returns too. *)
dimension_of(id) == IF id \in DOMAIN dims THEN dims[id] ELSE DEFAULT

(* members_of: only assignments are looked at, so that an entity never     *)
(* assigned is in no list, the default one included. *)
members_of(d) == {id \in DOMAIN dims : dims[id] = d /\ Alive(id)}

visible_to(x, y) == Alive(x) /\ Alive(y) /\ dimension_of(x) = dimension_of(y)

EntityNext ==
    \/ \E auth \in Authority : spawn(auth)
    \/ \E id \in EntityId :
         \/ destroy(id) \/ set_component(id) \/ remove_dimension(id)
         \/ \E d \in Buckets : set_dimension(id, d)
         \/ \E expected, next \in Authority : transfer_entity(id, expected, next)
    \/ prune

(* An id names one entity for ever: the free list holds exactly the empty  *)
(* slots, each once, and a live id reads what was set through that same id *)
(* since its spawn, whatever stale ids, reuse of slots, assignments left   *)
(* behind by the dead and prunes came between. *)
IdsNeverAlias ==
    /\ ToSet(free) = {i \in DOMAIN slots : slots[i] = Empty}
    /\ Len(free) = Cardinality(ToSet(free))
    /\ \A id \in EntityId : Alive(id) =>
         meant[id] = [dim |-> dimension_of(id), authority |-> slots[id.index].authority,
                      components |-> slots[id.index].components]
    /\ \A x, y \in EntityId : \A d \in Buckets :
         x \in members_of(d) /\ y \in members_of(d) => visible_to(x, y)

-----------------------------------------------------------------------------
(* The spatial grid.  Positions are on the horizontal plane. *)

VARIABLES
    cells,          \* cell key -> the bodies in it, each with how often; a partial function
    positions       \* body -> its position; a partial function

gridVars == <<cells, positions>>

GridInit == cells = <<>> /\ positions = <<>>

(* The floor, for negative coordinates too. *)
cell_of(p) == <<p[1] \div Cell, p[2] \div Cell>>

(* A body leaves its cell, however often it is in it (retain); a cell left *)
(* empty is dropped. *)
Leave(from, key, e) ==
    LET rest == [x \in DOMAIN from[key] \ {e} |-> from[key][x]]
    IN  IF DOMAIN rest = {} THEN [k \in DOMAIN from \ {key} |-> from[k]]
                            ELSE Bind(from, key, rest)

(* push, which does not look whether the body is there already. *)
Enter(into, key, e) ==
    LET cell == IF key \in DOMAIN into THEN into[key] ELSE <<>>
    IN  Bind(into, key, Bind(cell, e, IF e \in DOMAIN cell THEN cell[e] + 1 ELSE 1))

(* Mutant: a body that crosses into another cell stays in its old one too. *)
upsert_stays(e, p) ==
    /\ positions' = Bind(positions, e, p)
    /\ cells' = IF e \in DOMAIN positions /\ cell_of(positions[e]) = cell_of(p) THEN cells
                ELSE Enter(cells, cell_of(p), e)

upsert(e, p) ==
    LET key == cell_of(p)
        old == cell_of(positions[e])
    IN  /\ positions' = Bind(positions, e, p)
        /\ cells' = IF e \notin DOMAIN positions THEN Enter(cells, key, e)
                    ELSE IF old = key THEN cells
                    ELSE Enter(Leave(cells, old, e), key, e)

remove_body(e) ==
    /\ e \in DOMAIN positions
    /\ positions' = [x \in DOMAIN positions \ {e} |-> positions[x]]
    /\ cells' = Leave(cells, cell_of(positions[e]), e)

(* horizontal_distance, squared. *)
Distance2(p, q) == (p[1] - q[1]) * (p[1] - q[1]) + (p[2] - q[2]) * (p[2] - q[2])

Within(p, q, radius) == Distance2(p, q) <= radius * radius

(* query_radius: the cells that the square around the circle overlaps. *)
query_radius(center, radius) ==
    LET low  == cell_of(<<center[1] - radius, center[2] - radius>>)
        high == cell_of(<<center[1] + radius, center[2] + radius>>)
    IN  {e \in UNION {DOMAIN cells[k] : k \in {c \in DOMAIN cells :
                        c[1] \in low[1]..high[1] /\ c[2] \in low[2]..high[2]}} :
           Within(positions[e], center, radius)}

InterestTier == {"High", "Medium", "Low", "None"}

interest_tier(observer, p) ==
    IF Within(p, observer, NearRadius) THEN "High"
    ELSE IF Within(p, observer, MediumRadius) THEN "Medium"
    ELSE IF Within(p, observer, FarRadius) THEN "Low" ELSE "None"

(* replication_set: whatever stands where the observer stands is left out. *)
replication_set(observer) ==
    {<<e, interest_tier(observer, positions[e])>> :
        e \in {x \in query_radius(observer, FarRadius) : positions[x] # observer}}

GridNext ==
    \E e \in Bodies : remove_body(e) \/ \E p \in Coords \X Coords : upsert(e, p)

(* After any sequence of inserts, moves within and across cells and        *)
(* removals, every body is in one cell, once, and in the cell of its       *)
(* position, so that the scan of the cells finds what a scan of all        *)
(* positions would; what is replicated to an observer is every body with a *)
(* tier that does not stand where the observer stands. *)
GridExact ==
    /\ DOMAIN cells = {cell_of(positions[e]) : e \in DOMAIN positions}
    /\ \A k \in DOMAIN cells :
         cells[k] = [e \in {b \in DOMAIN positions : cell_of(positions[b]) = k} |-> 1]
    /\ \A at \in Coords \X Coords :
         /\ \A r \in 1..FarRadius :
              query_radius(at, r) = {e \in DOMAIN positions : Within(positions[e], at, r)}
         /\ replication_set(at) \subseteq Bodies \X (InterestTier \ {"None"})
         /\ {x[1] : x \in replication_set(at)} =
              {e \in DOMAIN positions : positions[e] # at /\ interest_tier(at, positions[e]) # "None"}

-----------------------------------------------------------------------------
(* Ambient population and the routing buckets of players.  A policy is the *)
(* largest number of a kind and its density, in halves. *)

VARIABLES
    policies,       \* dimension -> its policy, or NoPolicy
    densities,      \* bucket -> the density policy it was given, or NoPolicy
    counts,         \* dimension -> ambients alive
    ceiling,        \* dimension -> the largest cap it was given (history)
    player_bucket,  \* the bucket of a player
    told,           \* the bucket the change hook last heard of (history)
    lockdown,       \* locked buckets
    grants          \* locked buckets the player was let into

populationVars == <<policies, densities, counts, ceiling, player_bucket, told, lockdown, grants>>

DensityPolicy == [max : 0..MaxAmbient, density : 0..2]

NoPolicy == [max |-> 0, density |-> -1]

PopulationInit ==
    /\ policies = [d \in Buckets |-> NoPolicy] /\ densities = [d \in Buckets |-> NoPolicy]
    /\ counts = [d \in Buckets |-> 0] /\ ceiling = [d \in Buckets |-> 0]
    /\ player_bucket = 0 /\ told = 0 /\ lockdown = {} /\ grants = {}

bucketVars == <<player_bucket, told, lockdown, grants>>

(* The floor of max times density. *)
cap(policy) == (policy.max * policy.density) \div 2

Raised(p) == [d \in Buckets |-> IF p[d] = NoPolicy THEN ceiling[d] ELSE Max({ceiling[d], cap(p[d])})]

(* Counts are not culled when a policy is replaced or cleared. *)
set_policy(d, policy) ==
    /\ policies' = [policies EXCEPT ![d] = policy]
    /\ ceiling' = Raised(policies')
    /\ UNCHANGED <<densities, counts, bucketVars>>

clear_policy(d) ==
    /\ policies[d] # NoPolicy
    /\ policies' = [policies EXCEPT ![d] = NoPolicy]
    /\ UNCHANGED <<densities, counts, ceiling, bucketVars>>

(* Mutant: the cap itself still admits one. *)
Admits_at_cap(d) == policies[d] # NoPolicy /\ counts[d] <= cap(policies[d])

(* What request_spawn decides. *)
Admits(d) == policies[d] # NoPolicy /\ counts[d] < cap(policies[d])

request_spawn(d) ==
    /\ Admits(d)
    /\ counts' = [counts EXCEPT ![d] = @ + 1]
    /\ UNCHANGED <<policies, densities, ceiling, bucketVars>>

(* A release of what is not there reports false. *)
release(d) ==
    /\ counts[d] > 0
    /\ counts' = [counts EXCEPT ![d] = @ - 1]
    /\ UNCHANGED <<policies, densities, ceiling, bucketVars>>

set_density(b, policy) ==
    /\ densities' = [densities EXCEPT ![b] = policy]
    /\ UNCHANGED <<policies, counts, ceiling, bucketVars>>

(* sync_density: every bucket with a density overrides its dimension. *)
sync_density ==
    /\ policies' = [d \in Buckets |-> IF densities[d] # NoPolicy THEN densities[d] ELSE policies[d]]
    /\ ceiling' = Raised(policies')
    /\ UNCHANGED <<densities, counts, bucketVars>>

(* set_player_bucket: hooks hear of changes only, and no lock is asked. *)
set_player_bucket(b) ==
    /\ player_bucket # b
    /\ player_bucket' = b /\ told' = b
    /\ UNCHANGED <<policies, densities, counts, ceiling, lockdown, grants>>

set_lockdown(b, locked) ==
    /\ lockdown' = IF locked THEN lockdown \cup {b} ELSE lockdown \ {b}
    /\ UNCHANGED <<policies, densities, counts, ceiling, player_bucket, told, grants>>

grant(b) ==
    /\ grants' = grants \cup {b}
    /\ UNCHANGED <<policies, densities, counts, ceiling, player_bucket, told, lockdown>>

revoke(b) ==
    /\ grants' = grants \ {b}
    /\ UNCHANGED <<policies, densities, counts, ceiling, player_bucket, told, lockdown>>

can_see(entity_bucket) ==
    player_bucket = entity_bucket /\ (entity_bucket \in lockdown => entity_bucket \in grants)

PopulationNext ==
    \/ \E d \in Buckets :
         \/ clear_policy(d) \/ request_spawn(d) \/ release(d)
         \/ \E p \in DensityPolicy : set_policy(d, p) \/ set_density(d, p)
    \/ sync_density

BucketNext ==
    \E b \in Buckets :
        set_player_bucket(b) \/ grant(b) \/ revoke(b) \/ \E on \in BOOLEAN : set_lockdown(b, on)

(* No dimension ever holds more ambients than the most generous policy it  *)
(* was ever given allowed, however policies are replaced, cleared and      *)
(* pushed down from the buckets while ambients live; and a player sees at  *)
(* most the one bucket that the hooks were last told of. *)
BudgetsHold ==
    /\ \A d \in Buckets : counts[d] <= ceiling[d]
    /\ \A b \in Buckets : can_see(b) => b = told

(* The world's tables agree with each other: an entity id never names a    *)
(* second entity, the grid's cells agree with the positions, and the       *)
(* ambients of a dimension stay within what its policies ever allowed.     *)
WorldSound == IdsNeverAlias /\ GridExact /\ BudgetsHold
=============================================================================
