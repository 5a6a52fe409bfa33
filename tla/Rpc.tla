-------------------------------- MODULE Rpc --------------------------------
(***************************************************************************)
(* The registry of pending requests: any number of threads create, track   *)
(* and resolve requests while one sweeps with expire.  The three tables    *)
(* have a lock each and no operation holds the pending lock for longer     *)
(* than one access, so track has two steps (the pending table, then the    *)
(* timeout list) and expire one per timeout entry plus the final removal,  *)
(* all under the timeout lock.  The order of the timeout list does not     *)
(* matter: it is a set of ids here.  A request is overdue once its timeout *)
(* has run since it was created.                                           *)
(***************************************************************************)
EXTENDS Integers, FiniteSets

CONSTANT MaxRequests   \* bound: requests created over a run

ASSUME RpcAssumption == MaxRequests \in Nat

VARIABLES
    next_id,    \* the last id given out
    pending,    \* ids in the pending table
    timeouts,   \* ids in the timeout list
    inserting,  \* ids whose track is between its two steps
    issued,     \* ids whose track has returned
    overdue,    \* ids whose timeout has run
    sweep,      \* expire in progress: [on, due, todo, expired]
    resolved,   \* history: ids resolve returned a request for
    timed_out   \* history: ids expire returned

rpcVars == <<next_id, pending, timeouts, inserting, issued, overdue, sweep,
             resolved, timed_out>>

Ids == 1..MaxRequests

NoSweep == [on |-> FALSE, due |-> {}, todo |-> {}, expired |-> {}]

RpcInit ==
    /\ next_id = 0
    /\ pending = {} /\ timeouts = {}
    /\ inserting = {} /\ issued = {} /\ overdue = {}
    /\ sweep = NoSweep
    /\ resolved = {} /\ timed_out = {}

-----------------------------------------------------------------------------
(* new_request and the first half of track: the pending table. *)
track_pending ==
    /\ next_id < MaxRequests
    /\ next_id' = next_id + 1
    /\ pending' = pending \cup {next_id + 1}
    /\ inserting' = inserting \cup {next_id + 1}
    /\ UNCHANGED <<timeouts, issued, overdue, sweep, resolved, timed_out>>

(* The second half of track waits for the timeout lock. *)
track_timeout(i) ==
    /\ i \in inserting
    /\ ~sweep.on
    /\ timeouts' = timeouts \cup {i}
    /\ inserting' = inserting \ {i}
    /\ issued' = issued \cup {i}
    /\ UNCHANGED <<next_id, pending, overdue, sweep, resolved, timed_out>>

(* The request is sent once it is tracked; an answer, perhaps a second     *)
(* one, arrives at any time after that.  An unknown id changes nothing. *)
resolve(i) ==
    /\ i \in issued \cap pending
    /\ pending' = pending \ {i}
    /\ resolved' = resolved \cup {i}
    /\ UNCHANGED <<next_id, timeouts, inserting, issued, overdue, sweep, timed_out>>

(* Time passes: the timeout of a request runs. *)
time_out(i) ==
    /\ i \in (inserting \cup issued) \ overdue
    /\ overdue' = overdue \cup {i}
    /\ UNCHANGED <<next_id, pending, timeouts, inserting, issued, sweep,
                   resolved, timed_out>>

(* Mutant: the deadline is compared the wrong way round. *)
expire_begin_reversed ==
    /\ ~sweep.on
    /\ sweep' = [on |-> TRUE, due |-> Ids \ overdue, todo |-> timeouts, expired |-> {}]
    /\ UNCHANGED <<next_id, pending, timeouts, inserting, issued, overdue,
                   resolved, timed_out>>

(* expire: read the clock, take the timeout lock and walk the list. *)
expire_begin ==
    /\ ~sweep.on
    /\ sweep' = [on |-> TRUE, due |-> overdue, todo |-> timeouts, expired |-> {}]
    /\ UNCHANGED <<next_id, pending, timeouts, inserting, issued, overdue,
                   resolved, timed_out>>

(* Mutant: an entry leaves the list as soon as it has been looked at. *)
Dropped(i) == TRUE

(* retain's predicate: an entry goes when its request is overdue or no     *)
(* longer pending. *)
Gone(i) == i \notin pending \/ i \in sweep.due

expire_entry(i) ==
    /\ sweep.on /\ i \in sweep.todo
    /\ timeouts' = IF Gone(i) THEN timeouts \ {i} ELSE timeouts
    /\ sweep' = [sweep EXCEPT !.todo = @ \ {i},
                              !.expired = IF i \in pending \cap sweep.due
                                          THEN @ \cup {i} ELSE @]
    /\ UNCHANGED <<next_id, pending, inserting, issued, overdue, resolved, timed_out>>

(* Remove what expired from the pending table and return its ids. *)
expire_end ==
    /\ sweep.on /\ sweep.todo = {}
    /\ pending' = pending \ sweep.expired
    /\ timed_out' = timed_out \cup sweep.expired
    /\ sweep' = NoSweep
    /\ UNCHANGED <<next_id, timeouts, inserting, issued, overdue, resolved>>

RpcNext ==
    \/ track_pending
    \/ \E i \in Ids : track_timeout(i) \/ resolve(i) \/ time_out(i) \/ expire_entry(i)
    \/ expire_begin \/ expire_end

RpcSpec == RpcInit /\ [][RpcNext]_rpcVars

-----------------------------------------------------------------------------
(* Properties. *)

RpcTypeOK ==
    /\ next_id \in 0..MaxRequests
    /\ pending \subseteq Ids /\ timeouts \subseteq Ids
    /\ inserting \subseteq Ids /\ issued \subseteq Ids /\ overdue \subseteq Ids
    /\ sweep \in [on : BOOLEAN, due : SUBSET Ids, todo : SUBSET Ids, expired : SUBSET Ids]
    /\ resolved \subseteq Ids /\ timed_out \subseteq Ids

(* "Pending requests are tracked so callbacks never stay unresolved": a    *)
(* pending request is always in the timeout list, about to be put there by *)
(* its own track, or about to be removed by the sweep in progress. *)
PendingIsWatched == pending \subseteq timeouts \cup inserting \cup sweep.expired

(* A request is reported as timed out at most once and stays out of the    *)
(* table: no later answer finds it. *)
TimedOutIsOver == timed_out \cap pending = {}

(* Every tracked request ends, answered or timed out. *)
NeverUnresolved == \A i \in Ids : i \in issued ~> i \in resolved \cup timed_out

(* The inductive invariant. *)
RpcInv ==
    /\ RpcTypeOK
    /\ PendingIsWatched
    /\ TimedOutIsOver
    /\ (~sweep.on) => sweep = NoSweep
    /\ timed_out \cup pending \cup sweep.expired \subseteq 1..next_id
=============================================================================
