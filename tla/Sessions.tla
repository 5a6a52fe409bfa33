------------------------------ MODULE Sessions ------------------------------
(***************************************************************************)
(* The session table of AstraNet: sessions by id, and the id of the        *)
(* current session of each address.  A session is its address here.  The   *)
(* id is random and 64 bits wide: create draws one that is not in use.     *)
(***************************************************************************)
EXTENDS Integers, FiniteSets

CONSTANTS
    SessionIds,        \* session ids
    Addrs,      \* peer addresses
    NoId        \* no session for an address

ASSUME SessionsAssumption == NoId \notin SessionIds

VARIABLES
    by_id,      \* live sessions: set of [id, addr]
    by_addr,    \* address -> id of its session, or NoId
    idle        \* ids of sessions that were not heard of for the timeout

sessionVars == <<by_id, by_addr, idle>>

Live == {s.id : s \in by_id}

SessionsInit ==
    /\ by_id = {}
    /\ by_addr = [a \in Addrs |-> NoId]
    /\ idle = {}

(* create: a second session for an address takes the address over and      *)
(* leaves the first one in the table. *)
create(i, a) ==
    /\ i \notin Live
    /\ by_id' = by_id \cup {[id |-> i, addr |-> a]}
    /\ by_addr' = [by_addr EXCEPT ![a] = i]
    /\ idle' = idle \ {i}

(* Mutant: the address of a dropped session is kept. *)
Kept(dead) == by_addr

(* What dropping the sessions in dead leaves of the address table: remove  *)
(* clears the entry of the session's address, whoever owns it. *)
Cleared(dead) ==
    [a \in Addrs |-> IF \E s \in dead : s.addr = a THEN NoId ELSE by_addr[a]]

remove(s) ==
    /\ s \in by_id
    /\ by_id' = by_id \ {s}
    /\ by_addr' = Cleared({s})
    /\ UNCHANGED idle

(* A session goes quiet, or is heard of again (touch). *)
fall_idle(s) ==
    /\ s \in by_id
    /\ idle' = idle \cup {s.id}
    /\ UNCHANGED <<by_id, by_addr>>

touch(s) ==
    /\ s \in by_id
    /\ idle' = idle \ {s.id}
    /\ UNCHANGED <<by_id, by_addr>>

(* expire_idle: removes every session idle for longer than the timeout. *)
expire_idle ==
    LET dead == {s \in by_id : s.id \in idle}
    IN  /\ dead # {}
        /\ by_id' = by_id \ dead
        /\ by_addr' = Cleared(dead)
        /\ UNCHANGED idle

SessionsNext ==
    \/ \E i \in SessionIds, a \in Addrs : create(i, a)
    \/ \E s \in by_id : remove(s) \/ fall_idle(s) \/ touch(s)
    \/ expire_idle

SessionsSpec == SessionsInit /\ [][SessionsNext]_sessionVars

-----------------------------------------------------------------------------
(* Properties. *)

SessionsTypeOK ==
    /\ by_id \subseteq [id : SessionIds, addr : Addrs]
    /\ by_addr \in [Addrs -> SessionIds \cup {NoId}]
    /\ idle \subseteq SessionIds

(* A session id names one session. *)
IdsUnique == \A s, t \in by_id : s.id = t.id => s = t

(* get_by_addr never finds a session that is gone or one of another        *)
(* address, whatever reconnects, drops and expiries came before.           *)
NoDangling ==
    \A a \in Addrs : by_addr[a] # NoId => [id |-> by_addr[a], addr |-> a] \in by_id

SessionsInv == SessionsTypeOK /\ IdsUnique /\ NoDangling
=============================================================================
