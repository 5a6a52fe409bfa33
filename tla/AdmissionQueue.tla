--------------------------- MODULE AdmissionQueue ---------------------------
(***************************************************************************)
(* The admission queue of crates/ald-queue: playing slots, some of them    *)
(* kept for reservation holders, and a bounded FIFO waitlist.              *)
(*                                                                         *)
(* The crate is pure logic: the caller passes the time of every call, and  *)
(* the server passes its wall clock, which may step back.  So an action    *)
(* takes any instant of Times, and an entry may be dated in the future of  *)
(* a later call.                                                           *)
(***************************************************************************)
EXTENDS Naturals, Sequences, FiniteSets

CONSTANTS
    Players,        \* the player ids that may ask to join
    MaxPlayers,     \* QueueConfig::max_players
    ReservedSlots,  \* QueueConfig::reserved_slots
    MaxQueueLen,    \* QueueConfig::max_queue_len
    StaleAfter,     \* QueueConfig::stale_after_ms, in ticks; 0 disables expiry
    Times           \* the instants a caller may pass

ASSUME QueueConfigAssumption ==
    /\ MaxPlayers \in Nat
    /\ ReservedSlots \in Nat
    /\ MaxQueueLen \in Nat
    /\ StaleAfter \in Nat
    /\ Times \subseteq Nat
    /\ ReservedSlots <= MaxPlayers      \* else QueueConfig::new fails

VARIABLES
    playing,        \* Queue::playing, a set: its order is never read
    waitlist        \* Queue::waitlist, front first

queueVars == <<playing, waitlist>>

PlayingEntry == [id : Players, holds : BOOLEAN]
QueuedEntry  == [id : Players, holds : BOOLEAN, at : Times]

-----------------------------------------------------------------------------
is_playing(p) == \E e \in playing : e.id = p

is_queued(p) == \E i \in DOMAIN waitlist : waitlist[i].id = p

\* Playing slots a player without a reservation may occupy.
open_slots == MaxPlayers - ReservedSlots

\* Faulty variant: the reservation is not looked at.
fits_any(n, holds) == n < MaxPlayers

\* Whether n occupied slots leave room for a player of that class.
fits(n, holds) == IF holds THEN n < MaxPlayers ELSE n < open_slots

slot_free_for(holds) == fits(Cardinality(playing), holds)

\* The sequence s without its i-th element (VecDeque::remove).
Without(s, i) == [j \in 1 .. (Len(s) - 1) |-> IF j < i THEN s[j] ELSE s[j + 1]]

\* The positions K of a sequence, in ascending order.
Ascending(K) == {f \in [1 .. Cardinality(K) -> K] :
                    \A a, b \in 1 .. Cardinality(K) : a < b => f[a] < f[b]}

-----------------------------------------------------------------------------
(* Queue::join, one action per outcome.  The id in a request is never empty
   here: AdmissionManager rejects empty ids before it calls join. *)

AlreadyPresent(p) == is_playing(p) \/ is_queued(p)

JoinAdmitted(p, holds) ==
    /\ ~AlreadyPresent(p)
    /\ slot_free_for(holds)
    /\ playing' = playing \cup {[id |-> p, holds |-> holds]}
    /\ UNCHANGED waitlist

\* Faulty variant: the newcomer is pushed at the front.
JoinQueuedFront(p, holds, t) ==
    /\ ~AlreadyPresent(p)
    /\ ~slot_free_for(holds)
    /\ Len(waitlist) < MaxQueueLen
    /\ waitlist' = <<[id |-> p, holds |-> holds, at |-> t]>> \o waitlist
    /\ UNCHANGED playing

\* Faulty variant: the limit is overrun by one.
JoinQueued_one_more(p, holds, t) ==
    /\ ~AlreadyPresent(p)
    /\ ~slot_free_for(holds)
    /\ Len(waitlist) <= MaxQueueLen
    /\ waitlist' = Append(waitlist, [id |-> p, holds |-> holds, at |-> t])
    /\ UNCHANGED playing

JoinQueued(p, holds, t) ==
    /\ ~AlreadyPresent(p)
    /\ ~slot_free_for(holds)
    /\ Len(waitlist) < MaxQueueLen
    /\ waitlist' = Append(waitlist, [id |-> p, holds |-> holds, at |-> t])
    /\ UNCHANGED playing

\* The outcome Rejected: AlreadyPresent, or ServerFull / QueueFull.
JoinRejected(p, holds) ==
    /\ \/ AlreadyPresent(p)
       \/ /\ ~slot_free_for(holds)
          /\ Len(waitlist) >= MaxQueueLen
    /\ UNCHANGED queueVars

-----------------------------------------------------------------------------
\* Faulty variant: only the head of the waitlist is considered.
promote_head_only(rest) ==
    LET head == waitlist[1]
        fit  == waitlist # <<>> /\ fits(Cardinality(rest), head.holds)
    IN  /\ playing' = IF fit THEN rest \cup {[id |-> head.id, holds |-> head.holds]}
                             ELSE rest
        /\ waitlist' = IF fit THEN Tail(waitlist) ELSE waitlist

\* Faulty variant: the last entry that fits is promoted.
promote_back_fit(rest) ==
    LET fit == {i \in DOMAIN waitlist :
                    fits(Cardinality(rest), waitlist[i].holds)}
    IN  \/ /\ fit = {}
           /\ playing' = rest
           /\ UNCHANGED waitlist
        \/ \E i \in fit :
              /\ \A j \in fit : j <= i
              /\ playing' = rest \cup {[id    |-> waitlist[i].id,
                                        holds |-> waitlist[i].holds]}
              /\ waitlist' = Without(waitlist, i)

(* Queue::playing_leave and promote_front_fit: n slots stay occupied by the
   set rest, and the first waiting entry that now fits takes the freed one. *)

promote_front_fit(rest) ==
    LET fit == {i \in DOMAIN waitlist :
                    fits(Cardinality(rest), waitlist[i].holds)}
    IN  \/ /\ fit = {}
           /\ playing' = rest
           /\ UNCHANGED waitlist
        \/ \E i \in fit :
              /\ \A j \in fit : i <= j
              /\ playing' = rest \cup {[id    |-> waitlist[i].id,
                                        holds |-> waitlist[i].holds]}
              /\ waitlist' = Without(waitlist, i)

playing_leave(p) ==
    \E e \in playing :
        /\ e.id = p
        /\ promote_front_fit(playing \ {e})

queue_leave(p) ==
    \E i \in DOMAIN waitlist :
        /\ waitlist[i].id = p
        /\ waitlist' = Without(waitlist, i)
        /\ UNCHANGED playing

\* Entries dated after t have age 0 (saturating_sub) and are kept.
stale(e, t) == t > e.at /\ t - e.at > StaleAfter

expire_stale(t) ==
    LET kept == {i \in DOMAIN waitlist : ~stale(waitlist[i], t)}
    IN  /\ StaleAfter # 0
        /\ \E f \in Ascending(kept) :
               waitlist' = [k \in 1 .. Cardinality(kept) |-> waitlist[f[k]]]
        /\ UNCHANGED playing

-----------------------------------------------------------------------------
QueueInit ==
    /\ playing = {}
    /\ waitlist = <<>>

QueueNext ==
    \/ \E p \in Players, h \in BOOLEAN :
          \/ JoinAdmitted(p, h)
          \/ \E t \in Times : JoinQueued(p, h, t)
          \/ JoinRejected(p, h)
    \/ \E p \in Players : playing_leave(p) \/ queue_leave(p)
    \/ \E t \in Times : expire_stale(t)

QueueSpec == QueueInit /\ [][QueueNext]_queueVars

(* Players do not play for ever: everyone who plays leaves at last.  Nothing
   is assumed of the players who wait or of the expiry timer. *)
QueueFairSpec == QueueSpec /\ \A p \in Players : WF_queueVars(playing_leave(p))

-----------------------------------------------------------------------------
(* Types of the two collections; the waitlist stays within its bound. *)
QueueTypeOK ==
    /\ playing \subseteq PlayingEntry
    /\ waitlist \in Seq(QueuedEntry)
    /\ Len(waitlist) <= MaxQueueLen

(* No slot is oversold: Queue never holds more than max_players, and players
   without a reservation never take one of the reserved slots, whatever
   order joins, departures and promotions happen in. *)
SlotCaps ==
    /\ Cardinality(playing) <= MaxPlayers
    /\ Cardinality({e \in playing : ~e.holds}) <= open_slots

(* A player id is in one place only: it has at most one playing entry or one
   waitlist entry and never both (is_playing / is_queued in Queue::join). *)
OnePlace ==
    /\ \A e1, e2 \in playing : e1.id = e2.id => e1 = e2
    /\ \A i, j \in DOMAIN waitlist :
          waitlist[i].id = waitlist[j].id => i = j
    /\ \A i \in DOMAIN waitlist : ~is_playing(waitlist[i].id)

(* No slot is left idle while someone waits who may take it, although only
   playing_leave promotes, one entry at a time, and queue_leave and
   expire_stale promote nobody. *)
NoIdleSlot ==
    \A i \in DOMAIN waitlist : ~slot_free_for(waitlist[i].holds)

(* FIFO within a class: whoever starts to play, directly or by promotion,
   overtakes nobody with the same kind of reservation who waited before. *)
NoOvertaking ==
    [][\A e \in playing' \ playing :
          \A i \in DOMAIN waitlist :
             (/\ waitlist[i].holds = e.holds
              /\ waitlist[i].id # e.id)
             => \E j \in 1 .. (i - 1) : waitlist[j].id = e.id]_queueVars

(* Nobody waits for ever: a waiting player plays or leaves the waitlist.
   With reserved slots this is said of those who hold a reservation, whom the
   others may wait behind; AdmissionManager::new reserves none, and then it is
   said of everybody. *)
WaitersServed ==
    \A p \in Players :
       (\E i \in DOMAIN waitlist :
           waitlist[i].id = p /\ (ReservedSlots = 0 \/ waitlist[i].holds))
       ~> ~is_queued(p)

(* The queue is a server with slots: with the waitlist read as a set, every  *)
(* call of Queue is one arrival, one departure that fills the freed slot, or *)
(* some of those who wait going away, and nothing else.                      *)
Waiting == {[id |-> waitlist[i].id, holds |-> waitlist[i].holds] : i \in DOMAIN waitlist}

Slots == INSTANCE SlotServer WITH
            Guests <- Players, Seats <- MaxPlayers, Kept <- ReservedSlots,
            Standing <- MaxQueueLen, Size <- Cardinality,
            seated <- playing, stood <- Waiting

(* Queue::join, playing_leave, queue_leave and expire_stale implement the    *)
(* slot server: who is let in, promoted, made to wait or dropped is as it    *)
(* promises, for every order of calls.                                       *)
ImplementsSlots == Slots!SlotSpec
=============================================================================
