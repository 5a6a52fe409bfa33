------------------------------ MODULE Residency ------------------------------
(***************************************************************************)
(* The residency tracker: the handshake by which the game takes a mounted  *)
(* asset, on the caller's tick clock, with bounded retries.  A deadline is *)
(* kept as the ticks left until it, which is all that is compared.         *)
(***************************************************************************)
EXTENDS Integers, FiniteSetsExt

CONSTANTS
    Assets,
    Timeout,        \* timeout_ticks of every request
    MaxRetries      \* max_retries of every request

ASSUME ResidencyAssumption == Timeout \in Nat \ {0} /\ MaxRetries \in Nat

VARIABLE
    residency       \* asset -> its request: state, ticks left, retries used

residencyVars == <<residency>>

Untracked == [state |-> "none", left |-> 0, retries |-> 0]

ResidencyTerminal == {"Ready", "Failed", "Expired", "Cancelled"}

Tracked(a) == residency[a].state # "none"

ResidencyInit ==
    residency = [a \in Assets |-> Untracked]

(* What the bridge answers to request_residency, and the state it leads to. *)
CommitOutcome ==
    {[outcome |-> "Accepted", state |-> "Resident"],
     [outcome |-> "Retryable", state |-> "Waiting"],
     [outcome |-> "Fatal", state |-> "Failed"]}

Asked(a, c, retries) ==
    residency' = [residency EXCEPT ![a] =
        [state |-> c.state, left |-> IF c.state = "Failed" THEN 0 ELSE Timeout, retries |-> retries]]

(* A duplicate id is refused. *)
request(a, c) == ~Tracked(a) /\ Asked(a, c, 0)

To(a, state) == residency' = [residency EXCEPT ![a].state = state, ![a].left = 0]

(* poll of a waiting request past its deadline: ask again, or give up. *)
poll_retry(a, c) ==
    LET r == residency[a]
    IN  /\ r.state = "Waiting" /\ r.left = 0 /\ r.retries < MaxRetries
        /\ Asked(a, c, r.retries + 1)

poll_exhausted(a) ==
    /\ residency[a].state = "Waiting" /\ residency[a].left = 0
    /\ residency[a].retries >= MaxRetries
    /\ To(a, "Expired")

(* poll of a resident one: the bridge confirms, or the deadline decides. *)
poll_confirmed(a) ==
    /\ residency[a].state = "Resident"
    /\ To(a, "Ready")

(* Mutant: an unconfirmed resident is never given up. *)
poll_unconfirmed_patient(a) == FALSE /\ UNCHANGED residencyVars

poll_unconfirmed(a) ==
    /\ residency[a].state = "Resident" /\ residency[a].left = 0
    /\ To(a, "Expired")

(* What a poll does once the deadline passed, unless the bridge confirms. *)
poll_overdue(a) ==
    \/ \E c \in CommitOutcome : poll_retry(a, c)
    \/ poll_exhausted(a) \/ poll_unconfirmed(a)

poll(a) == poll_overdue(a) \/ poll_confirmed(a)

ResidencyCancel(a) ==
    /\ Tracked(a) /\ residency[a].state \notin ResidencyTerminal
    /\ To(a, "Cancelled")

(* reap_terminal: ended requests are dropped, their ids free again. *)
reap_terminal ==
    LET dead == {a \in Assets : residency[a].state \in ResidencyTerminal}
    IN  /\ dead # {}
        /\ residency' = [a \in Assets |-> IF a \in dead THEN Untracked ELSE residency[a]]

(* The caller's clock moves. *)
ResidencyTick ==
    /\ \E a \in Assets : residency[a].left > 0
    /\ residency' = [a \in Assets |-> [residency[a] EXCEPT !.left = Max({@ - 1, 0})]]

ResidencyNext ==
    \/ \E a \in Assets :
         \/ \E c \in CommitOutcome : request(a, c)
         \/ poll(a) \/ ResidencyCancel(a)
    \/ reap_terminal \/ ResidencyTick

ResidencySpec == ResidencyInit /\ [][ResidencyNext]_residencyVars

-----------------------------------------------------------------------------
(* Properties. *)

(* "No indefinite waits": whatever the bridge answers, and if it never     *)
(* confirms, every request ends. *)
RequestEnds ==
    \A a \in Assets :
        residency[a].state \in {"Waiting", "Resident"} ~>
            residency[a].state \notin {"Waiting", "Resident"}
=============================================================================
