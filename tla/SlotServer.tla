----------------------------- MODULE SlotServer -----------------------------
(***************************************************************************)
(* What a server with slots promises to those who come, whatever keeps its *)
(* books: some are seated and some stand.  There is no order and no clock  *)
(* here.  Whoever comes and could be seated is seated at once; whoever     *)
(* stands is seated when somebody departs and the seat suits, and one seat *)
(* is filled per departure; those who stand may leave or be sent away in   *)
(* any number.  AdmissionQueue implements this with its waitlist.          *)
(***************************************************************************)
EXTENDS Naturals

CONSTANTS
    Guests,     \* who may come
    Seats,      \* seats in all
    Kept,       \* seats kept for guests with a reservation
    Standing,   \* how many may stand
    Size(_)     \* how many are in a set of guests (Cardinality)

VARIABLES
    seated,     \* guests with a seat: set of [id, holds]
    stood       \* guests without one: set of [id, holds]

slotVars == <<seated, stood>>

Guest == [id : Guests, holds : BOOLEAN]

Known(p) == \E g \in seated \cup stood : g.id = p

\* The seat a guest would get if those of S sat.
Suits(S, g) == Size(S) < (IF g.holds THEN Seats ELSE Seats - Kept)

SlotInit == seated = {} /\ stood = {}

BeSeated(g) ==
    /\ ~Known(g.id) /\ Suits(seated, g)
    /\ seated' = seated \cup {g} /\ UNCHANGED stood

Stand(g) ==
    /\ ~Known(g.id) /\ ~Suits(seated, g)
    /\ Size(stood) < Standing
    /\ stood' = stood \cup {g} /\ UNCHANGED seated

\* A seat is freed; one of those it suits, if any, takes it in the same step.
Depart(g) ==
    LET rest == seated \ {g}
        next == {w \in stood : Suits(rest, w)}
    IN  /\ g \in seated
        /\ \/ next = {} /\ seated' = rest /\ UNCHANGED stood
           \/ \E w \in next : seated' = rest \cup {w} /\ stood' = stood \ {w}

GoAway(W) ==
    /\ W \subseteq stood
    /\ stood' = stood \ W /\ UNCHANGED seated

SlotNext ==
    \/ \E g \in Guest : BeSeated(g) \/ Stand(g)
    \/ \E g \in seated : Depart(g)
    \/ \E W \in SUBSET stood : GoAway(W)

SlotSpec == SlotInit /\ [][SlotNext]_slotVars
=============================================================================
