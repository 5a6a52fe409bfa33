---------------------------- MODULE Reliability ----------------------------
(***************************************************************************)
(* The receive window of one AstraNet session.  A sender numbers its       *)
(* packets 0, 1, 2, ...; the wire carries the number modulo 2^SeqBits, and *)
(* the network delivers any packet again, late, out of order or never, as  *)
(* long as it is not older than Lifetime.  The network never loses half    *)
(* the sequence space in a row: the session would idle out first.          *)
(* validate keeps the highest number accepted and a bit mask of the        *)
(* MaskBits numbers behind it (64 in the code), here the set of the bits   *)
(* that are on; a packet less than Window (1024) behind is let through.    *)
(***************************************************************************)
EXTENDS Integers, FiniteSets

CONSTANTS
    SeqBits,    \* width of a sequence number (32 in the code)
    MaskBits,   \* width of the mask (64)
    Window,     \* WINDOW (1024)
    Lifetime,   \* how far behind the newest packet the network may deliver
    MaxSent     \* bound: packets the sender sends

ASSUME ReliabilityAssumption ==
    /\ {SeqBits, MaskBits, Window, Lifetime, MaxSent} \subseteq Nat \ {0}
    /\ MaskBits <= Window
    /\ Window <= Lifetime
    /\ 2 * Lifetime <= 2^SeqBits
    /\ 2^SeqBits = 2 * 2^(SeqBits - 1)      \* arithmetic, for the provers

VARIABLES
    highest, seen, mask,   \* ReliabilityState
    sent,       \* number of packets sent so far
    newest,     \* history: the largest packet accepted
    accepted,   \* history: packets validate returned Ok for
    verdict     \* history: the last packet and what validate said of it

windowVars == <<highest, seen, mask>>
reliabilityVars == <<highest, seen, mask, sent, newest, accepted, verdict>>

Space == 2^SeqBits
Half == 2^(SeqBits - 1)

Seq32(n) == n % Space

Verdicts == {"Ok", "Duplicate", "Stale"}

ReliabilityInit ==
    /\ highest = 0 /\ seen = FALSE /\ mask = {}
    /\ sent = 0 /\ newest = 0
    /\ accepted = {}
    /\ verdict = [packet |-> 0, again |-> FALSE, says |-> "Ok", back |-> 0]

-----------------------------------------------------------------------------
Forward(seq) == (seq - highest) % Space
Back(seq) == (highest - seq) % Space

Ahead(seq) == seq # highest /\ Forward(seq) < Half

(* Mutant: the mask starts again whenever the highest number moves. *)
Restarted(seq) == {0}

(* The mask after a packet ahead of the highest: shifted by the distance,  *)
(* or started again when the distance does not fit. *)
Shifted(seq) ==
    IF Forward(seq) < MaskBits
    THEN {b + Forward(seq) : b \in {c \in mask : c + Forward(seq) < MaskBits}} \cup {0}
    ELSE {0}

(* What validate answers for a sequence number. *)
Answer(seq) ==
    CASE ~seen                       -> "Ok"
      [] seen /\ seq = highest       -> "Duplicate"
      [] seen /\ Ahead(seq)          -> "Ok"
      [] OTHER ->
            IF Back(seq) >= Window THEN "Stale"
            ELSE IF Back(seq) < MaskBits /\ Back(seq) \in mask THEN "Duplicate"
            ELSE "Ok"

(* validate: the window after the packet numbered seq. *)
validate(seq) ==
    IF ~seen THEN highest' = seq /\ seen' = TRUE /\ mask' = {0}
    ELSE IF Ahead(seq) THEN highest' = seq /\ mask' = Shifted(seq) /\ UNCHANGED seen
    ELSE /\ mask' = IF Answer(seq) = "Ok" /\ Back(seq) < MaskBits
                    THEN mask \cup {Back(seq)} ELSE mask
         /\ UNCHANGED <<highest, seen>>

send ==
    /\ sent < MaxSent
    /\ seen => sent + 1 - newest <= Half
    /\ sent' = sent + 1
    /\ accepted' = {p \in accepted : p + Lifetime >= sent}
    /\ UNCHANGED <<highest, seen, mask, newest, verdict>>

(* The network delivers packet p, perhaps again. *)
receive(p) ==
    /\ p < sent /\ p + Lifetime >= sent
    /\ validate(Seq32(p))
    /\ accepted' = IF Answer(Seq32(p)) = "Ok" THEN accepted \cup {p} ELSE accepted
    /\ newest' = IF Answer(Seq32(p)) = "Ok" /\ (p > newest \/ ~seen) THEN p ELSE newest
    /\ verdict' = [packet |-> p, again |-> p \in accepted, says |-> Answer(Seq32(p)),
                   back |-> IF seen THEN Back(Seq32(p)) ELSE 0]
    /\ UNCHANGED sent

ReliabilityNext == send \/ \E p \in 0..(MaxSent - 1) : receive(p)

ReliabilitySpec == ReliabilityInit /\ [][ReliabilityNext]_reliabilityVars

-----------------------------------------------------------------------------
(* Properties. *)

ReliabilityTypeOK ==
    /\ highest \in 0..(Space - 1)
    /\ seen \in BOOLEAN
    /\ mask \subseteq 0..(MaskBits - 1)
    /\ sent \in 0..MaxSent /\ newest \in 0..MaxSent
    /\ accepted \subseteq 0..(MaxSent - 1)
    /\ verdict.says \in Verdicts

(* validate tells replays from packets never seen, across reordering,      *)
(* jumps and the wrap of the sequence space: within the reach of the mask  *)
(* a packet is accepted at most once, and a packet that was never accepted *)
(* is turned away only when it is older than the window, as stale.         *)
WindowExact ==
    /\ verdict.again /\ verdict.says = "Ok" => verdict.back \in MaskBits..(Window - 1)
    /\ ~verdict.again /\ verdict.says # "Ok" => verdict.says = "Stale" /\ verdict.back >= Window

=============================================================================
