------------------------------ MODULE Admission ------------------------------
(***************************************************************************)
(* Admission on the server: the AdmissionManager of                        *)
(* server/ald-server/src/admission.rs behind the ingress gate of           *)
(* ServerState::admit_packet, with the queue of AdmissionQueue and the     *)
(* PlayerService the network loop registers admitted players in.           *)
(*                                                                         *)
(* A handler is one action; out holds the messages its call returned.  The *)
(* network loop is one task, so a call and what the loop does with its     *)
(* replies are one step.  The per-peer token bucket may drop any packet:   *)
(* here that is a packet that never came.                                  *)
(***************************************************************************)
EXTENDS AdmissionQueue

CONSTANTS
    Peers,          \* socket addresses
    Blank,          \* the account id of a ClientAuth that is blank
    Uuids,          \* the account ids AldivinePlayerId::from_string parses
    Requires,       \* IdentityRequirements that are switched on
    MaxSessions     \* bound: ClientHellos answered, the cap on next_session

ASSUME AdmissionAssumption ==
    /\ Blank \notin Players
    /\ Uuids \subseteq Players
    /\ Requires \subseteq {"device", "platform"}
    /\ MaxSessions \in Nat \ {0}

VARIABLES
    sessions,       \* AdmissionManager::sessions; sid 0 when there is none
    next_session,   \* AdmissionManager::next_session
    online,         \* the ids PlayerService holds
    out             \* the last call of handle: its peer and what it returned

admissionVars == <<playing, waitlist, sessions, next_session, online, out>>

HandshakeState == {"None", "WaitingAuth", "WaitingIdentity", "WaitingQueue",
                   "Ready", "Rejected"}

AdmissionSession == [state : HandshakeState,
                     sid   : 0 .. MaxSessions,
                     id    : Players \cup {Blank},
                     queued : BOOLEAN]      \* queue_position is set

NoSession == [state |-> "None", sid |-> 0, id |-> Blank, queued |-> FALSE]

has_session(peer) == sessions[peer].sid # 0

Msg(t) == [t |-> t, n |-> 0]

\* The messages that carry the session id or the nonce, which is its image.
MsgOf(t, n) == [t |-> t, n |-> n]

Reply(peer, msgs) == out' = [peer |-> peer, msgs |-> msgs]

Reject(peer) == Reply(peer, <<Msg("Reject")>>)

SetState(peer, st) == sessions' = [sessions EXCEPT ![peer].state = st]

-----------------------------------------------------------------------------
\* An unknown peer may only use the Auth channel, the only one used here; a
\* peer whose session is Rejected is dropped.
admit_packet(peer) == sessions[peer].state # "Rejected"

on_hello(peer, current) ==
    \/ /\ ~current
       /\ Reject(peer)
       /\ UNCHANGED <<queueVars, sessions, next_session, online>>
    \/ /\ current
       /\ next_session <= MaxSessions
       /\ sessions' = [sessions EXCEPT ![peer] =
                          [state |-> "WaitingAuth", sid |-> next_session,
                           id |-> Blank, queued |-> FALSE]]
       /\ next_session' = next_session + 1
       /\ Reply(peer, <<MsgOf("ServerHello", next_session),
                        MsgOf("AuthChallenge", next_session)>>)
       /\ UNCHANGED <<queueVars, online>>

\* resp is the session whose nonce the answer echoes, 0 for no or another text.
on_auth(peer, id, resp) ==
    /\ UNCHANGED <<queueVars, next_session, online>>
    /\ \/ /\ sessions[peer].state # "WaitingAuth"       \* also: no session
          /\ Reject(peer)
          /\ UNCHANGED sessions
       \/ /\ sessions[peer].state = "WaitingAuth"
          /\ id = Blank \/ resp # sessions[peer].sid
          /\ SetState(peer, "Rejected")
          /\ Reject(peer)
       \/ /\ sessions[peer].state = "WaitingAuth"
          /\ id # Blank
          /\ resp = sessions[peer].sid
          /\ sessions' = [sessions EXCEPT ![peer].state = "WaitingIdentity",
                                          ![peer].id = id]
          /\ Reply(peer, <<Msg("AuthResult"), Msg("IdentityRequest")>>)

\* The identity built here knows a device at most, no platform account and no
\* entitlement: a server that requires one of those rejects everybody.
check_identity_policy(device) ==
    /\ "platform" \notin Requires
    /\ "device" \in Requires => device

\* No state is required.  The only gate, ban-check, always passes, so the
\* deferral session admits at its first poll.
on_identity(peer, device) ==
    /\ UNCHANGED <<queueVars, next_session, online>>
    /\ \/ /\ ~has_session(peer)
          /\ Reject(peer)
          /\ UNCHANGED sessions
       \/ /\ has_session(peer)
          /\ ~check_identity_policy(device)
          /\ SetState(peer, "Rejected")
          /\ Reject(peer)
       \/ /\ has_session(peer)
          /\ check_identity_policy(device)
          /\ SetState(peer, "WaitingQueue")
          /\ Reply(peer, <<Msg("DeferralDone"), Msg("EntitlementRequest")>>)

on_entitlement(peer) ==
    /\ IF sessions[peer].state = "WaitingQueue"
       THEN Reply(peer, <<Msg("EntitlementResult")>>)
       ELSE Reject(peer)
    /\ UNCHANGED <<queueVars, sessions, next_session, online>>

\* What the network loop does on ServerReady: PlayerService::join.
register(id) == online' = online \cup ({id} \cap Uuids)

\* Faulty variant: a player who is put on the waitlist is let in.
on_ready_queued_enters(peer, t) ==
    LET id == sessions[peer].id IN
    \/ /\ id = Blank
       /\ Reject(peer)
       /\ UNCHANGED <<queueVars, sessions, online, next_session>>
    \/ /\ id # Blank
       /\ sessions[peer].state # "Ready"
       /\ JoinAdmitted(id, FALSE) \/ JoinQueued(id, FALSE, t)
       /\ SetState(peer, "Ready")
       /\ register(id)
       /\ Reply(peer, <<Msg("QueueAdmitted"), Msg("ManifestOffer"), Msg("ServerReady")>>)
       /\ UNCHANGED next_session

\* Faulty variant: an id that is already present is treated as a reconnect.
on_ready_rejoins(peer, t) ==
    LET id == sessions[peer].id IN
    /\ id # Blank
    /\ SetState(peer, "Ready")
    /\ register(id)
    /\ JoinAdmitted(id, FALSE) \/ JoinRejected(id, FALSE)
    /\ Reply(peer, <<Msg("QueueAdmitted"), Msg("ManifestOffer"), Msg("ServerReady")>>)
    /\ UNCHANGED next_session

on_ready(peer, t) ==
    LET id == sessions[peer].id IN
    /\ UNCHANGED next_session
    /\ \/ /\ id = Blank                                 \* also: no session
          /\ Reject(peer)
          /\ UNCHANGED <<queueVars, sessions, online>>
       \/ /\ id # Blank
          /\ sessions[peer].state = "Ready"
          /\ register(id)
          /\ Reply(peer, <<Msg("ServerReady")>>)
          /\ UNCHANGED <<queueVars, sessions>>
       \/ /\ id # Blank
          /\ sessions[peer].state # "Ready"
          /\ JoinAdmitted(id, FALSE)
          /\ SetState(peer, "Ready")
          /\ register(id)
          /\ Reply(peer, <<Msg("QueueAdmitted"), Msg("ManifestOffer"), Msg("ServerReady")>>)
       \/ /\ id # Blank
          /\ sessions[peer].state # "Ready"
          /\ JoinQueued(id, FALSE, t)
          /\ sessions' = [sessions EXCEPT ![peer].queued = TRUE]
          /\ Reply(peer, <<Msg("QueueUpdate"), Msg("ManifestOffer")>>)
          /\ UNCHANGED online
       \/ /\ id # Blank
          /\ sessions[peer].state # "Ready"
          /\ JoinRejected(id, FALSE)
          /\ SetState(peer, "Rejected")
          /\ Reject(peer)
          /\ UNCHANGED online

\* AdmissionManager::remove: playing_leave, with its promotion, then
\* queue_leave.  An id is in one place, so one of the two finds it.
remove(peer) ==
    LET id == sessions[peer].id IN
    /\ has_session(peer)
    /\ sessions' = [sessions EXCEPT ![peer] = NoSession]
    /\ \/ playing_leave(id)
       \/ queue_leave(id)
       \/ ~is_playing(id) /\ ~is_queued(id) /\ UNCHANGED queueVars
    /\ out' = [peer |-> peer, msgs |-> <<>>]
    /\ UNCHANGED <<next_session, online>>

-----------------------------------------------------------------------------
AdmissionInit ==
    /\ QueueInit
    /\ sessions = [peer \in Peers |-> NoSession]
    /\ next_session = 1
    /\ online = {}
    /\ out \in {[peer |-> peer, msgs |-> <<>>] : peer \in Peers}

\* AdmissionManager::handle: one packet on the Auth channel.
handle(peer) ==
    \/ \E current \in BOOLEAN : on_hello(peer, current)
    \/ \E id \in Players \cup {Blank}, resp \in 0 .. MaxSessions :
          on_auth(peer, id, resp)
    \/ \E device \in BOOLEAN : on_identity(peer, device)
    \/ on_entitlement(peer)
    \/ \E t \in Times : on_ready(peer, t)

dropped(peer) == ~admit_packet(peer) /\ UNCHANGED admissionVars

AdmissionNext ==
    \E peer \in Peers : \/ admit_packet(peer) /\ handle(peer)
                        \/ dropped(peer)

\* What the server does: it never calls remove.
AdmissionSpec == AdmissionInit /\ [][AdmissionNext]_admissionVars

\* The manager with a caller that removes the peers that leave.
AdmissionLeaveSpec ==
    AdmissionInit /\ [][AdmissionNext \/ \E peer \in Peers : remove(peer)]_admissionVars

-----------------------------------------------------------------------------
(* Types of the sessions and of the registered players. *)
AdmissionTypeOK ==
    /\ QueueTypeOK
    /\ sessions \in [Peers -> AdmissionSession]
    /\ next_session \in 1 .. (MaxSessions + 1)
    /\ online \subseteq Uuids

(* Whoever is in the world has paid for it with a slot: every Ready session's
   account plays, and so does every account the network loop registered with
   the PlayerService, whatever hellos, identities and readies came again. *)
WorldHoldsSlot ==
    /\ \A peer \in Peers :
          sessions[peer].state = "Ready" => is_playing(sessions[peer].id)
    /\ \A p \in online : is_playing(p)

(* An account is in the world once: two peers are never both Ready under the
   same account id (the queue's AlreadyPresent). *)
OneReadyPeer ==
    \A p, q \in Peers :
        /\ sessions[p].state = "Ready"
        /\ sessions[q].state = "Ready"
        /\ sessions[p].id = sessions[q].id
        => p = q

(* "When a playing slot frees [...] the first entry that fits is promoted": a
   peer that was queued and whose account has been promoted since, while no
   other peer uses that account, is not rejected when it asks again. *)
PromotedGetsIn ==
    [][\A peer \in Peers :
          LET s == sessions[peer] IN
          (/\ s.queued
           /\ s.state = "WaitingQueue"
           /\ is_playing(s.id)
           /\ \A q \in Peers \ {peer} : sessions[q].id # s.id)
             => sessions'[peer].state # "Rejected"]_admissionVars

(* Whatever messages peers send in whatever order, with repeated hellos,   *)
(* stale nonces and shared accounts, whoever the AdmissionManager let into *)
(* the world holds a slot of the queue, and an account is in the world     *)
(* through one peer only.                                                  *)
AdmissionSound == WorldHoldsSlot /\ OneReadyPeer
=============================================================================
