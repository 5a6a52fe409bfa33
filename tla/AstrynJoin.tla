----------------------------- MODULE AstrynJoin -----------------------------
(***************************************************************************)
(* Astryn clients joining a server over UDP: run_connect_task and          *)
(* AstrynClient::shutdown of client/astryn/src/lib.rs, the network, and    *)
(* the server of module Admission.                                         *)
(*                                                                         *)
(* The network loses, delays and reorders packets, and delivers at most    *)
(* MaxDups of them twice.  A client's wait may time out at any moment.     *)
(* Every client draws a fresh account id, which here is its peer.  The     *)
(* session id in a packet's header is never read by the server.            *)
(***************************************************************************)
EXTENDS Admission

CONSTANTS
    HelloTries,         \* for _ in 0..3
    AuthRecvs,          \* for _ in 0..4
    IdentityRecvs,      \* for _ in 0..6
    EntitlementRecvs,   \* for _ in 0..4
    MaxDups             \* bound: packets the network delivers twice

ASSUME JoinAssumption ==
    /\ Peers \subseteq Players
    /\ HelloTries \in Nat \ {0}
    /\ AuthRecvs \in Nat
    /\ IdentityRecvs \in Nat
    /\ EntitlementRecvs \in Nat
    /\ MaxDups \in Nat

VARIABLES
    cli,            \* per peer: the connect task and what the client reports
    to_server,      \* packets on their way to the server
    to_client,      \* per peer: packets on their way to it
    dups            \* duplicates delivered so far

clientVars == <<cli, to_server, to_client, dups>>
joinVars == <<admissionVars, clientVars>>

ClientState == {"Connecting", "Loading", "Running", "Stopping", "Failed", "Idle"}

Pcs == {"send_hello", "hello", "challenge", "auth", "identity", "entitlement",
        "ready", "welcome", "running", "done"}

Client == [pc    : Pcs,
           left  : Nat,             \* tries or receives the current loop has left
           nonce : 0 .. MaxSessions,
           authed : BOOLEAN,
           state : ClientState,
           shut  : {"no", "asked", "over"}]     \* AstrynClient::shutdown

Send(peer, t, n) == to_server' = to_server \cup {[peer |-> peer, t |-> t, n |-> n]}

-----------------------------------------------------------------------------
(* The connect task: one action per send and per kind of receive. *)

At(peer, pc) == cli[peer].pc = pc

Become(peer, c) == cli' = [cli EXCEPT ![peer] = c]

Failed(peer) == [cli[peer] EXCEPT !.pc = "done", !.state = "Failed"]

Fail(peer) == Become(peer, Failed(peer))

Stop(peer) == Become(peer, [cli[peer] EXCEPT !.pc = "done", !.state = "Idle"])

\* One more pass of the current loop, or, after its last pass, what follows.
AgainOr(peer, after) ==
    Become(peer, IF cli[peer].left > 1
                 THEN [cli[peer] EXCEPT !.left = @ - 1]
                 ELSE after)

send_hello(peer) ==
    /\ At(peer, "send_hello")
    /\ \/ cli[peer].shut # "no" /\ Stop(peer) /\ UNCHANGED to_server
       \/ /\ cli[peer].shut = "no"
          /\ Become(peer, [cli[peer] EXCEPT !.pc = "hello"])
          /\ Send(peer, "ClientHello", cli[peer].left)
       \/ Fail(peer) /\ UNCHANGED to_server    \* no socket, bad address, send error
    /\ UNCHANGED <<to_client, dups>>

\* The next hello, or Failed after the last one.
RetryHello(peer) ==
    Become(peer, IF cli[peer].left > 1
                 THEN [cli[peer] EXCEPT !.pc = "send_hello", !.left = @ - 1]
                 ELSE Failed(peer))

recv_hello(peer, m) ==
    /\ At(peer, "hello")
    /\ UNCHANGED to_server
    /\ \/ m.t = "ServerHello" /\ Become(peer, [cli[peer] EXCEPT !.pc = "challenge"])
       \/ m.t = "Reject" /\ Fail(peer)
       \/ m.t \notin {"ServerHello", "Reject"} /\ RetryHello(peer)

recv_challenge(peer, m) ==
    /\ At(peer, "challenge")
    /\ \/ /\ m.t = "AuthChallenge"
          /\ Become(peer, [cli[peer] EXCEPT !.pc = "auth", !.left = AuthRecvs,
                                            !.nonce = m.n])
          /\ Send(peer, "ClientAuth", m.n)
       \/ m.t = "AuthChallenge" /\ Fail(peer) /\ UNCHANGED to_server   \* send error
       \/ /\ m.t # "AuthChallenge"
          /\ RetryHello(peer)
          /\ UNCHANGED to_server

\* Leaving the auth loop: Loading and the IdentityResponse.
Loading(peer, c) ==
    \/ /\ Become(peer, [c EXCEPT !.pc = "identity", !.left = IdentityRecvs,
                                 !.state = "Loading"])
       /\ Send(peer, "IdentityResponse", 0)
    \/ Fail(peer) /\ UNCHANGED to_server        \* send error

recv_auth(peer, m) ==
    LET ok == cli[peer].authed \/ m.t = "AuthResult"
        c  == [cli[peer] EXCEPT !.authed = ok]
    IN  /\ At(peer, "auth")
        /\ \/ m.t = "Reject" /\ Fail(peer) /\ UNCHANGED to_server
           \/ m.t = "IdentityRequest" /\ cli[peer].authed /\ Loading(peer, c)
           \/ /\ m.t # "Reject"
              /\ ~(m.t = "IdentityRequest" /\ cli[peer].authed)
              /\ \/ /\ c.left > 1
                    /\ Become(peer, [c EXCEPT !.left = @ - 1])
                    /\ UNCHANGED to_server
                 \/ c.left <= 1 /\ ok /\ Loading(peer, c)
                 \/ c.left <= 1 /\ ~ok /\ Fail(peer) /\ UNCHANGED to_server

recv_identity(peer, m) ==
    /\ At(peer, "identity")
    /\ \/ /\ m.t = "DeferralDone"
          /\ Become(peer, [cli[peer] EXCEPT !.pc = "entitlement",
                                            !.left = EntitlementRecvs])
          /\ Send(peer, "EntitlementRequest", 0)
       \/ m.t = "Reject" /\ Fail(peer) /\ UNCHANGED to_server
       \/ /\ m.t \notin {"DeferralDone", "Reject"}
          /\ AgainOr(peer, Failed(peer))
          /\ UNCHANGED to_server

recv_entitlement(peer, m) ==
    /\ At(peer, "entitlement")
    /\ \/ /\ m.t = "EntitlementResult"
          /\ Become(peer, [cli[peer] EXCEPT !.pc = "ready", !.left = 0])
          /\ Send(peer, "ClientReady", 0)
       \/ m.t = "Reject" /\ Fail(peer) /\ UNCHANGED to_server
       \/ /\ m.t \notin {"EntitlementResult", "Reject"}
          /\ AgainOr(peer, Failed(peer))
          /\ UNCHANGED to_server

\* Faulty variant: the manifest alone is taken for the admission.
recv_ready_manifest(peer, m) ==
    /\ At(peer, "ready")
    /\ UNCHANGED to_server
    /\ \/ m.t = "ManifestOffer" /\ Become(peer, [cli[peer] EXCEPT !.pc = "welcome"])
       \/ m.t = "Reject" /\ Fail(peer)
       \/ m.t \notin {"ManifestOffer", "Reject"} /\ UNCHANGED cli

recv_ready(peer, m) ==
    /\ At(peer, "ready")
    /\ UNCHANGED to_server
    /\ \/ m.t = "ServerReady" /\ Become(peer, [cli[peer] EXCEPT !.pc = "welcome"])
       \/ m.t = "Reject" /\ Fail(peer)
       \/ /\ m.t \notin {"ServerReady", "Reject"}
          /\ IF cli[peer].shut = "no" THEN UNCHANGED cli ELSE Stop(peer)

\* The packet after ServerReady is taken for the welcome event whatever it is.
recv_welcome(peer) ==
    /\ At(peer, "welcome")
    /\ Become(peer, [cli[peer] EXCEPT !.pc = "running", !.state = "Running"])
    /\ UNCHANGED to_server

receive(peer) ==
    \E m \in to_client[peer] :
        /\ to_client' = [to_client EXCEPT ![peer] = @ \ {m}]
        /\ UNCHANGED dups
        /\ \/ recv_hello(peer, m)
           \/ recv_challenge(peer, m)
           \/ recv_auth(peer, m)
           \/ recv_identity(peer, m)
           \/ recv_entitlement(peer, m)
           \/ recv_ready(peer, m)
           \/ recv_welcome(peer)

\* A timeout in one of the counted loops uses up a pass.
out_of_time(peer) ==
    \/ /\ At(peer, "auth")
       /\ cli[peer].left <= 1
       /\ cli[peer].authed
       /\ Loading(peer, cli[peer])
    \/ /\ cli[peer].pc \in {"auth", "identity", "entitlement"}
       /\ ~(At(peer, "auth") /\ cli[peer].left <= 1 /\ cli[peer].authed)
       /\ AgainOr(peer, Failed(peer))
       /\ UNCHANGED to_server

\* Faulty variant: the last loop waits on when its receive times out.
timed_out_waits_on(peer) ==
    /\ UNCHANGED <<to_client, dups>>
    /\ \/ cli[peer].pc \in {"hello", "challenge"} /\ RetryHello(peer) /\ UNCHANGED to_server
       \/ recv_welcome(peer)
       \/ cli[peer].shut = "no" /\ out_of_time(peer)

\* recv_handshake returned None because its time was up.
timed_out(peer) ==
    /\ UNCHANGED <<to_client, dups>>
    /\ \/ cli[peer].pc \in {"hello", "challenge"} /\ RetryHello(peer) /\ UNCHANGED to_server
       \/ recv_welcome(peer)
       \/ cli[peer].shut = "no" /\ out_of_time(peer)
       \/ /\ cli[peer].shut = "no"
          /\ At(peer, "ready")
          /\ Fail(peer)
          /\ UNCHANGED to_server

\* Faulty variant: the running loop does not watch the signal.
interrupted_not_running(peer) ==
    /\ cli[peer].shut # "no"
    /\ UNCHANGED <<to_server, to_client, dups>>
    /\ \/ cli[peer].pc \in {"hello", "challenge"} /\ RetryHello(peer)
       \/ /\ cli[peer].pc \in {"auth", "identity", "entitlement", "ready"}
          /\ Stop(peer)

\* recv_handshake returned None because shutdown was signalled.  In the last
\* hello pass that ends in Failed, everywhere else in Idle; the wait for the
\* welcome event does not watch the signal.
interrupted(peer) ==
    /\ cli[peer].shut # "no"
    /\ UNCHANGED <<to_server, to_client, dups>>
    /\ \/ cli[peer].pc \in {"hello", "challenge"} /\ RetryHello(peer)
       \/ /\ cli[peer].pc \in {"auth", "identity", "entitlement", "ready", "running"}
          /\ Stop(peer)

task(peer) == send_hello(peer) \/ receive(peer) \/ timed_out(peer) \/ interrupted(peer)

-----------------------------------------------------------------------------
(* AstrynClient::shutdown. *)

shutdown(peer) ==
    /\ cli[peer].shut = "no"
    /\ Become(peer, [cli[peer] EXCEPT !.shut = "asked",
                        !.state = IF @ = "Failed" THEN @ ELSE "Stopping"])
    /\ UNCHANGED <<to_server, to_client, dups>>

\* The task has ended, or half a second has passed: a second is what the wait
\* for the welcome event may take, and every other wait ends at the signal.
shutdown_returns(peer) ==
    /\ cli[peer].shut = "asked"
    /\ cli[peer].pc \in {"done", "welcome"}
    /\ Become(peer, [cli[peer] EXCEPT !.shut = "over", !.state = "Idle"])
    /\ UNCHANGED <<to_server, to_client, dups>>

-----------------------------------------------------------------------------
(* The network and the server.  A packet that is lost is one never served or
   received. *)

\* The server handles a packet, which may stay in the network as a duplicate.
dispatch(m) ==
    \/ m.t = "ClientHello" /\ on_hello(m.peer, TRUE)
    \/ m.t = "ClientAuth" /\ on_auth(m.peer, m.peer, m.n)
    \/ m.t = "IdentityResponse" /\ on_identity(m.peer, TRUE)
    \/ m.t = "EntitlementRequest" /\ on_entitlement(m.peer)
    \/ m.t = "ClientReady" /\ \E t \in Times : on_ready(m.peer, t)

serve(m) ==
    /\ \/ to_server' = to_server \ {m} /\ UNCHANGED dups
       \/ dups < MaxDups /\ dups' = dups + 1 /\ UNCHANGED to_server
    /\ \/ /\ admit_packet(m.peer)
          /\ dispatch(m)
          /\ to_client' = [to_client EXCEPT ![m.peer] =
                              @ \cup {out'.msgs[i] : i \in DOMAIN out'.msgs}]
       \/ /\ ~admit_packet(m.peer)
          /\ UNCHANGED <<to_client, admissionVars>>
    /\ UNCHANGED cli

\* Another player, whose client is not looked at, reaches on_ready and takes a
\* slot or a place in the waitlist.
other_joins(p) ==
    /\ JoinAdmitted(p, FALSE) \/ \E t \in Times : JoinQueued(p, FALSE, t)
    /\ UNCHANGED <<sessions, next_session, online, out>>
    /\ UNCHANGED clientVars

-----------------------------------------------------------------------------
JoinInit ==
    /\ AdmissionInit
    /\ cli = [peer \in Peers |-> [pc |-> "send_hello", left |-> HelloTries, nonce |-> 0,
                                  authed |-> FALSE, state |-> "Connecting", shut |-> "no"]]
    /\ to_server = {}
    /\ to_client = [peer \in Peers |-> {}]
    /\ dups = 0

JoinNext ==
    \/ \E peer \in Peers :
          (task(peer) \/ shutdown(peer) \/ shutdown_returns(peer)) /\ UNCHANGED admissionVars
    \/ \E m \in to_server : serve(m)
    \/ \E p \in Players \ Peers : other_joins(p)

JoinSpec == JoinInit /\ [][JoinNext]_joinVars

\* The runtime polls a task whose wait is over: each task keeps taking steps,
\* and the wait of a shutdown ends.  Nothing is assumed of the network, the
\* server or the user.
JoinFairSpec ==
    /\ JoinSpec
    /\ \A peer \in Peers :
          /\ WF_joinVars(task(peer) /\ UNCHANGED admissionVars)
          /\ WF_joinVars(shutdown_returns(peer) /\ UNCHANGED admissionVars)

-----------------------------------------------------------------------------
(* Types of the queue, the server's sessions, the clients and the packets: a
   client's loop, in particular, never has fewer than no passes left. *)
JoinTypeOK ==
    /\ AdmissionTypeOK
    /\ cli \in [Peers -> Client]
    /\ \A m \in to_server : m.peer \in Peers
    /\ dups \in 0 .. MaxDups

(* "Running only after ServerReady": a client that runs holds a playing slot
   on the server, although replies come late, twice and out of order. *)
RunningHoldsSlot ==
    \A peer \in Peers : cli[peer].pc = "running" => is_playing(peer)

(* No join hangs: whatever the network does, the connect task ends or the
   client runs ("never hang", no_server_never_reaches_running). *)
JoinTerminates ==
    \A peer \in Peers : <>(cli[peer].pc \in {"running", "done"})

(* A client that was told to quit ends idle, with its task gone, wherever the
   signal caught it: also when the half second of shutdown runs out first and
   the task reports Running once more after the client reported Idle. *)
QuitEndsIdle ==
    \A peer \in Peers :
        cli[peer].shut = "asked" ~>
            cli[peer].shut = "over" /\ cli[peer].pc = "done" /\ cli[peer].state = "Idle"

(* run_connect_task comes to an end over any network, and a client that    *)
(* shutdown() told to quit ends Idle with its task gone.                   *)
JoinEnds == JoinTerminates /\ QuitEndsIdle
=============================================================================
