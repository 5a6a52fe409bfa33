------------------------------ MODULE Transfer ------------------------------
(***************************************************************************)
(* Astryn fetches resource files from the server over the ResourceTransfer *)
(* channel: the client's request loop, the server's chunk reply, and a     *)
(* datagram network that loses, duplicates, delays and reorders both.      *)
(* The session is locked for a whole fetch, so that one runs at a time.    *)
(* The variable dl of Download is the fetch's download and tick counts its *)
(* attempts (the loop steps its attempts and its ticks together).          *)
(***************************************************************************)
EXTENDS Download

CONSTANTS
    Files,          \* names of resource files
    NoFile,         \* no fetch is running
    FileSize(_, _),     \* length of a file in a version of it
    Negotiated,     \* the version whose size and hash the manifest gave
    ChunkCap,       \* CHUNK_CAP
    Mtu,            \* bytes of a chunk for which the reply fits MTU
    StallPerChunk,  \* 3: attempts granted per chunk
    StallSlack,     \* 10: attempts granted besides
    MaxEdits        \* bound: times a file changes on the server

ASSUME TransferAssumption ==
    /\ NoFile \notin Files /\ Negotiated \in Versions
    /\ ChunkCap \in Nat \ {0}
    /\ {Mtu, StallPerChunk, StallSlack, MaxEdits} \subseteq Nat
    /\ \A f \in Files, v \in Versions : FileSize(f, v) \in Nat /\ <<f, v>> # Absent

VARIABLES
    cur,            \* the file being fetched, or NoFile
    phase,          \* where its loop is: "request" or "recv"
    result,         \* file -> how its last fetch ended
    cache,          \* file -> the bytes committed under its hash, or <<>>
    content,        \* file -> the version the server has
    edits,          \* times a file changed so far
    requests,       \* request datagrams in flight
    replies         \* reply datagrams in flight

fetchVars == <<dl, tick, cur, phase, result, cache>>
transferVars == <<fetchVars, content, edits, requests, replies>>

TransferInit ==
    /\ DownloadInit
    /\ cur = NoFile /\ phase = "request"
    /\ result = [f \in Files |-> "none"] /\ cache = [f \in Files |-> <<>>]
    /\ content = [f \in Files |-> Negotiated] /\ edits = 0
    /\ requests = {} /\ replies = {}

-----------------------------------------------------------------------------
(* The client. *)

ChunkCount(len) == (len + ChunkCap - 1) \div ChunkCap

(* The fetch of cur ends: its session is unlocked, its download dropped. *)
Ends(outcome) ==
    /\ result' = [result EXCEPT ![cur] = outcome]
    /\ cur' = NoFile /\ phase' = "request"
    /\ dl' = Download_new(FileLen, 0) /\ tick' = 0

(* fetch_resource_file is called; an empty file has no chunk plan. *)
fetch_resource_file(f) ==
    /\ cur = NoFile
    /\ IF FileSize(f, Negotiated) = 0
       THEN result' = [result EXCEPT ![f] = "bad plan"] /\ UNCHANGED <<cur, dl>>
       ELSE cur' = f /\ dl' = Download_new(FileSize(f, Negotiated), 0) /\ UNCHANGED result
    /\ UNCHANGED <<tick, phase, cache, content, edits, requests, replies>>

Stalled == tick > StallPerChunk * ChunkCount(Cardinality(DOMAIN dl.bytes)) + StallSlack

stall ==
    /\ cur # NoFile /\ phase = "request"
    /\ Stalled
    /\ Ends("stalled")
    /\ UNCHANGED <<cache, content, edits, requests, replies>>

(* The first missing range is asked for as a whole. *)
Wanted == missing_ranges(dl)[1]

(* encode_request refuses a range longer than a chunk. *)
encode_refused ==
    /\ cur # NoFile /\ phase = "request" /\ ~Stalled
    /\ Wanted[2] > ChunkCap
    /\ Ends("request refused")
    /\ UNCHANGED <<cache, content, edits, requests, replies>>

(* Mutant: the attempt is not counted. *)
NextAttempt_uncounted == tick

NextAttempt == tick + 1

send_request ==
    /\ cur # NoFile /\ phase = "request" /\ ~Stalled
    /\ Wanted[2] <= ChunkCap
    /\ requests' = requests \cup {[name |-> cur, offset |-> Wanted[1], len |-> Wanted[2]]}
    /\ tick' = NextAttempt
    /\ phase' = "recv"
    /\ UNCHANGED <<dl, cur, result, cache, content, edits, replies>>

(* Two seconds pass, or a packet of another channel comes. *)
recv_nothing ==
    /\ cur # NoFile /\ phase = "recv"
    /\ phase' = "request"
    /\ UNCHANGED <<dl, tick, cur, result, cache, content, edits, requests, replies>>

(* A reply longer than the receive buffer is cut off, fails to decode, and *)
(* counts as nothing. *)
recv_truncated(r) ==
    /\ cur # NoFile /\ phase = "recv"
    /\ Len(r.data) > Mtu
    /\ phase' = "request"
    /\ UNCHANGED <<dl, tick, cur, result, cache, content, edits, requests, replies>>

(* Mutant: the name in the reply is not compared. *)
SizeMatches(r) == r.total = FileSize(cur, Negotiated)

Expected(r) == r.name = cur /\ r.total = FileSize(cur, Negotiated)

(* A chunk of another file, of a file of another size, or one the download *)
(* refuses, ends the fetch. *)
recv_wrong(r) ==
    /\ cur # NoFile /\ phase = "recv" /\ Len(r.data) <= Mtu
    /\ ~Expected(r) \/ ~CanReceive(dl, r.offset, Len(r.data))
    /\ Ends("wrong chunk")
    /\ UNCHANGED <<cache, content, edits, requests, replies>>

(* Mutant: the digest is not compared. *)
HashAny(d, f) == TRUE

(* The digest of the assembled bytes is the one of the manifest. *)
HashMatches(d, f) == \A i \in DOMAIN d.bytes : d.bytes[i] = <<f, Negotiated>>

(* A chunk is taken; the last one leads on to the hash and the cache. *)
recv_chunk(r) ==
    LET d == Received(dl, r.offset, r.data, tick)
    IN  /\ cur # NoFile /\ phase = "recv" /\ Len(r.data) <= Mtu
        /\ Expected(r) /\ CanReceive(dl, r.offset, Len(r.data))
        /\ IF ~is_complete(d)
           THEN dl' = d /\ phase' = "request" /\ UNCHANGED <<tick, cur, result, cache>>
           ELSE IF HashMatches(d, cur)
                THEN Ends("ok") /\ cache' = [cache EXCEPT ![cur] = d.bytes]
                ELSE Ends("hash mismatch") /\ UNCHANGED cache
        /\ UNCHANGED <<content, edits, requests, replies>>

-----------------------------------------------------------------------------
(* The server and the network. *)

(* serve_chunk, for an admitted peer; an offset past the end is refused. *)
serve_chunk(q) ==
    LET total == FileSize(q.name, content[q.name])
        end   == Min({q.offset + Min({q.len, ChunkCap}), total})
    IN  /\ q.offset <= total
        /\ replies' = replies \cup
             {[name |-> q.name, offset |-> q.offset, total |-> total,
               data |-> [i \in 1..(end - q.offset) |-> <<q.name, content[q.name]>>]]}
        /\ UNCHANGED <<fetchVars, content, edits, requests>>

(* The file changes on the server after the manifest was offered. *)
edit(f, v) ==
    /\ edits < MaxEdits /\ v # content[f]
    /\ edits' = edits + 1
    /\ content' = [content EXCEPT ![f] = v]
    /\ UNCHANGED <<fetchVars, requests, replies>>

(* A datagram stays in flight, and can be delivered again, until dropped. *)
lose_request(q) == requests' = requests \ {q} /\ UNCHANGED <<fetchVars, content, edits, replies>>

lose_reply(r) == replies' = replies \ {r} /\ UNCHANGED <<fetchVars, content, edits, requests>>

ClientStep ==
    \/ stall \/ encode_refused \/ send_request \/ recv_nothing
    \/ \E r \in replies : recv_truncated(r) \/ recv_wrong(r) \/ recv_chunk(r)

TransferNext ==
    \/ ClientStep
    \/ \E f \in Files : fetch_resource_file(f) \/ \E v \in Versions : edit(f, v)
    \/ \E q \in requests : serve_chunk(q) \/ lose_request(q)
    \/ \E r \in replies : lose_reply(r)

(* The client's loop is a task with a timer on every wait. *)
TransferSpec == TransferInit /\ [][TransferNext]_transferVars /\ WF_transferVars(ClientStep)

-----------------------------------------------------------------------------
(* Properties. *)

(* "Verify its SHA-256 against the negotiated manifest, and commit it to   *)
(* the content cache": late, duplicated and stale chunks included, what is *)
(* in the cache under a file's hash is that file, and a fetch that         *)
(* reported success left it there. *)
OnlyVerifiedCached ==
    \A f \in Files :
        /\ cache[f] # <<>> => cache[f] = [i \in 0..(FileSize(f, Negotiated) - 1) |-> <<f, Negotiated>>]
        /\ result[f] = "ok" => cache[f] # <<>>

(* Chunks of one file are never put into another, whatever the order in    *)
(* which fetches, timeouts and late replies come. *)
NoForeignBytes ==
    cur # NoFile => \A i \in DOMAIN dl.bytes : dl.bytes[i] # Absent => dl.bytes[i][1] = cur

(* "Never an infinite download": every fetch ends. *)
FetchEnds == cur # NoFile ~> cur = NoFile

(* A fetch neither mixes files nor leaves an unverified one behind: no     *)
(* chunk of another file lands in it, however late, and what is committed  *)
(* to the cache is the bytes that were negotiated.                         *)
TransferSound == OnlyVerifiedCached /\ NoForeignBytes
=============================================================================
